---------------------------- MODULE MCIngestion ----------------------------
(***************************************************************************)
(* Two batches whose files hold a property's record, its correction, a     *)
(* record of another office with the same title, a line without an office  *)
(* and a line with two bonds of one type.                                  *)
(***************************************************************************)
EXTENDS Ingestion, TLC

CONSTANTS k1, k2, o1, o2, t1, t2, ann, ben, bond

TwoBatches == {1, 2}
TwoKeys == {k1, k2}
TwoOffices == {o1, o2}
TwoTitles == {t1, t2}
TwoNames == {ann, ben}
OneBondType == {bond}

Line(key, office, title, status, owners, bonds) ==
    [key |-> key, office |-> office, title |-> [ref |-> title, spelling |-> "registered"],
     status |-> status, owners |-> owners, bonds |-> {[type |-> bond, status |-> s] : s \in bonds}]
As(name, spelling) == [name |-> name, spelling |-> spelling]

First == Line(k1, As(o1, "registered"), t1, "registered", {ann}, {"active"})
Correction == Line(k1, As(o1, "other"), t1, "interdicted", {ben}, {"cancelled"})
OtherOffice == Line(k2, As(o2, "registered"), t1, "missing", {ben}, {})
OtherTitle == Line(k2, As(o1, "registered"), t2, "interdicted", {}, {})
NoStatus == Line(k2, As(o1, "other"), t1, "missing", {}, {"active", "cancelled"})
OfficeMissing == Line(k2, NoOffice, t1, "registered", {ann}, {"active"})
TitleMissing ==
    [OfficeMissing EXCEPT !.office = As(o1, "registered"), !.title = NoTitle]

SomePayloads ==
    {<<First, OtherOffice>>, <<First, OtherTitle>>, <<First, Correction>>, <<Correction, NoStatus>>,
     <<Correction, OfficeMissing>>, <<TitleMissing, First>>, <<>>}
=============================================================================
