----------------------------- MODULE Ingestion -----------------------------
(***************************************************************************)
(* The stages of an ingestion run and the rows they write: raw.records,    *)
(* stage.*, core.* and read.property_summaries.                            *)
(*                                                                         *)
(* PipelineJobs shows that one ingestion run is active at a time and that  *)
(* its stages run in order, each at most once. Within a stage each INSERT  *)
(* is committed by itself, so the worker may fail, or be gone for ever,    *)
(* between any two; only read_refresh is one transaction.                  *)
(*                                                                         *)
(* A row's identity is its key: a record is (batch, record_key), a        *)
(* property its fingerprint, a fact of a property the columns its table is *)
(* unique by.                                                              *)
(***************************************************************************)
EXTENDS Naturals, Sequences, FiniteSets, SequencesExt

CONSTANTS Batches,         \* in the order in which they are submitted
          Payloads,        \* the lines a batch's file may have
          Keys,            \* record_key
          Offices, Titles, Names, BondTypes,
          StageReadsWork,  \* whether the SELECTs of read_stage_* are valid SQL
          Faults           \* whether a stage may meet a database error

VARIABLES payload,      \* the lines of each batch's file
          progress,     \* the run of each batch: status, and stages completed
          raw,          \* raw.records of each batch
          staged,       \* the normalized records of each batch, stage.*_rows
          quarantined,  \* stage.quarantined_records of each batch, their keys
          core,         \* the facts of each property in core.*, "none" where absent
          links,        \* core.source_links
          summaries,    \* read.property_summaries
          worker        \* the stage under way, and what it has left to do

vars == <<payload, progress, raw, staged, quarantined, core, links, summaries, worker>>

Spellings == {"registered", "other"}
NoOffice == [name |-> "missing", spelling |-> "registered"]
NoTitle == [ref |-> "missing", spelling |-> "registered"]
TitleStatuses == {"registered", "interdicted"}
BondStatuses == {"active", "cancelled"}

\* A line of a source file. Blank values count as missing; owners and bonds are
\* finitely many.
Records ==
    [key : Keys,
     office : [name : Offices, spelling : Spellings] \cup {NoOffice},
     title : [ref : Titles, spelling : Spellings] \cup {NoTitle},
     status : TitleStatuses \cup {"missing"},
     owners : {ns \in SUBSET Names : IsFiniteSet(ns)},
     bonds : {bs \in SUBSET [type : BondTypes, status : BondStatuses] : IsFiniteSet(bs)}]

ASSUME PayloadsAssumption == Payloads \subseteq Seq(Records)
ASSUME BatchesAssumption == Batches \subseteq Nat

Fingerprints == Offices \X Titles
FactIds ==
    {<<"property", "row">>, <<"title", "row">>}
        \cup {<<"party", n>> : n \in Names} \cup {<<"encumbrance", t>> : t \in BondTypes}
Values == Spellings \cup TitleStatuses \cup {"owner"} \cup BondStatuses
Links == [property : Fingerprints, batch : Batches, key : Keys, id : FactIds]
Summaries == [owner : Names \cup {"none"}, status : BondStatuses \cup {"normal", "none"}]
NoSummary == [owner |-> "none", status |-> "none"]

Stages == 1..4   \* raw_landing, stage_normalization, core_materialization, read_refresh
Idle == [batch |-> 0, stage |-> 0, todo |-> <<>>]

-----------------------------------------------------------------------------
\* Variant of Normalizes: a record without an office passes.
NormalizesByTitle(r) == r.title # NoTitle

\* normalize_record keeps a record, or quarantines it.
Normalizes(r) == r.office # NoOffice /\ r.title # NoTitle

\* The stage rows of a record: the title in its normal form, the office trimmed.
Normalized(r) == [r EXCEPT !.title = r.title.ref]

\* property_fingerprint: however the office is spelled.
PropertyFingerprint(row) == <<row.office.name, row.title>>

Fact(id, value) == [id |-> id, value |-> value]

\* The rows of the stage tables: what a record states of the property of a title.
Row(r, fact) == [key |-> r.key, title |-> r.title, fact |-> fact]
TitleRows(r) ==
    {Row(r, Fact(<<"title", "row">>, s)) : s \in {r.status} \ {"missing"}}
PartyRows(r) == {Row(r, Fact(<<"party", n>>, "owner")) : n \in r.owners}
BondRows(r) == {Row(r, Fact(<<"encumbrance", b.type>>, b.status)) : b \in r.bonds}

Statement(op, fp, row) == [op |-> op, property |-> fp, key |-> row.key, fact |-> row.fact]

\* Variant of Inserted: the links of a table are left to the end.
InsertedThenLinked(fp, rows) ==
    LET Each(op) == FlattenSeq([i \in DOMAIN rows |->
                        IF rows[i].title = fp[2] THEN <<Statement(op, fp, rows[i])>> ELSE <<>>])
    IN  Each("upsert") \o Each("link")

\* Variant of Inserted: the rows of other titles too.
InsertedOfAny(fp, rows) ==
    FlattenSeq([i \in DOMAIN rows |-> <<Statement("upsert", fp, rows[i]),
                                        Statement("link", fp, rows[i])>>])

\* Each fact of a table that has the property's title is upserted, then linked to
\* its record.
Inserted(fp, rows) ==
    FlattenSeq([i \in DOMAIN rows |->
        IF rows[i].title = fp[2]
        THEN <<Statement("upsert", fp, rows[i]), Statement("link", fp, rows[i])>>
        ELSE <<>>])

\* The statements of materialize::run for one property row. The facts of a table
\* are those of every row with its title, of whichever office.
MaterializeProperty(row, tables) ==
    LET fp == PropertyFingerprint(row)
        own == Row(row, Fact(<<"property", "row">>, row.office.spelling))
    IN  <<Statement("upsert", fp, own)>>
          \o FlattenSeq([i \in DOMAIN tables |-> Inserted(fp, tables[i])])
          \o <<Statement("link", fp, own)>>

\* The orders in which a SELECT without ORDER BY may return its rows.
Orders(rows) == SetToSeqs(rows)

\* The tables of titles, parties and encumbrances, as three SELECTs return them.
Tables(records) ==
    Orders(UNION {TitleRows(r) : r \in records})
        \X Orders(UNION {PartyRows(r) : r \in records})
        \X Orders(UNION {BondRows(r) : r \in records})

\* The statements of a materialization, whatever the orders of the four SELECTs.
Materializations(records) ==
    {FlattenSeq([i \in DOMAIN rows |-> MaterializeProperty(rows[i], tables)]) :
        rows \in Orders(records), tables \in Tables(records)}

\* The upserts: a title or a party that is there stays as it is, a property row
\* or an encumbrance is replaced.
Upserted(old, fact) ==
    IF old # "none" /\ fact.id[1] \in {"title", "party"} THEN old ELSE fact.value

-----------------------------------------------------------------------------
Status(b) == progress[b].status
Active(b) == Status(b) \in {"pending", "running"}

Init ==
    /\ payload \in [Batches -> Payloads]
    /\ progress = [b \in Batches |-> [status |-> "absent", done |-> 0]]
    /\ raw = [b \in Batches |-> {}]
    /\ staged = [b \in Batches |-> {}]
    /\ quarantined = [b \in Batches |-> {}]
    /\ core = [fp \in Fingerprints |-> [id \in FactIds |-> "none"]]
    /\ links = {}
    /\ summaries = [fp \in Fingerprints |-> NoSummary]
    /\ worker = Idle

\* CreateSourceIngestionRun, which one active run at most lets through.
Submit(b) ==
    /\ Status(b) = "absent"
    /\ \A a \in Batches : ~Active(a) /\ (a < b => Status(a) # "absent")
    /\ progress' = [progress EXCEPT ![b].status = "pending"]
    /\ UNCHANGED <<payload, raw, staged, quarantined, core, links, summaries, worker>>

\* What a stage reads and has to do.
Todo(b, stage) ==
    CASE stage = 1 -> {payload[b]}
      [] stage = 2 -> Orders(raw[b])
      [] stage = 3 -> IF StageReadsWork
                      THEN Materializations(staged[b])
                      ELSE {<<>>}
      [] stage = 4 -> {<<"refresh">>}

\* The worker takes the next stage of the active run and reads what it needs.
BeginStage(b) ==
    /\ worker = Idle /\ Active(b)
    /\ LET stage == progress[b].done + 1
       IN  \E todo \in Todo(b, stage) :
               worker' = [batch |-> b, stage |-> stage, todo |-> todo]
    /\ progress' = [progress EXCEPT ![b].status = "running"]
    /\ UNCHANGED <<payload, raw, staged, quarantined, core, links, summaries>>

\* The worker goes on after the first of what it has left to do.
GoOn == worker' = [worker EXCEPT !.todo = Tail(@)]
At(stage) == worker.stage = stage /\ worker.todo # <<>>

\* insert_raw_record: a record_key the batch has already is skipped.
InsertRawRecord ==
    /\ At(1) /\ GoOn
    /\ LET b == worker.batch
           r == Head(worker.todo)
       IN  raw' = [raw EXCEPT ![b] = IF \E q \in @ : q.key = r.key THEN @ ELSE @ \cup {r}]
    /\ UNCHANGED <<payload, progress, staged, quarantined, core, links, summaries>>

\* Variant of NormalizeRecord: a record without a status is staged and quarantined.
NormalizeAndQuarantine ==
    /\ At(2) /\ GoOn
    /\ LET b == worker.batch
           r == Head(worker.todo)
       IN  /\ staged' =
                [staged EXCEPT ![b] = @ \cup (IF Normalizes(r) THEN {Normalized(r)} ELSE {})]
           /\ quarantined' =
                [quarantined EXCEPT ![b] =
                    @ \cup (IF Normalizes(r) /\ r.status # "missing" THEN {} ELSE {r.key})]
    /\ UNCHANGED <<payload, progress, raw, core, links, summaries>>

\* One record of normalization::run, to its stage rows or to quarantine. Rows of a
\* record that is cut short are read by nobody: its run never reaches stage 3.
NormalizeRecord ==
    /\ At(2) /\ GoOn
    /\ LET b == worker.batch
           r == Head(worker.todo)
       IN  \/ /\ Normalizes(r)
              /\ staged' = [staged EXCEPT ![b] = @ \cup {Normalized(r)}]
              /\ quarantined' = quarantined
           \/ /\ ~Normalizes(r)
              /\ quarantined' = [quarantined EXCEPT ![b] = @ \cup {r.key}]
              /\ staged' = staged
    /\ UNCHANGED <<payload, progress, raw, core, links, summaries>>

\* One statement of materialize::run.
Materialize ==
    /\ At(3) /\ GoOn
    /\ LET s == Head(worker.todo)
           link == [property |-> s.property, batch |-> worker.batch,
                    key |-> s.key, id |-> s.fact.id]
       IN  \/ /\ s.op = "upsert"
              /\ core' = [core EXCEPT ![s.property][s.fact.id] = Upserted(@, s.fact)]
              /\ links' = links
           \/ /\ s.op = "link"
              /\ links' = links \cup {link}
              /\ core' = core
    /\ UNCHANGED <<payload, progress, raw, staged, quarantined, summaries>>

\* The owners and the encumbrances' statuses in core of a property.
Owners(fp) == {n \in Names : core[fp][<<"party", n>>] # "none"}
Encumbrances(fp) == {core[fp][<<"encumbrance", t>>] : t \in BondTypes} \ {"none"}
InCore(fp) == core[fp][<<"property", "row">>] # "none"

\* The summaries read_model::run may write of a property: any owner and any
\* encumbrance it has, as LIMIT 1 without ORDER BY takes.
SummariesOf(fp) ==
    [owner : IF Owners(fp) = {} THEN {"none"} ELSE Owners(fp),
     status : IF Encumbrances(fp) = {} THEN {"normal"} ELSE Encumbrances(fp)]

\* Variant of Refresh: a summary that is there is kept.
RefreshNewOnly ==
    /\ At(4) /\ GoOn
    /\ summaries' \in
         {s \in [Fingerprints -> Summaries] :
             \A fp \in Fingerprints :
                 IF InCore(fp) /\ summaries[fp] = NoSummary
                 THEN s[fp] \in SummariesOf(fp) ELSE s[fp] = summaries[fp]}
    /\ UNCHANGED <<payload, progress, raw, staged, quarantined, core, links>>

\* read_model::run: every property of core in one transaction.
Refresh ==
    /\ At(4) /\ GoOn
    /\ summaries' \in
         {s \in [Fingerprints -> Summaries] :
             \A fp \in Fingerprints :
                 IF InCore(fp) THEN s[fp] \in SummariesOf(fp) ELSE s[fp] = summaries[fp]}
    /\ UNCHANGED <<payload, progress, raw, staged, quarantined, core, links>>

\* Variant of EndStage: the run is completed with its third stage.
CompleteEarly ==
    /\ worker # Idle /\ worker.todo = <<>>
    /\ worker.stage = 3 => StageReadsWork
    /\ worker' = Idle
    /\ progress' = [progress EXCEPT ![worker.batch] =
                       [status |-> IF worker.stage >= 3 THEN "completed" ELSE "running",
                        done |-> worker.stage]]
    /\ UNCHANGED <<payload, raw, staged, quarantined, core, links, summaries>>

\* mark_job_completed, which completes the run with its last stage.
EndStage ==
    /\ worker # Idle /\ worker.todo = <<>>
    /\ worker.stage = 3 => StageReadsWork
    /\ worker' = Idle
    /\ progress' = [progress EXCEPT ![worker.batch] =
                       [status |-> IF worker.stage = 4 THEN "completed" ELSE "running",
                        done |-> worker.stage]]
    /\ UNCHANGED <<payload, raw, staged, quarantined, core, links, summaries>>

\* A file that cannot be read or parsed, or a database error, between any two
\* statements: mark_job_failed fails the run, and nothing is undone.
FailStage ==
    /\ worker # Idle
    /\ Faults \/ (worker.stage = 3 /\ ~StageReadsWork)
    /\ worker' = Idle
    /\ progress' = [progress EXCEPT ![worker.batch].status = "failed"]
    /\ UNCHANGED <<payload, raw, staged, quarantined, core, links, summaries>>

Next ==
    \/ \E b \in Batches : Submit(b) \/ BeginStage(b)
    \/ InsertRawRecord \/ NormalizeRecord \/ Materialize \/ Refresh
    \/ EndStage \/ FailStage

Spec == Init /\ [][Next]_vars

-----------------------------------------------------------------------------
TypeOK ==
    /\ payload \in [Batches -> Payloads]
    /\ progress \in [Batches -> [status : {"absent", "pending", "running", "failed", "completed"},
                                 done : 0..4]]
    /\ raw \in [Batches -> SUBSET Records]
    /\ \A b \in Batches : \A r \in staged[b] :
            r.key \in Keys /\ r.title \in Titles /\ r.office \in [name : Offices, spelling : Spellings]
    /\ quarantined \in [Batches -> SUBSET Keys]
    /\ core \in [Fingerprints -> [FactIds -> Values \cup {"none"}]]
    /\ links \subseteq Links
    /\ summaries \in [Fingerprints -> Summaries]
    /\ worker = Idle \/ (worker.batch \in Batches /\ worker.stage \in Stages)

\* Whatever the order in which the raw records are read, normalization has staged
\* or quarantined each of them when it is done, none of them both ways and nothing
\* else (normalization::run).
StagedOrQuarantined ==
    \A b \in Batches : progress[b].done >= 2 =>
        /\ staged[b] = {Normalized(r) : r \in {q \in raw[b] : Normalizes(q)}}
        /\ quarantined[b] = {r.key : r \in {q \in raw[b] : ~Normalizes(q)}}
        /\ \A r \in staged[b] : r.key \notin quarantined[b]

\* What a link's record states of the fact it is linked to.
Stated(l) ==
    {row.fact.value : row \in
        {row \in UNION {TitleRows(r) \cup PartyRows(r) \cup BondRows(r)
                          \cup {Row(r, Fact(<<"property", "row">>, r.office.spelling))} :
                        r \in staged[l.batch]} :
            row.key = l.key /\ row.title = l.property[2] /\ row.fact.id = l.id}}

\* A link names a fact that is there and a staged record of the property's title
\* that states it, in a batch that has a record of the property itself
\* (materialize::run pairs the rows by title only).
LinksAreJustified ==
    \A l \in links :
        /\ core[l.property][l.id] # "none"
        /\ Stated(l) # {}
        /\ \E r \in staged[l.batch] : PropertyFingerprint(r) = l.property

\* The facts of core no linked record states.
Unsourced ==
    {f \in Fingerprints \X FactIds :
        /\ core[f[1]][f[2]] # "none"
        /\ \A l \in links : l.property = f[1] /\ l.id = f[2] => core[f[1]][f[2]] \notin Stated(l)}

\* Every fact of core can be traced to a record that states it, but for at most two
\* of each batch whose materialization is under way or was cut short: the property
\* row, which is linked last, and the fact just inserted (materialize::run).
FactsHaveSources ==
    Cardinality(Unsourced) <= 2 * Cardinality({b \in Batches : progress[b].done = 2})

\* When a batch is refreshed, and none after it has got to its materialization, the
\* search model has exactly core's properties, each with an owner and a status core
\* has of it, those of failed batches included (read_model::run).
SearchAgreesWithCore ==
    \A b \in Batches :
        Status(b) = "completed" /\ (\A a \in Batches : a > b => progress[a].done < 2)
            => \A fp \in Fingerprints :
                   summaries[fp] \in IF InCore(fp) THEN SummariesOf(fp) ELSE {NoSummary}

\* To whom submits it, a batch goes through its four stages as RunProgress says.
Progress == INSTANCE RunProgress WITH
    Runs <- Batches,
    MaxStages <- 4,
    stages <- [b \in Batches |-> IF Status(b) = "absent" THEN 0 ELSE 4],
    phase <- [b \in Batches |-> Status(b)],
    done <- [b \in Batches |-> 1..progress[b].done]

ProgressSpec == Progress!Spec

\* What "Read all stage data for this batch" promises: without a fault of the database
\* a run does not fail (materialize::run).
SoundRunsDoNotFail == Faults \/ \A b \in Batches : Status(b) # "failed"
=============================================================================
