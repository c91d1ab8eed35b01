--------------------------- MODULE CaseLifecycle ---------------------------
(***************************************************************************)
(* What the case workflows promise, without the rows that carry it. A case *)
(* is worked on, decided or closed, and may be taken up again. The file a  *)
(* case was decided or closed on does not change: whoever changes the file *)
(* takes the case up again in the same step. A verdict, once given, stays  *)
(* until another replaces it. The customer is shown "resolved" exactly     *)
(* while the case is decided or closed.                                    *)
(***************************************************************************)
CONSTANTS NoVerdict,     \* the verdict of a case never decided
          NoMatter       \* what is shown of a case no customer submitted

VARIABLES phase,         \* "absent", "working", "decided" or "closed"
          file,          \* everything a decision is taken on
          verdict,       \* the verdict in force
          shown          \* the status the customer is shown

lifecycleVars == <<phase, file, verdict, shown>>

ShownWhile(p) == IF p = "working" THEN {"submitted", "in_review", "reopened"} ELSE {"resolved"}

\* Nobody learns of a phase another status than its own; a case submitted by
\* no customer stays so.
Show(p) == IF shown = NoMatter THEN shown' = NoMatter ELSE shown' \in ShownWhile(p)

Init ==
    /\ phase = "absent"
    /\ verdict = NoVerdict
    /\ shown = NoMatter

Open ==
    /\ phase = "absent" /\ phase' = "working"
    /\ shown' \in {NoMatter, "submitted"}
    /\ verdict' = verdict

\* Working on a case, taking it up again included.
Work ==
    /\ phase # "absent" /\ phase' = "working"
    /\ Show("working")
    /\ verdict' = verdict

Decide ==
    /\ phase # "absent" /\ phase' = "decided"
    /\ verdict' # NoVerdict
    /\ Show("decided")
    /\ file' = file

Close ==
    /\ phase # "absent" /\ phase' = "closed"
    /\ Show("closed")
    /\ UNCHANGED <<file, verdict>>

Next == Open \/ Work \/ Decide \/ Close

Spec == Init /\ [][Next]_lifecycleVars
=============================================================================
