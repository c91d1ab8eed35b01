--------------------------- MODULE MCCaseWorkflow ---------------------------
(***************************************************************************)
(* Small instances of CaseWorkflow. The property is clean, encumbered or   *)
(* not yet sourced; an analyst may submit a deed copy that conflicts, is   *)
(* confirmed or is superseded, a source alert, which the engine takes for  *)
(* a conflict and the readiness does not, and the canonical item typed in  *)
(* once more, captured or superseded. Two of the manual decisions and one  *)
(* closure break the reason-code rules.                                    *)
(***************************************************************************)
EXTENDS CaseWorkflow, TLC

CONSTANTS r1, ann, s1, canon, intake, deed, alert, c1, c2

MCRefs == {r1}
MCOwners == {ann}
MCSeeds == {s1}
MCEvidenceKeys == {canon, intake, deed, alert}
MCKeyType == [k \in MCEvidenceKeys |-> IF k = alert THEN "source_conflict" ELSE "ordinary"]

Registered(r) == [ref |-> r, spelling |-> "as_registered"]
MCCaseTitles == {Registered(r1), NoTitle}

Item(k, s) == [key |-> k, flagged |-> FALSE, status |-> s]
MCNewEvidence ==
    {Item(deed, "conflicting"), Item(deed, "confirmed"), Item(deed, "superseded"),
     Item(alert, "captured"), Item(canon, "captured"), Item(canon, "superseded")}

CleanProperty ==
    [title |-> Registered(r1), titleStatus |-> "registered", encumbered |-> FALSE,
     sourced |-> TRUE, quarantined |-> FALSE, owners |-> {ann}]
MCProperties ==
    {CleanProperty, [CleanProperty EXCEPT !.encumbered = TRUE],
     [CleanProperty EXCEPT !.sourced = FALSE]}

Manual(d, codes) == [decision |-> d, codes |-> codes]
MCManualDecisions ==
    {Manual("clear", {"TITLE_SEARCH_CLEAN"}),
     Manual("review", {"SOURCE_CONFLICT"}),
     Manual("stop", {"REGISTERED_BOND_CONFLICT"}),
     Manual("clear", {"TITLE_SEARCH_CLEAN", "MISSING_TITLE_REFERENCE"}),
     Manual("stop", {"SOURCE_CONFLICT"})}
MCClosureCodes == {{"MISSING_TITLE_REFERENCE"}, {"TITLE_SEARCH_CLEAN"}}

-----------------------------------------------------------------------------
\* The instance for two requests in flight: interchangeable clients, fewer inputs.
TwoClients == {c1, c2}
ClientSymmetry == Permutations(TwoClients)

FewEvidence ==
    {Item(deed, "conflicting"), Item(deed, "confirmed"),
     Item(canon, "captured"), Item(canon, "superseded")}
FewProperties == {CleanProperty, [CleanProperty EXCEPT !.encumbered = TRUE]}
FewManualDecisions ==
    {Manual("clear", {"TITLE_SEARCH_CLEAN"}), Manual("review", {"SOURCE_CONFLICT"}),
     Manual("stop", {"SOURCE_CONFLICT"})}
FewTitles == {Registered(r1)}
=============================================================================
