--------------------------- MODULE MCPortalCases ---------------------------
(***************************************************************************)
(* Small instance of PortalCases: a reason code of each category, and one  *)
(* analyst, who may click twice; the others are the environment.           *)
(***************************************************************************)
EXTENDS PortalCases

CONSTANT b1

MCBrowsers == {b1}
MCCatalogue ==
    {"TITLE_SEARCH_CLEAN", "ACTIVE_INTERDICT", "SOURCE_CONFLICT", "MISSING_TITLE_REFERENCE"}
MCInitially ==
    {[status |-> "open", proposal |-> "stop", candidate |-> TRUE,
      ready |-> FALSE, change |-> 0],
     [status |-> "in_review", proposal |-> "clear", candidate |-> FALSE,
      ready |-> TRUE, change |-> 0]}
MCUsed == {"decide", "evidence", "reopen"}
MCMaxQueue == [b \in MCBrowsers |-> 2]
=============================================================================
