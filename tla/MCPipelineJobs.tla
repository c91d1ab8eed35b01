--------------------------- MODULE MCPipelineJobs ---------------------------
(***************************************************************************)
(* Small instances of PipelineJobs. ShippedCheck is the CHECK of the       *)
(* migrations; IntendedCheck also admits the status "blocked" the store    *)
(* writes and the worker looks for, so that ingestion can run at all.      *)
(***************************************************************************)
EXTENDS PipelineJobs

CONSTANTS w1, w2, b1, b2

TwoWorkers == {w1, w2}
TwoBatches == {b1, b2}

ShippedCheck == {"pending", "leased", "running", "failed", "completed", "quarantined"}
IntendedCheck == ShippedCheck \cup {"blocked"}
=============================================================================
