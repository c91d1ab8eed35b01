---------------------------- MODULE RunProgress ----------------------------
(***************************************************************************)
(* What the job queue promises of a run, without jobs, leases and workers: *)
(* its stages are done one after another, each once; it completes with its *)
(* last stage, may fail at any of them, and is then left as it is.         *)
(***************************************************************************)
EXTENDS Naturals

CONSTANTS Runs,
          MaxStages    \* the most stages a run may have

VARIABLES stages,    \* how many stages a run has
          phase,     \* "absent", "pending", "running", "failed" or "completed"
          done       \* the stages of a run that are done

progressVars == <<stages, phase, done>>

Init ==
    /\ stages = [r \in Runs |-> 0]
    /\ phase = [r \in Runs |-> "absent"]
    /\ done = [r \in Runs |-> {}]

Create(r, n) ==
    /\ phase[r] = "absent" /\ phase' = [phase EXCEPT ![r] = "pending"]
    /\ stages' = [stages EXCEPT ![r] = n]
    /\ done' = done

Begin(r) ==
    /\ phase[r] = "pending" /\ phase' = [phase EXCEPT ![r] = "running"]
    /\ UNCHANGED <<stages, done>>

Advance(r, k) ==
    /\ phase[r] = "running" /\ k <= stages[r]
    /\ done[r] = 1..(k - 1) /\ done' = [done EXCEPT ![r] = 1..k]
    /\ phase' = IF k = stages[r] THEN [phase EXCEPT ![r] = "completed"] ELSE phase
    /\ stages' = stages

Fail(r) ==
    /\ phase[r] = "running" /\ phase' = [phase EXCEPT ![r] = "failed"]
    /\ UNCHANGED <<stages, done>>

Next ==
    \E r \in Runs :
        \/ \E n \in 1..MaxStages : Create(r, n)
        \/ Begin(r)
        \/ \E k \in 1..MaxStages : Advance(r, k)
        \/ Fail(r)

Spec == Init /\ [][Next]_progressVars
=============================================================================
