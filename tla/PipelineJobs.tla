---------------------------- MODULE PipelineJobs ----------------------------
(***************************************************************************)
(* The runs and jobs of the deeds pipeline: the rows of raw.batches,       *)
(* ops.runs, ops.jobs and ops.job_attempts, the API calls that create them *)
(* and the worker loop that works them off.                                *)
(*                                                                         *)
(* A run has a fixed sequence of stages, one job each; a job is named by   *)
(* its run and the position of its job_kind. Each step of a worker is one  *)
(* statement or transaction of worker.rs and db/jobs.rs; a database error  *)
(* may strike before or after it took effect, and ends the worker.         *)
(***************************************************************************)
EXTENDS Naturals, Sequences

CONSTANTS Workers,            \* worker tasks
          Runs,               \* positions in the order of created_at
          Batches,            \* (source_name, source_batch_key) of ingestion requests
          JobStatusCheck,     \* the statuses the CHECK of ops.jobs.status admits
          MaxFaults           \* bound: worker tasks lost

ASSUME JobsConstants ==
    /\ Runs \subseteq Nat
    /\ {"pending", "leased", "running", "failed", "completed"} \subseteq JobStatusCheck
    /\ MaxFaults \in Nat
    /\ "none" \notin Batches

VARIABLES runs,      \* ops.runs: type and status
          jobs,      \* ops.jobs: the status of each stage of each run
          attempts,  \* ops.job_attempts: outcomes, by attempt_number
          batches,   \* raw.batches of ingestion requests
          workers,   \* where each worker task is, and with which job
          faults,    \* worker tasks lost so far
          reply      \* the answer to the last request

vars == <<runs, jobs, attempts, batches, workers, faults, reply>>

Seed == "seed_property_projection"
Ingestion == "source_ingestion_v1"
StageCount == [type \in {Seed, Ingestion} |-> IF type = Seed THEN 1 ELSE 4]
Stages == 1..4

RunStatuses == {"pending", "running", "failed", "completed"}
JobStatuses == {"blocked", "pending", "leased", "running", "failed", "completed"}
Outcomes == {"running", "failed", "completed"}

\* Where a worker task is: before claim_next_job, mark_job_running,
\* begin_job_attempt, in the stage's own code, before mark_job_completed or
\* mark_job_failed; or gone.
Places == {"idle", "claimed", "marked", "working", "succeeded", "failing", "ended"}

NoRun == [type |-> "none", status |-> "absent"]
Away(pc) == [pc |-> pc, run |-> 0, stage |-> 0]
At(pc, r, i) == [pc |-> pc, run |-> r, stage |-> i]

TypeOK ==
    /\ runs \in [Runs -> [type : {Seed, Ingestion}, status : RunStatuses] \cup {NoRun}]
    /\ jobs \in [Runs -> [Stages -> JobStatuses \cup {"none"}]]
    /\ attempts \in [Runs -> [Stages -> Seq(Outcomes)]]
    /\ batches \subseteq Batches
    /\ workers \in [Workers -> {Away("idle"), Away("ended")} \cup
                      [pc : Places \ {"idle", "ended"}, run : Runs, stage : Stages]]
    /\ faults \in 0..MaxFaults
    /\ reply \in [batch : Batches \cup {"none"}, code : {"none", "created", "conflict", "error"}]

-----------------------------------------------------------------------------
Init ==
    /\ runs = [r \in Runs |-> NoRun]
    /\ jobs = [r \in Runs |-> [i \in Stages |-> "none"]]
    /\ attempts = [r \in Runs |-> [i \in Stages |-> <<>>]]
    /\ batches = {}
    /\ workers = [w \in Workers |-> Away("idle")]
    /\ faults = 0
    /\ reply = [batch |-> "none", code |-> "none"]

Exists(r) == runs[r].status # "absent"
Active(r) == runs[r].status \in {"pending", "running"}
Finished(r) == runs[r].status \in {"failed", "completed"}

\* idx_runs_active_unique: a second active run of a type is refused.
ActiveOf(type) == \E r \in Runs : runs[r].type = type /\ Active(r)

\* The jobs a new run is created with.
FirstStatus(type, i) ==
    IF i = 1 THEN "pending" ELSE IF i <= StageCount[type] THEN "blocked" ELSE "none"

\* The CHECK of ops.jobs.status admits every job the run is created with.
JobsInsertable(type) ==
    \A i \in 1..StageCount[type] : FirstStatus(type, i) \in JobStatusCheck

CreateRun(r, type) ==
    /\ ~Exists(r)
    /\ runs' = [runs EXCEPT ![r] = [type |-> type, status |-> "pending"]]
    /\ jobs' = [jobs EXCEPT ![r] = [i \in Stages |-> FirstStatus(type, i)]]

\* CreateSeedProjectionRun: the batch key is the time, so no batch is in the way.
StartSeedProjection ==
    /\ UNCHANGED <<attempts, batches, workers, faults>>
    /\ \/ /\ ~ActiveOf(Seed)
          /\ \E r \in Runs : CreateRun(r, Seed)
          /\ reply' = [batch |-> "none", code |-> "created"]
       \/ /\ ActiveOf(Seed)
          /\ reply' = [batch |-> "none", code |-> "conflict"]
          /\ UNCHANGED <<runs, jobs>>

\* CreateSourceIngestionRun: batch, run and jobs in one transaction, in this
\* order. A known batch fails on UNIQUE (source_name, source_batch_key), which is
\* not translated; an active run is a conflict; a job the CHECK refuses rolls
\* everything back.
StartSourceIngestion(b) ==
    /\ UNCHANGED <<attempts, workers, faults>>
    /\ \/ /\ b \notin batches /\ ~ActiveOf(Ingestion) /\ JobsInsertable(Ingestion)
          /\ \E r \in Runs : CreateRun(r, Ingestion)
          /\ batches' = batches \cup {b}
          /\ reply' = [batch |-> b, code |-> "created"]
       \/ /\ b \notin batches /\ ActiveOf(Ingestion)
          /\ reply' = [batch |-> b, code |-> "conflict"]
          /\ UNCHANGED <<runs, jobs, batches>>
       \/ /\ b \in batches \/ ~(ActiveOf(Ingestion) \/ JobsInsertable(Ingestion))
          /\ reply' = [batch |-> b, code |-> "error"]
          /\ UNCHANGED <<runs, jobs, batches>>

-----------------------------------------------------------------------------
\* The worker. A step that takes effect is heard of, or the connection is lost
\* with its answer and the task ends: worker::run returns the error.
GoesTo(w, place, heard) ==
    /\ workers' = [workers EXCEPT ![w] = IF heard THEN place ELSE Away("ended")]
    /\ IF heard THEN faults' = faults ELSE faults < MaxFaults /\ faults' = faults + 1

Claimable(r, i) == jobs[r][i] = "pending"

\* Variant of ClaimNextJob: a job whose lease may have expired is claimed again.
ClaimLapsed(w, heard) ==
    \E r \in Runs, i \in Stages :
        /\ workers[w] = Away("idle")
        /\ jobs[r][i] \in {"pending", "leased", "running"}
        /\ jobs' = [jobs EXCEPT ![r][i] = "leased"]
        /\ GoesTo(w, At("claimed", r, i), heard)
        /\ UNCHANGED <<runs, attempts, batches, reply>>

\* claim_next_job: the oldest pending job, leased. FOR UPDATE SKIP LOCKED makes
\* the claim one step. Nobody reads lease_expires_at.
ClaimNextJob(w, heard) ==
    \E r \in Runs, i \in Stages :
        /\ workers[w] = Away("idle")
        /\ Claimable(r, i)
        /\ \A q \in Runs, k \in Stages : Claimable(q, k) => r <= q
        /\ jobs' = [jobs EXCEPT ![r][i] = "leased"]
        /\ GoesTo(w, At("claimed", r, i), heard)
        /\ UNCHANGED <<runs, attempts, batches, reply>>

\* claim_next_job finds nothing, and the worker sleeps.
Poll(w) ==
    /\ workers[w] = Away("idle")
    /\ \A r \in Runs, i \in Stages : ~Claimable(r, i)
    /\ UNCHANGED vars

\* mark_job_running: the run is set to running, whatever its status.
MarkJobRunning(w, heard) ==
    \E r \in Runs, i \in Stages :
        /\ workers[w] = At("claimed", r, i)
        /\ jobs' = [jobs EXCEPT ![r][i] = "running"]
        /\ runs' = [runs EXCEPT ![r].status = "running"]
        /\ GoesTo(w, At("marked", r, i), heard)
        /\ UNCHANGED <<attempts, batches, reply>>

\* begin_job_attempt: the next attempt_number.
BeginJobAttempt(w, heard) ==
    \E r \in Runs, i \in Stages :
        /\ workers[w] = At("marked", r, i)
        /\ attempts' = [attempts EXCEPT ![r][i] = Append(@, "running")]
        /\ GoesTo(w, At("working", r, i), heard)
        /\ UNCHANGED <<runs, jobs, batches, reply>>

\* The stage's run function returns.
RunStage(w, place) ==
    \E r \in Runs, i \in Stages :
        /\ workers[w] = At("working", r, i)
        /\ workers' = [workers EXCEPT ![w] = At(place, r, i)]
        /\ UNCHANGED <<runs, jobs, attempts, batches, faults, reply>>

\* Variant of Closing: a failed attempt counts as abandoned.
ClosingAbandoned(outcomes, outcome) ==
    [n \in DOMAIN outcomes |-> IF outcomes[n] = "running" /\ outcome = "failed"
                               THEN "abandoned" ELSE outcome]

\* The attempts of a job, the running ones closed with outcome.
Closing(outcomes, outcome) ==
    [n \in DOMAIN outcomes |-> IF outcomes[n] = "running" THEN outcome ELSE outcomes[n]]

\* Variant of CompletedIfAll: any completed stage completes the run.
CompletedAtOnce(run, statuses) == [run EXCEPT !.status = "completed"]

\* The run completes when each of its jobs is completed in statuses.
CompletedIfAll(run, statuses) ==
    IF \A i \in 1..StageCount[run.type] : statuses[i] = "completed"
    THEN [run EXCEPT !.status = "completed"] ELSE run

\* Variant of StagesAfter: the next stage stays blocked.
StagesAfterOnlyCompleted(statuses, i) == [statuses EXCEPT ![i] = "completed"]

\* The stage is completed and the next one unblocked.
StagesAfter(statuses, i) ==
    [k \in Stages |-> IF k = i THEN "completed"
                      ELSE IF k = i + 1 /\ statuses[k] = "blocked" THEN "pending"
                      ELSE statuses[k]]

MarkJobCompleted(w, heard) ==
    \E r \in Runs, i \in Stages :
        /\ workers[w] = At("succeeded", r, i)
        /\ jobs' = [jobs EXCEPT ![r] = StagesAfter(jobs[r], i)]
        /\ attempts' = [attempts EXCEPT ![r][i] = Closing(@, "completed")]
        /\ runs' = [runs EXCEPT ![r] = CompletedIfAll(@, jobs'[r])]
        /\ GoesTo(w, Away("idle"), heard)
        /\ UNCHANGED <<batches, reply>>

\* Variant of MarkJobFailed: the run is left as it is.
MarkJobFailedAlone(w, heard) ==
    \E r \in Runs, i \in Stages :
        /\ workers[w] = At("failing", r, i)
        /\ jobs' = [jobs EXCEPT ![r][i] = "failed"]
        /\ attempts' = [attempts EXCEPT ![r][i] = Closing(@, "failed")]
        /\ GoesTo(w, Away("idle"), heard)
        /\ UNCHANGED <<runs, batches, reply>>

\* mark_job_failed: the run fails with its job; later stages stay blocked.
MarkJobFailed(w, heard) ==
    \E r \in Runs, i \in Stages :
        /\ workers[w] = At("failing", r, i)
        /\ jobs' = [jobs EXCEPT ![r][i] = "failed"]
        /\ attempts' = [attempts EXCEPT ![r][i] = Closing(@, "failed")]
        /\ runs' = [runs EXCEPT ![r].status = "failed"]
        /\ GoesTo(w, Away("idle"), heard)
        /\ UNCHANGED <<batches, reply>>

\* The task ends before its next step took effect: the statement failed, or the
\* process was stopped.
WorkerLost(w) ==
    /\ workers[w] # Away("ended")
    /\ GoesTo(w, Away("idle"), FALSE)
    /\ UNCHANGED <<runs, jobs, attempts, batches, reply>>

\* Somebody starts the process again: nothing in the program does. Nothing of what
\* the task was at is remembered.
Restart(w) ==
    /\ workers[w] = Away("ended")
    /\ workers' = [workers EXCEPT ![w] = Away("idle")]
    /\ UNCHANGED <<runs, jobs, attempts, batches, faults, reply>>
-----------------------------------------------------------------------------
DatabaseStep(w, heard) ==
    \/ ClaimNextJob(w, heard)
    \/ MarkJobRunning(w, heard)
    \/ BeginJobAttempt(w, heard)
    \/ MarkJobCompleted(w, heard)
    \/ MarkJobFailed(w, heard)

WorkerStep(w) ==
    \/ DatabaseStep(w, TRUE)
    \/ Poll(w)
    \/ \E place \in {"succeeded", "failing"} : RunStage(w, place)

Fault(w) == DatabaseStep(w, FALSE) \/ WorkerLost(w)

Next ==
    \/ StartSeedProjection
    \/ \E b \in Batches : StartSourceIngestion(b)
    \/ \E w \in Workers : WorkerStep(w) \/ Fault(w) \/ Restart(w)

Spec == Init /\ [][Next]_vars

\* The worker loop polls for ever and a stage works through finite input, so a
\* task that has not ended takes its next step. Nothing is asked of Restart.
Fairness == \A w \in Workers : WF_vars(WorkerStep(w))

FairSpec == Spec /\ Fairness
-----------------------------------------------------------------------------
\* A stage begins only when every stage before it is completed: normalization
\* never reads a batch that is still landing.
StagesInOrder ==
    \A r \in Runs : \A i, k \in Stages :
        k < i /\ jobs[r][i] \notin {"none", "blocked"} => jobs[r][k] = "completed"

\* The status of a run is that of its jobs, though mark_job_running sets it
\* without a look and failing jobs leave others behind.
RunFollowsJobs ==
    \A r \in Runs : Exists(r) =>
        LET mine == 1..StageCount[runs[r].type]
        IN  /\ runs[r].status = "completed" <=> \A i \in mine : jobs[r][i] = "completed"
            /\ runs[r].status = "failed" <=> \E i \in mine : jobs[r][i] = "failed"
            /\ runs[r].status = "pending" <=> jobs[r][1] \in {"pending", "leased"}

\* An active run always has a job that is pending or taken: the stages of a run
\* cannot all wait for one another.
ActiveRunHasLiveJob ==
    \A r \in Runs : Active(r) =>
        \E i \in Stages : jobs[r][i] \in {"pending", "leased", "running"}

\* Two tasks never hold the same job, and a held job is marked as taken.
JobsHeldOnce ==
    \A w \in Workers : workers[w].pc \notin {"idle", "ended"} =>
        /\ jobs[workers[w].run][workers[w].stage] =
               IF workers[w].pc = "claimed" THEN "leased" ELSE "running"
        /\ \A v \in Workers \ {w} :
               ~(workers[v].run = workers[w].run /\ workers[v].stage = workers[w].stage)

\* The code of a stage runs at most once: its plain inserts into stage.* would
\* otherwise count a source record twice.
StageRunsOnce == \A r \in Runs, i \in Stages : Len(attempts[r][i]) <= 1

\* mark_job_running never meets the index on active runs: the run of a claimed
\* job is still the active one of its type.
IndexSparesWorker ==
    \A w \in Workers : workers[w].pc \in {"claimed", "marked"} =>
        LET r == workers[w].run
        IN  Active(r) /\ \A q \in Runs \ {r} : ~(Active(q) /\ runs[q].type = runs[r].type)

\* A run that has failed or completed stays as it is.
FinishedStaysFinished == [][\A r \in Runs : Finished(r) => runs'[r] = runs[r]]_vars

\* A request for a batch not seen before, with no ingestion active, creates the
\* run.
FreshBatchIsAccepted ==
    [][\A b \in Batches \ batches :
        reply' # reply /\ reply'.batch = b /\ ~ActiveOf(Ingestion)
        => reply'.code = "created"]_vars

\* A job is orphaned when it is taken and no task is at it.
Orphaned(r) ==
    \E i \in Stages :
        /\ jobs[r][i] \in {"leased", "running"}
        /\ \A w \in Workers : ~(workers[w].run = r /\ workers[w].stage = i)

NoTaskLeft == \A w \in Workers : workers[w] = Away("ended")

\* Every run that is created fails or completes, unless the task at one of its
\* jobs was lost, or from some time on there is no task at all.
RunsFinish ==
    \/ \A r \in Runs : Active(r) ~> Finished(r) \/ Orphaned(r)
    \/ <>[]NoTaskLeft

\* What becomes of a run, and of its stages, is what RunProgress says.
Progress == INSTANCE RunProgress WITH
    MaxStages <- 4,
    stages <- [r \in Runs |-> IF Exists(r) THEN StageCount[runs[r].type] ELSE 0],
    phase <- [r \in Runs |-> runs[r].status],
    done <- [r \in Runs |-> {i \in Stages : jobs[r][i] = "completed"}]

ProgressSpec == Progress!Spec
=============================================================================
