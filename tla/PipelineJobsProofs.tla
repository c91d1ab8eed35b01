------------------------ MODULE PipelineJobsProofs ------------------------
(***************************************************************************)
(* The safety properties of PipelineJobs, for any number of workers, runs, *)
(* batches and lost workers, and whatever statuses the schema admits; and  *)
(* its refinement of RunProgress. A run in progress has completed its      *)
(* first stages, is at one, and has not begun the others (InProgress):     *)
(* each step of a worker moves a run from one such shape to the next.      *)
(***************************************************************************)
EXTENDS PipelineJobs, TLAPS

Types == {Seed, Ingestion}
Live == {"pending", "leased", "running"}
RunRows == [type : Types, status : RunStatuses]

\* What the rows of one run satisfy, its jobs having the statuses s.
RunOK(run, s) ==
    /\ run.status = "absent" => \A i \in Stages : s[i] = "none"
    /\ run.status # "absent" => \A i \in Stages : s[i] = "none" <=> i > StageCount[run.type]
    /\ \A i, k \in Stages : k < i /\ s[i] \notin {"none", "blocked"} => s[k] = "completed"
    /\ run.status # "absent" =>
         LET mine == 1..StageCount[run.type]
         IN  /\ run.status = "completed" <=> \A i \in mine : s[i] = "completed"
             /\ run.status = "failed" <=> \E i \in mine : s[i] = "failed"
             /\ run.status = "pending" <=> s[1] \in {"pending", "leased"}
    /\ run.status \in {"pending", "running"} => \E i \in Stages : s[i] \in Live

\* The stages before i are completed, those after it have not begun.
UpTo(run, s, i) ==
    /\ i \in 1..StageCount[run.type]
    /\ \A k \in Stages : k < i => s[k] = "completed"
    /\ \A k \in Stages : k > i => s[k] = IF k <= StageCount[run.type] THEN "blocked" ELSE "none"

InProgress(run, s, i) ==
    /\ UpTo(run, s, i) /\ s[i] \in Live
    /\ run.status = IF i = 1 /\ s[i] # "running" THEN "pending" ELSE "running"

\* A job has been attempted at most once, and not before begin_job_attempt.
AttemptedOnce ==
    /\ \A r \in Runs, i \in Stages :
        /\ Len(attempts[r][i]) <= 1
        /\ jobs[r][i] \in {"none", "blocked", "pending", "leased"} => attempts[r][i] = <<>>
    /\ \A w \in Workers : workers[w].pc = "marked" =>
           attempts[workers[w].run][workers[w].stage] = <<>>

\* The index on active runs.
OneActiveRun ==
    \A q, r \in Runs : Active(q) /\ Active(r) /\ runs[q].type = runs[r].type => q = r

IInv ==
    /\ TypeOK
    /\ \A r \in Runs : RunOK(runs[r], jobs[r])
    /\ JobsHeldOnce /\ AttemptedOnce /\ OneActiveRun

-----------------------------------------------------------------------------
LEMMA StageCounts == StageCount[Seed] = 1 /\ StageCount[Ingestion] = 4
BY DEF StageCount, Seed, Ingestion

LEMMA AtStage ==
    ASSUME NEW run \in RunRows, NEW s, NEW i \in Stages, RunOK(run, s), s[i] \in Live,
           \A k \in Stages : s[k] \in JobStatuses \cup {"none"}
    PROVE  InProgress(run, s, i)
<1>1. run.type \in Types /\ run.status \in RunStatuses
  BY DEF RunRows
<1>2. StageCount[run.type] \in 1..4
  BY <1>1, StageCounts DEF Types
<1>3. i \in 1..StageCount[run.type]
  BY <1>1, <1>2 DEF RunOK, Live, RunStatuses, Stages
<1>4. \A k \in Stages : k < i => s[k] = "completed"
  BY DEF RunOK, Live
<1>5. \A k \in Stages : k > i => s[k] \in {"none", "blocked"}
  BY DEF RunOK, Live
<1>6. \A k \in Stages : s[k] = "none" <=> k > StageCount[run.type]
  BY <1>1 DEF RunOK, RunStatuses
<1>7. UpTo(run, s, i)
  BY <1>2, <1>3, <1>4, <1>5, <1>6 DEF UpTo, Stages
<1>8. run.status # "completed" /\ run.status # "failed"
  <2>1. \A k \in Stages : s[k] # "failed"
    BY <1>4, <1>5 DEF Live, Stages
  <2>2. s[i] # "completed"
    BY DEF Live
  <2> QED
    BY <1>1, <1>2, <1>3, <2>1, <2>2 DEF RunOK, RunStatuses, Stages
<1>9. run.status = "pending" <=> s[1] \in {"pending", "leased"}
  BY <1>1 DEF RunOK, RunStatuses
<1>10. s[1] \in {"pending", "leased"} <=> i = 1 /\ s[i] # "running"
  BY <1>4 DEF Live, Stages
<1> QED
  BY <1>1, <1>7, <1>8, <1>9, <1>10 DEF InProgress, RunStatuses

LEMMA InProgressOK ==
    ASSUME NEW run \in RunRows, NEW s, NEW i \in Stages, InProgress(run, s, i)
    PROVE  RunOK(run, s)
<1>1. StageCount[run.type] \in 1..4
  BY StageCounts DEF RunRows, Types
<1> QED
  BY <1>1 DEF InProgress, UpTo, RunOK, Live, Stages

LEMMA FailedOK ==
    ASSUME NEW run \in RunRows, NEW s, NEW i \in Stages,
           UpTo(run, s, i), s[i] = "failed", run.status = "failed"
    PROVE  RunOK(run, s)
<1>1. StageCount[run.type] \in 1..4
  BY StageCounts DEF RunRows, Types
<1> QED
  BY <1>1 DEF UpTo, RunOK, Live, Stages

LEMMA CompletedOK ==
    ASSUME NEW run \in RunRows, NEW s, run.status = "completed",
           \A k \in Stages : s[k] = IF k <= StageCount[run.type] THEN "completed" ELSE "none"
    PROVE  RunOK(run, s)
<1>1. StageCount[run.type] \in 1..4
  BY StageCounts DEF RunRows, Types
<1> QED
  BY <1>1 DEF RunOK, Live, Stages

-----------------------------------------------------------------------------
LEMMA RunTypes ==
    ASSUME TypeOK, NEW r \in Runs
    PROVE  /\ Exists(r) => runs[r] \in RunRows
           /\ ~Exists(r) => runs[r] = NoRun
           /\ \A k \in Stages : jobs[r][k] \in JobStatuses \cup {"none"}
           /\ jobs[r] \in [Stages -> JobStatuses \cup {"none"}]
<1>1. runs[r] \in RunRows \cup {NoRun}
  BY DEF TypeOK, RunRows, Types
<1>2. \A row \in RunRows : row.status # "absent"
  BY DEF RunRows, RunStatuses
<1> QED
  BY <1>1, <1>2 DEF TypeOK, Exists, NoRun

\* A job that is pending or taken is what its run is at.
LEMMA LiveJob ==
    ASSUME IInv, NEW r \in Runs, NEW i \in Stages, jobs[r][i] \in Live
    PROVE  runs[r] \in RunRows /\ Active(r) /\ InProgress(runs[r], jobs[r], i)
<1>1. RunOK(runs[r], jobs[r]) /\ TypeOK
  BY DEF IInv
<1>2. Exists(r)
  BY <1>1 DEF RunOK, Exists, Live
<1>3. runs[r] \in RunRows
  BY <1>1, <1>2, RunTypes
<1>4. InProgress(runs[r], jobs[r], i)
  BY <1>1, <1>3, AtStage, RunTypes
<1> QED
  BY <1>3, <1>4 DEF InProgress, Active

LEMMA HeldJob ==
    ASSUME IInv, NEW w \in Workers, NEW r \in Runs, NEW i \in Stages, NEW pc,
           pc \notin {"idle", "ended"}, workers[w] = At(pc, r, i)
    PROVE  /\ jobs[r][i] = IF pc = "claimed" THEN "leased" ELSE "running"
           /\ \A v \in Workers \ {w} : ~(workers[v].run = r /\ workers[v].stage = i)
           /\ pc = "marked" => attempts[r][i] = <<>>
           /\ runs[r] \in RunRows /\ Active(r) /\ InProgress(runs[r], jobs[r], i)
<1>1. workers[w].pc = pc /\ workers[w].run = r /\ workers[w].stage = i
  BY DEF At
<1>2. jobs[r][i] = IF pc = "claimed" THEN "leased" ELSE "running"
  BY <1>1 DEF JobsHeldOnce, IInv
<1>3. \A v \in Workers \ {w} : ~(workers[v].run = r /\ workers[v].stage = i)
  BY <1>1 DEF JobsHeldOnce, IInv
<1>4. pc = "marked" => attempts[r][i] = <<>>
  BY <1>1 DEF AttemptedOnce, IInv
<1> QED
  BY <1>2, <1>3, <1>4, LiveJob DEF Live

-----------------------------------------------------------------------------
\* The initial state, and where a worker goes.

LEMMA InitIInv == Init => IInv
<1> SUFFICES ASSUME Init PROVE IInv
  OBVIOUS
<1> USE DEF Init
<1>1. TypeOK
  <2>1. runs \in [Runs -> [type : {Seed, Ingestion}, status : RunStatuses] \cup {NoRun}]
    OBVIOUS
  <2>2. attempts \in [Runs -> [Stages -> Seq(Outcomes)]]
    OBVIOUS
  <2> QED
    BY <2>1, <2>2, JobsConstants DEF TypeOK
<1>2. \A r \in Runs : RunOK(runs[r], jobs[r]) /\ ~Active(r)
  BY DEF RunOK, NoRun, Active, Stages
<1>3. JobsHeldOnce /\ AttemptedOnce /\ OneActiveRun
  BY <1>2 DEF JobsHeldOnce, AttemptedOnce, OneActiveRun, Away
<1> QED
  BY <1>1, <1>2, <1>3 DEF IInv

LEMMA GoesElsewhere ==
    ASSUME TypeOK, NEW w \in Workers, NEW place, NEW heard \in BOOLEAN, GoesTo(w, place, heard)
    PROVE  /\ workers'[w] \in {place, Away("ended")}
           /\ \A v \in Workers \ {w} : workers'[v] = workers[v]
BY DEF TypeOK, GoesTo

WorkerPlaces ==
    {Away("idle"), Away("ended")} \cup
    [pc : Places \ {"idle", "ended"}, run : Runs, stage : Stages]

LEMMA GoesType ==
    ASSUME TypeOK, NEW w \in Workers, NEW place \in WorkerPlaces, NEW heard \in BOOLEAN,
           GoesTo(w, place, heard)
    PROVE  workers' \in [Workers -> WorkerPlaces] /\ faults' \in 0..MaxFaults
<1>1. workers \in [Workers -> WorkerPlaces]
  BY DEF TypeOK, WorkerPlaces
<1>2. (IF heard THEN place ELSE Away("ended")) \in WorkerPlaces
  BY DEF WorkerPlaces
<1>3. workers' \in [Workers -> WorkerPlaces]
  BY <1>1, <1>2 DEF GoesTo
<1> QED
  BY <1>3, JobsConstants DEF TypeOK, GoesTo

\* Who holds a job after a step of w: the others hold what they held.
LEMMA HoldersKept ==
    ASSUME IInv, NEW w \in Workers, NEW place \in WorkerPlaces, NEW heard \in BOOLEAN,
           GoesTo(w, place, heard),
           place # Away("idle") =>
              /\ place.pc \notin {"idle", "ended"}
              /\ jobs'[place.run][place.stage] = IF place.pc = "claimed" THEN "leased" ELSE "running"
              /\ \A v \in Workers \ {w} : ~(workers[v].run = place.run /\ workers[v].stage = place.stage),
           \A v \in Workers \ {w} : workers[v].pc \notin {"idle", "ended"} =>
              jobs'[workers[v].run][workers[v].stage] = jobs[workers[v].run][workers[v].stage]
    PROVE  JobsHeldOnce'
<1> SUFFICES ASSUME NEW x \in Workers, workers'[x].pc \notin {"idle", "ended"}
             PROVE  /\ jobs'[workers'[x].run][workers'[x].stage] =
                           IF workers'[x].pc = "claimed" THEN "leased" ELSE "running"
                    /\ \A v \in Workers \ {x} : ~(workers'[v].run = workers'[x].run
                                                  /\ workers'[v].stage = workers'[x].stage)
  BY DEF JobsHeldOnce
<1>0. TypeOK /\ JobsHeldOnce
  BY DEF IInv
<1>1. /\ workers'[w] \in {place, Away("ended")}
      /\ \A v \in Workers \ {w} : workers'[v] = workers[v]
  BY <1>0, GoesElsewhere
<1>2. CASE x = w
  <2>1. workers'[w] = place /\ place # Away("idle")
    BY <1>1, <1>2 DEF Away
  <2> QED
    BY <1>1, <1>2, <2>1
<1>3. CASE x # w
  <2>1. workers'[x] = workers[x]
    BY <1>1, <1>3
  <2>2. /\ jobs[workers[x].run][workers[x].stage] =
               IF workers[x].pc = "claimed" THEN "leased" ELSE "running"
        /\ \A v \in Workers \ {x} : ~(workers[v].run = workers[x].run
                                      /\ workers[v].stage = workers[x].stage)
    BY <1>0, <2>1 DEF JobsHeldOnce
  <2>3. workers[x] \in [pc : Places \ {"idle", "ended"}, run : Runs, stage : Stages]
    BY <1>0, <2>1 DEF TypeOK, Away
  <2>4. ~(workers'[w].run = workers[x].run /\ workers'[w].stage = workers[x].stage)
    <3>1. CASE workers'[w] = place /\ place # Away("idle")
      BY <3>1, <1>3
    <3>2. CASE workers'[w] \in {Away("idle"), Away("ended")}
      BY <3>2, <2>3 DEF Away, Stages
    <3> QED
      BY <1>1, <3>1, <3>2
  <2> QED
    BY <1>1, <1>3, <2>1, <2>2, <2>4
<1> QED
  BY <1>2, <1>3

LEMMA AttemptsKept ==
    ASSUME IInv, NEW w \in Workers, NEW place \in WorkerPlaces, NEW heard \in BOOLEAN,
           GoesTo(w, place, heard),
           place.pc = "marked" => attempts'[place.run][place.stage] = <<>>,
           \A q \in Runs, k \in Stages :
              /\ Len(attempts'[q][k]) <= 1
              /\ jobs'[q][k] \in {"none", "blocked", "pending", "leased"} => attempts'[q][k] = <<>>,
           \A v \in Workers \ {w} : workers[v].pc = "marked" =>
              attempts'[workers[v].run][workers[v].stage] = attempts[workers[v].run][workers[v].stage]
    PROVE  AttemptedOnce'
<1>1. /\ workers'[w] \in {place, Away("ended")}
      /\ \A v \in Workers \ {w} : workers'[v] = workers[v]
  BY GoesElsewhere DEF IInv
<1>2. ASSUME NEW x \in Workers, workers'[x].pc = "marked"
      PROVE  attempts'[workers'[x].run][workers'[x].stage] = <<>>
  <2>1. CASE x = w
    BY <1>1, <1>2, <2>1 DEF Away
  <2>2. CASE x # w
    BY <1>1, <1>2, <2>2 DEF IInv, AttemptedOnce
  <2> QED
    BY <2>1, <2>2
<1> QED
  BY <1>2 DEF AttemptedOnce

\* The runs a step may touch: finished ones stay, active ones keep their type and
\* are not joined by others.
RunsKept ==
    \A q \in Runs :
        /\ Finished(q) => runs'[q] = runs[q]
        /\ Active(q)' => Active(q) /\ runs'[q].type = runs[q].type

LEMMA OneActiveKept == IInv /\ RunsKept => OneActiveRun'
BY DEF IInv, RunsKept, OneActiveRun

-----------------------------------------------------------------------------
\* The steps of a worker.

LEMMA ClaimKeeps ==
    ASSUME IInv, NEW w \in Workers, NEW heard \in BOOLEAN, ClaimNextJob(w, heard)
    PROVE  IInv' /\ RunsKept
<1> PICK r \in Runs, i \in Stages :
        /\ jobs[r][i] = "pending"
        /\ jobs' = [jobs EXCEPT ![r][i] = "leased"]
        /\ GoesTo(w, At("claimed", r, i), heard)
        /\ UNCHANGED <<runs, attempts, batches, reply>>
  BY DEF ClaimNextJob, Claimable
<1>0. TypeOK
  BY DEF IInv
<1>1. At("claimed", r, i) \in WorkerPlaces
  BY DEF At, WorkerPlaces, Places
<1>2. /\ jobs'[r] = [jobs[r] EXCEPT ![i] = "leased"]
      /\ \A q \in Runs \ {r} : jobs'[q] = jobs[q]
      /\ jobs' \in [Runs -> [Stages -> JobStatuses \cup {"none"}]]
  BY <1>0 DEF TypeOK, JobStatuses
<1>3. TypeOK'
  BY <1>0, <1>1, <1>2, GoesType DEF TypeOK, WorkerPlaces
<1>4. runs[r] \in RunRows /\ InProgress(runs[r], jobs[r], i)
  BY LiveJob DEF Live
<1>5. InProgress(runs[r], jobs'[r], i)
  BY <1>0, <1>2, <1>4 DEF InProgress, UpTo, Live, TypeOK
<1>6. \A q \in Runs : RunOK(runs'[q], jobs'[q])
  BY <1>2, <1>4, <1>5, InProgressOK DEF IInv
<1>7. \A v \in Workers : workers[v].pc \notin {"idle", "ended"} =>
          ~(workers[v].run = r /\ workers[v].stage = i)
  BY DEF IInv, JobsHeldOnce
<1>8. JobsHeldOnce'
  <2>1. \A v \in Workers \ {w} : ~(workers[v].run = r /\ workers[v].stage = i)
    BY <1>0, <1>7 DEF TypeOK, Away, Stages
  <2>2. ASSUME NEW v \in Workers \ {w}, workers[v].pc \notin {"idle", "ended"}
        PROVE  jobs'[workers[v].run][workers[v].stage] = jobs[workers[v].run][workers[v].stage]
    <3>1. workers[v].run \in Runs /\ workers[v].stage \in Stages
      BY <1>0, <2>2 DEF TypeOK, Away
    <3> QED
      BY <1>0, <1>2, <2>1, <3>1 DEF TypeOK
  <2>3. jobs'[r][i] = "leased"
    BY <1>0, <1>2 DEF TypeOK
  <2> QED
    BY <1>1, <2>1, <2>2, <2>3, HoldersKept DEF At
<1>9. AttemptedOnce'
  <2>1. \A q \in Runs, k \in Stages :
            /\ Len(attempts'[q][k]) <= 1
            /\ jobs'[q][k] \in {"none", "blocked", "pending", "leased"} => attempts'[q][k] = <<>>
    BY <1>0, <1>2 DEF IInv, AttemptedOnce, TypeOK
  <2> QED
    BY <1>1, <2>1, AttemptsKept DEF At
<1>10. RunsKept
  BY DEF RunsKept, Active
<1> QED
  BY <1>3, <1>6, <1>8, <1>9, <1>10, OneActiveKept DEF IInv

\* The other holders hold other jobs, whose status a step on job i of r leaves.
LEMMA OthersUntouched ==
    ASSUME IInv, NEW w \in Workers, NEW r \in Runs, NEW i \in Stages, NEW v \in Workers \ {w},
           workers[v].pc \notin {"idle", "ended"},
           ~(workers[v].run = r /\ workers[v].stage = i),
           \A q \in Runs, k \in Stages :
              q # r \/ (k # i /\ jobs[q][k] # "blocked") => jobs'[q][k] = jobs[q][k]
    PROVE  jobs'[workers[v].run][workers[v].stage] = jobs[workers[v].run][workers[v].stage]
<1>1. workers[v].run \in Runs /\ workers[v].stage \in Stages
  BY DEF IInv, TypeOK, Away
<1>2. jobs[workers[v].run][workers[v].stage] # "blocked"
  BY DEF IInv, JobsHeldOnce
<1> QED
  BY <1>1, <1>2

LEMMA RunningKeeps ==
    ASSUME IInv, NEW w \in Workers, NEW heard \in BOOLEAN, MarkJobRunning(w, heard)
    PROVE  IInv' /\ RunsKept
<1> PICK r \in Runs, i \in Stages :
        /\ workers[w] = At("claimed", r, i)
        /\ jobs' = [jobs EXCEPT ![r][i] = "running"]
        /\ runs' = [runs EXCEPT ![r].status = "running"]
        /\ GoesTo(w, At("marked", r, i), heard)
        /\ UNCHANGED <<attempts, batches, reply>>
  BY DEF MarkJobRunning
<1>0. TypeOK
  BY DEF IInv
<1>1. At("marked", r, i) \in WorkerPlaces
  BY DEF At, WorkerPlaces, Places
<1>2. /\ jobs'[r] = [jobs[r] EXCEPT ![i] = "running"]
      /\ \A q \in Runs \ {r} : jobs'[q] = jobs[q]
      /\ jobs' \in [Runs -> [Stages -> JobStatuses \cup {"none"}]]
  BY <1>0 DEF TypeOK, JobStatuses
<1>3. /\ runs[r] \in RunRows /\ Active(r) /\ InProgress(runs[r], jobs[r], i)
      /\ jobs[r][i] = "leased"
      /\ \A v \in Workers \ {w} : ~(workers[v].run = r /\ workers[v].stage = i)
  BY HeldJob
<1>4. /\ runs'[r] = [runs[r] EXCEPT !.status = "running"]
      /\ \A q \in Runs \ {r} : runs'[q] = runs[q]
  BY <1>0 DEF TypeOK
<1>5. runs'[r] \in RunRows /\ runs'[r].type = runs[r].type /\ runs'[r].status = "running"
  BY <1>3, <1>4 DEF RunRows, RunStatuses
<1>6. TypeOK'
  <2>1. runs' \in [Runs -> [type : {Seed, Ingestion}, status : RunStatuses] \cup {NoRun}]
    BY <1>0, <1>4, <1>5 DEF TypeOK, RunRows, Types
  <2> QED
    BY <1>0, <1>1, <1>2, <2>1, GoesType, SMTT(30) DEF TypeOK, WorkerPlaces
<1>7. InProgress(runs'[r], jobs'[r], i)
  BY <1>0, <1>2, <1>3, <1>5 DEF InProgress, UpTo, Live, TypeOK
<1>8. \A q \in Runs : RunOK(runs'[q], jobs'[q])
  BY <1>2, <1>4, <1>5, <1>7, InProgressOK DEF IInv
<1>9. \A q \in Runs, k \in Stages : q # r \/ k # i => jobs'[q][k] = jobs[q][k]
  BY <1>0, <1>2 DEF TypeOK
<1>10. jobs'[r][i] = "running"
  BY <1>0, <1>2 DEF TypeOK
<1>11. JobsHeldOnce'
  <2>1. \A v \in Workers \ {w} : workers[v].pc \notin {"idle", "ended"} =>
            jobs'[workers[v].run][workers[v].stage] = jobs[workers[v].run][workers[v].stage]
    BY <1>3, <1>9, OthersUntouched
  <2> QED
    BY <1>1, <1>3, <1>10, <2>1, HoldersKept DEF At
<1>12. AttemptedOnce'
  <2>1. attempts[r][i] = <<>>
    BY <1>3 DEF IInv, AttemptedOnce
  <2>2. \A q \in Runs, k \in Stages :
            /\ Len(attempts'[q][k]) <= 1
            /\ jobs'[q][k] \in {"none", "blocked", "pending", "leased"} => attempts'[q][k] = <<>>
    BY <1>9, <1>10 DEF IInv, AttemptedOnce
  <2> QED
    BY <1>1, <2>1, <2>2, AttemptsKept DEF At
<1>13. RunsKept
  BY <1>3, <1>4, <1>5 DEF RunsKept, Active, Finished
<1> QED
  BY <1>6, <1>8, <1>11, <1>12, <1>13, OneActiveKept DEF IInv

LEMMA AttemptKeeps ==
    ASSUME IInv, NEW w \in Workers, NEW heard \in BOOLEAN, BeginJobAttempt(w, heard)
    PROVE  IInv' /\ RunsKept
<1> PICK r \in Runs, i \in Stages :
        /\ workers[w] = At("marked", r, i)
        /\ attempts' = [attempts EXCEPT ![r][i] = Append(@, "running")]
        /\ GoesTo(w, At("working", r, i), heard)
        /\ UNCHANGED <<runs, jobs, batches, reply>>
  BY DEF BeginJobAttempt
<1>0. TypeOK
  BY DEF IInv
<1>1. At("working", r, i) \in WorkerPlaces
  BY DEF At, WorkerPlaces, Places
<1>2. /\ jobs[r][i] = "running" /\ attempts[r][i] = <<>>
      /\ \A v \in Workers \ {w} : ~(workers[v].run = r /\ workers[v].stage = i)
  BY HeldJob
<1>3. /\ attempts'[r][i] = <<"running">>
      /\ \A q \in Runs, k \in Stages : q # r \/ k # i => attempts'[q][k] = attempts[q][k]
  BY <1>0, <1>2 DEF TypeOK
<1>4. TypeOK'
  <2>1. <<"running">> \in Seq(Outcomes)
    BY DEF Outcomes
  <2>2. attempts' = [attempts EXCEPT ![r][i] = <<"running">>]
    BY <1>0, <1>2 DEF TypeOK
  <2>3. attempts' \in [Runs -> [Stages -> Seq(Outcomes)]]
    BY <1>0, <2>1, <2>2 DEF TypeOK
  <2> QED
    <3>1. workers' \in [Workers -> WorkerPlaces] /\ faults' \in 0..MaxFaults
      BY <1>0, <1>1, GoesType
    <3> QED
      BY <1>0, <2>3, <3>1 DEF TypeOK, WorkerPlaces
<1>5. JobsHeldOnce'
  BY <1>1, <1>2, HoldersKept DEF At
<1>6. AttemptedOnce'
  <2>1. Len(attempts'[r][i]) = 1
    BY <1>3
  <2>2. \A q \in Runs, k \in Stages :
            /\ Len(attempts'[q][k]) <= 1
            /\ jobs'[q][k] \in {"none", "blocked", "pending", "leased"} => attempts'[q][k] = <<>>
    BY <1>2, <1>3, <2>1 DEF IInv, AttemptedOnce
  <2>3. ASSUME NEW v \in Workers \ {w}, workers[v].pc = "marked"
        PROVE  attempts'[workers[v].run][workers[v].stage] =
                   attempts[workers[v].run][workers[v].stage]
    <3>1. workers[v].pc \notin {"idle", "ended"}
      BY <2>3
    <3>2. workers[v].run \in Runs /\ workers[v].stage \in Stages
      BY <1>0, <3>1 DEF TypeOK, Away
    <3> QED
      BY <1>2, <1>3, <3>2
  <2> QED
    BY <1>1, <2>2, <2>3, AttemptsKept DEF At
<1>7. RunsKept
  BY DEF RunsKept, Active
<1> QED
  BY <1>4, <1>5, <1>6, <1>7, OneActiveKept DEF IInv

LEMMA WorkerOnlyKeeps ==
    ASSUME IInv, NEW w \in Workers, NEW place \in WorkerPlaces, NEW heard \in BOOLEAN,
           GoesTo(w, place, heard), UNCHANGED <<runs, jobs, attempts, batches, reply>>,
           \/ place = Away("idle")
           \/ \E pc \in {"succeeded", "failing"}, r \in Runs, i \in Stages :
                  workers[w] = At("working", r, i) /\ place = At(pc, r, i)
    PROVE  IInv' /\ RunsKept
<1>0. TypeOK
  BY DEF IInv
<1>1. TypeOK'
  <2>1. workers' \in [Workers -> WorkerPlaces] /\ faults' \in 0..MaxFaults
    BY <1>0, GoesType
  <2> QED
    BY <1>0, <2>1 DEF TypeOK, WorkerPlaces
<1>2. place # Away("idle") =>
          /\ place.pc \notin {"idle", "ended", "claimed", "marked"}
          /\ jobs[place.run][place.stage] = "running"
          /\ \A v \in Workers \ {w} : ~(workers[v].run = place.run /\ workers[v].stage = place.stage)
  <2> SUFFICES ASSUME NEW pc \in {"succeeded", "failing"}, NEW r \in Runs, NEW i \in Stages,
                      workers[w] = At("working", r, i), place = At(pc, r, i)
               PROVE  /\ place.pc \notin {"idle", "ended", "claimed", "marked"}
                      /\ jobs[place.run][place.stage] = "running"
                      /\ \A v \in Workers \ {w} : ~(workers[v].run = place.run
                                                    /\ workers[v].stage = place.stage)
    OBVIOUS
  <2>1. place.pc = pc /\ place.run = r /\ place.stage = i
    BY DEF At
  <2>2. /\ jobs[r][i] = "running"
        /\ \A v \in Workers \ {w} : ~(workers[v].run = r /\ workers[v].stage = i)
    BY HeldJob
  <2> QED
    BY <2>1, <2>2
<1>3. JobsHeldOnce'
  BY <1>2, HoldersKept
<1>4. AttemptedOnce'
  <2>1. place.pc # "marked"
    BY <1>2 DEF Away
  <2>2. \A q \in Runs, k \in Stages :
            /\ Len(attempts'[q][k]) <= 1
            /\ jobs'[q][k] \in {"none", "blocked", "pending", "leased"} => attempts'[q][k] = <<>>
    BY DEF IInv, AttemptedOnce
  <2> QED
    BY <2>1, <2>2, AttemptsKept
<1>5. RunsKept
  BY DEF RunsKept, Active
<1> QED
  BY <1>1, <1>3, <1>4, <1>5, OneActiveKept DEF IInv

LEMMA ClosingLength ==
    ASSUME TypeOK, NEW r \in Runs, NEW i \in Stages, NEW outcome \in Outcomes
    PROVE  /\ Closing(attempts[r][i], outcome) \in Seq(Outcomes)
           /\ Len(Closing(attempts[r][i], outcome)) = Len(attempts[r][i])
<1>1. attempts[r][i] \in Seq(Outcomes)
  BY DEF TypeOK
<1>2. DOMAIN attempts[r][i] = 1..Len(attempts[r][i]) /\ Len(attempts[r][i]) \in Nat
  BY <1>1
<1>3. \A n \in 1..Len(attempts[r][i]) : attempts[r][i][n] \in Outcomes
  BY <1>1
<1>4. Closing(attempts[r][i], outcome) \in [1..Len(attempts[r][i]) -> Outcomes]
  BY <1>2, <1>3 DEF Closing
<1> QED
  BY <1>1, <1>2, <1>4

\* What the two ends of a job have in common: its attempt is closed, and nobody is
\* left with it.
LEMMA EndingKeeps ==
    ASSUME IInv, NEW w \in Workers, NEW r \in Runs, NEW i \in Stages, NEW pc, NEW heard \in BOOLEAN,
           NEW outcome \in Outcomes, pc \in {"succeeded", "failing"},
           workers[w] = At(pc, r, i), GoesTo(w, Away("idle"), heard),
           attempts' = [attempts EXCEPT ![r][i] = Closing(@, outcome)],
           jobs'[r][i] \in {"failed", "completed"},
           \A q \in Runs, k \in Stages : q # r \/ (k # i /\ jobs[q][k] # "blocked") =>
              jobs'[q][k] = jobs[q][k]
    PROVE  /\ attempts' \in [Runs -> [Stages -> Seq(Outcomes)]]
           /\ JobsHeldOnce' /\ AttemptedOnce'
<1>0. TypeOK
  BY DEF IInv
<1>1. Away("idle") \in WorkerPlaces
  BY DEF WorkerPlaces
<1>2. \A v \in Workers \ {w} : ~(workers[v].run = r /\ workers[v].stage = i)
  BY HeldJob
<1>3. /\ attempts'[r][i] = Closing(attempts[r][i], outcome)
      /\ \A q \in Runs, k \in Stages : q # r \/ k # i => attempts'[q][k] = attempts[q][k]
  BY <1>0 DEF TypeOK
<1>4. attempts' \in [Runs -> [Stages -> Seq(Outcomes)]]
  BY <1>0, ClosingLength DEF TypeOK
<1>5. JobsHeldOnce'
  <2>1. \A v \in Workers \ {w} : workers[v].pc \notin {"idle", "ended"} =>
            jobs'[workers[v].run][workers[v].stage] = jobs[workers[v].run][workers[v].stage]
    BY <1>2, OthersUntouched
  <2> QED
    BY <1>1, <2>1, HoldersKept
<1>6. AttemptedOnce'
  <2>1. Len(attempts'[r][i]) <= 1
    BY <1>0, <1>3, ClosingLength DEF IInv, AttemptedOnce
  <2>2. ASSUME NEW q \in Runs, NEW k \in Stages, q # r \/ k # i
        PROVE  /\ Len(attempts'[q][k]) <= 1
               /\ jobs'[q][k] \in {"none", "blocked", "pending", "leased"} => attempts'[q][k] = <<>>
    <3>1. attempts'[q][k] = attempts[q][k] /\ Len(attempts[q][k]) <= 1
      BY <1>3, <2>2 DEF IInv, AttemptedOnce
    <3>2. jobs'[q][k] = jobs[q][k] \/ jobs[q][k] = "blocked"
      BY <2>2
    <3> QED
      BY <3>1, <3>2 DEF IInv, AttemptedOnce
  <2>3. ASSUME NEW v \in Workers \ {w}, workers[v].pc = "marked"
        PROVE  attempts'[workers[v].run][workers[v].stage] =
                   attempts[workers[v].run][workers[v].stage]
    <3>1. workers[v].pc \notin {"idle", "ended"}
      BY <2>3
    <3>2. workers[v].run \in Runs /\ workers[v].stage \in Stages
      BY <1>0, <3>1 DEF TypeOK, Away
    <3> QED
      BY <1>2, <1>3, <3>2
  <2>4. Away("idle").pc # "marked"
    BY DEF Away
  <2>5. \A q \in Runs, k \in Stages :
            /\ Len(attempts'[q][k]) <= 1
            /\ jobs'[q][k] \in {"none", "blocked", "pending", "leased"} => attempts'[q][k] = <<>>
    BY <2>1, <2>2
  <2> QED
    BY <1>1, <2>3, <2>4, <2>5, AttemptsKept
<1> QED
  BY <1>4, <1>5, <1>6

LEMMA FailedKeeps ==
    ASSUME IInv, NEW w \in Workers, NEW heard \in BOOLEAN, MarkJobFailed(w, heard)
    PROVE  IInv' /\ RunsKept
<1> PICK r \in Runs, i \in Stages :
        /\ workers[w] = At("failing", r, i)
        /\ jobs' = [jobs EXCEPT ![r][i] = "failed"]
        /\ attempts' = [attempts EXCEPT ![r][i] = Closing(@, "failed")]
        /\ runs' = [runs EXCEPT ![r].status = "failed"]
        /\ GoesTo(w, Away("idle"), heard)
        /\ UNCHANGED <<batches, reply>>
  BY DEF MarkJobFailed
<1>0. TypeOK
  BY DEF IInv
<1>1. /\ jobs'[r] = [jobs[r] EXCEPT ![i] = "failed"]
      /\ \A q \in Runs \ {r} : jobs'[q] = jobs[q]
      /\ jobs' \in [Runs -> [Stages -> JobStatuses \cup {"none"}]]
  BY <1>0 DEF TypeOK, JobStatuses
<1>2. /\ jobs'[r][i] = "failed"
      /\ \A q \in Runs, k \in Stages : q # r \/ k # i => jobs'[q][k] = jobs[q][k]
  BY <1>0, <1>1 DEF TypeOK
<1>3. runs[r] \in RunRows /\ Active(r) /\ InProgress(runs[r], jobs[r], i)
  BY HeldJob
<1>4. /\ runs'[r] = [runs[r] EXCEPT !.status = "failed"]
      /\ \A q \in Runs \ {r} : runs'[q] = runs[q]
  BY <1>0 DEF TypeOK
<1>5. runs'[r] \in RunRows /\ runs'[r].type = runs[r].type /\ runs'[r].status = "failed"
  BY <1>3, <1>4 DEF RunRows, RunStatuses
<1>6. UpTo(runs'[r], jobs'[r], i)
  BY <1>2, <1>3, <1>5 DEF InProgress, UpTo
<1>7. \A q \in Runs : RunOK(runs'[q], jobs'[q])
  <2>1. RunOK(runs'[r], jobs'[r])
    BY <1>2, <1>5, <1>6, FailedOK
  <2> QED
    BY <1>1, <1>4, <2>1 DEF IInv
<1>8. /\ attempts' \in [Runs -> [Stages -> Seq(Outcomes)]]
      /\ JobsHeldOnce' /\ AttemptedOnce'
  BY <1>2, EndingKeeps, ZenonT(30) DEF Outcomes
<1>9. TypeOK'
  <2>1. workers' \in [Workers -> WorkerPlaces] /\ faults' \in 0..MaxFaults
    BY <1>0, GoesType DEF WorkerPlaces
  <2>2. runs' \in [Runs -> [type : {Seed, Ingestion}, status : RunStatuses] \cup {NoRun}]
    BY <1>0, <1>4, <1>5 DEF TypeOK, RunRows, Types
  <2> QED
    BY <1>0, <1>1, <1>8, <2>1, <2>2 DEF TypeOK, WorkerPlaces
<1>10. RunsKept
  BY <1>3, <1>4, <1>5 DEF RunsKept, Active, Finished
<1> QED
  BY <1>7, <1>8, <1>9, <1>10, OneActiveKept DEF IInv

LEMMA CompletedKeeps ==
    ASSUME IInv, NEW w \in Workers, NEW heard \in BOOLEAN, MarkJobCompleted(w, heard)
    PROVE  IInv' /\ RunsKept
<1> PICK r \in Runs, i \in Stages :
        /\ workers[w] = At("succeeded", r, i)
        /\ jobs' = [jobs EXCEPT ![r] = StagesAfter(jobs[r], i)]
        /\ attempts' = [attempts EXCEPT ![r][i] = Closing(@, "completed")]
        /\ runs' = [runs EXCEPT ![r] = CompletedIfAll(@, jobs'[r])]
        /\ GoesTo(w, Away("idle"), heard)
        /\ UNCHANGED <<batches, reply>>
  BY DEF MarkJobCompleted
<1>0. TypeOK
  BY DEF IInv
<1>1. /\ jobs'[r] = StagesAfter(jobs[r], i)
      /\ \A q \in Runs \ {r} : jobs'[q] = jobs[q]
      /\ runs'[r] = CompletedIfAll(runs[r], jobs'[r])
      /\ \A q \in Runs \ {r} : runs'[q] = runs[q]
  BY <1>0 DEF TypeOK
<1>2. /\ jobs'[r][i] = "completed"
      /\ \A k \in Stages : k # i /\ ~(k = i + 1 /\ jobs[r][k] = "blocked") => jobs'[r][k] = jobs[r][k]
      /\ i + 1 \in Stages /\ jobs[r][i + 1] = "blocked" => jobs'[r][i + 1] = "pending"
      /\ jobs'[r] \in [Stages -> JobStatuses \cup {"none"}]
  BY <1>0, <1>1, RunTypes DEF StagesAfter, JobStatuses, Stages
<1>3. runs[r] \in RunRows /\ Active(r) /\ InProgress(runs[r], jobs[r], i) /\ jobs[r][i] = "running"
  BY HeldJob
<1> DEFINE n == StageCount[runs[r].type]
<1>4. n \in 1..4 /\ i \in 1..n /\ runs[r].status = "running"
  BY <1>3, StageCounts DEF RunRows, Types, InProgress, UpTo
<1>5. ASSUME i = n
      PROVE  RunOK(runs'[r], jobs'[r]) /\ runs'[r] \in RunRows /\ runs'[r].type = runs[r].type
  <2>1. \A k \in Stages : jobs'[r][k] = IF k <= n THEN "completed" ELSE "none"
    BY <1>2, <1>3, <1>4, <1>5 DEF InProgress, UpTo, Stages
  <2>2. \A k \in 1..n : jobs'[r][k] = "completed"
    BY <1>4, <2>1 DEF Stages
  <2>3. runs'[r] = [runs[r] EXCEPT !.status = "completed"]
    BY <1>1, <2>2 DEF CompletedIfAll
  <2>4. runs'[r] \in RunRows /\ runs'[r].type = runs[r].type /\ runs'[r].status = "completed"
    BY <1>3, <2>3 DEF RunRows, RunStatuses
  <2>5. RunOK(runs'[r], jobs'[r])
    BY <2>1, <2>4, CompletedOK
  <2> QED
    BY <2>4, <2>5
<1>6. ASSUME i < n
      PROVE  RunOK(runs'[r], jobs'[r]) /\ runs'[r] \in RunRows /\ runs'[r].type = runs[r].type
  <2>1. i + 1 \in 1..n /\ i + 1 \in Stages
    BY <1>4, <1>6 DEF Stages
  <2>2. jobs[r][i + 1] = "blocked"
    BY <1>3, <1>4, <2>1 DEF InProgress, UpTo
  <2>3. jobs'[r][i + 1] = "pending"
    BY <1>2, <2>1, <2>2
  <2>4. runs'[r] = runs[r]
    BY <1>1, <2>1, <2>3 DEF CompletedIfAll
  <2>5. UpTo(runs'[r], jobs'[r], i + 1)
    BY <1>2, <1>3, <1>4, <2>1, <2>4 DEF InProgress, UpTo, Stages
  <2>6. InProgress(runs'[r], jobs'[r], i + 1)
    BY <1>4, <2>1, <2>3, <2>4, <2>5 DEF InProgress, Live
  <2>7. RunOK(runs'[r], jobs'[r])
    BY <1>3, <2>1, <2>4, <2>6, InProgressOK
  <2> QED
    BY <1>3, <2>4, <2>7
<1>7. RunOK(runs'[r], jobs'[r]) /\ runs'[r] \in RunRows /\ runs'[r].type = runs[r].type
  BY <1>4, <1>5, <1>6
<1>8. \A q \in Runs : RunOK(runs'[q], jobs'[q])
  BY <1>1, <1>7 DEF IInv
<1>9. /\ attempts' \in [Runs -> [Stages -> Seq(Outcomes)]]
      /\ JobsHeldOnce' /\ AttemptedOnce'
  <2>1. \A q \in Runs, k \in Stages : q # r \/ (k # i /\ jobs[q][k] # "blocked") =>
            jobs'[q][k] = jobs[q][k]
    BY <1>1, <1>2
  <2>2. "completed" \in Outcomes /\ jobs'[r][i] \in {"failed", "completed"}
    BY <1>2 DEF Outcomes
  <2> QED
    BY <2>1, <2>2, EndingKeeps
<1>10. TypeOK'
  <2>1. workers' \in [Workers -> WorkerPlaces] /\ faults' \in 0..MaxFaults
    BY <1>0, GoesType DEF WorkerPlaces
  <2>2. runs' \in [Runs -> [type : {Seed, Ingestion}, status : RunStatuses] \cup {NoRun}]
    BY <1>0, <1>1, <1>7 DEF TypeOK, RunRows, Types
  <2>3. jobs' \in [Runs -> [Stages -> JobStatuses \cup {"none"}]]
    BY <1>0, <1>1, <1>2 DEF TypeOK
  <2> QED
    BY <1>0, <1>9, <2>1, <2>2, <2>3 DEF TypeOK, WorkerPlaces
<1>11. RunsKept
  BY <1>1, <1>3, <1>7 DEF RunsKept, Active, Finished
<1> QED
  BY <1>8, <1>9, <1>10, <1>11, OneActiveKept DEF IInv

-----------------------------------------------------------------------------
\* The API.

LEMMA CreateKeeps ==
    ASSUME IInv, NEW r \in Runs, NEW type \in Types, CreateRun(r, type), ~ActiveOf(type),
           UNCHANGED <<attempts, workers, faults>>,
           batches' \subseteq Batches,
           reply' \in [batch : Batches \cup {"none"}, code : {"none", "created", "conflict", "error"}]
    PROVE  IInv' /\ \A q \in Runs : Finished(q) => runs'[q] = runs[q]
<1>0. TypeOK
  BY DEF IInv
<1>1. /\ runs[r] = NoRun
      /\ \A i \in Stages : jobs[r][i] = "none"
  BY <1>0, RunTypes DEF CreateRun, IInv, RunOK, NoRun
<1>2. /\ runs'[r] = [type |-> type, status |-> "pending"]
      /\ \A q \in Runs \ {r} : runs'[q] = runs[q]
      /\ jobs'[r] = [i \in Stages |-> FirstStatus(type, i)]
      /\ \A q \in Runs \ {r} : jobs'[q] = jobs[q]
  BY <1>0 DEF CreateRun, TypeOK
<1>3. runs'[r] \in RunRows /\ runs'[r].type = type /\ runs'[r].status = "pending"
  BY <1>2 DEF RunRows, RunStatuses
<1>4. \A i \in Stages : jobs'[r][i] = FirstStatus(type, i)
  BY <1>2
<1>5. UpTo(runs'[r], jobs'[r], 1) /\ jobs'[r][1] = "pending"
  BY <1>3, <1>4, StageCounts DEF UpTo, FirstStatus, Stages, Types
<1>6. InProgress(runs'[r], jobs'[r], 1)
  BY <1>3, <1>5 DEF InProgress, Live
<1>7. \A q \in Runs : RunOK(runs'[q], jobs'[q])
  <2>1. RunOK(runs'[r], jobs'[r])
    BY <1>3, <1>6, InProgressOK DEF Stages
  <2> QED
    BY <1>2, <2>1 DEF IInv
<1>8. TypeOK'
  <2>1. jobs'[r] \in [Stages -> JobStatuses \cup {"none"}]
    BY <1>2 DEF FirstStatus, JobStatuses
  <2>2. jobs' \in [Runs -> [Stages -> JobStatuses \cup {"none"}]]
    BY <1>0, <2>1 DEF TypeOK, CreateRun
  <2>3. runs' \in [Runs -> [type : {Seed, Ingestion}, status : RunStatuses] \cup {NoRun}]
    BY <1>0, <1>2, <1>3 DEF TypeOK, RunRows, Types, CreateRun
  <2> QED
    BY <1>0, <2>2, <2>3 DEF TypeOK
<1>9. ASSUME NEW v \in Workers, workers[v].pc \notin {"idle", "ended"}
      PROVE  workers[v].run \in Runs \ {r} /\ workers[v].stage \in Stages
  <2>1. workers[v].run \in Runs /\ workers[v].stage \in Stages
    BY <1>0, <1>9 DEF TypeOK, Away
  <2>2. jobs[workers[v].run][workers[v].stage] \in Live
    BY <1>9 DEF IInv, JobsHeldOnce, Live
  <2> QED
    BY <1>1, <2>1, <2>2 DEF Live
<1>10. JobsHeldOnce'
  BY <1>2, <1>9 DEF IInv, JobsHeldOnce
<1>11. AttemptedOnce'
  BY <1>1, <1>2 DEF IInv, AttemptedOnce
<1>12. OneActiveRun'
  BY <1>2, <1>3 DEF IInv, OneActiveRun, Active, ActiveOf
<1>13. \A q \in Runs : Finished(q) => runs'[q] = runs[q]
  BY <1>1, <1>2 DEF Finished, NoRun
<1> QED
  BY <1>7, <1>8, <1>10, <1>11, <1>12, <1>13 DEF IInv

LEMMA RefusedKeeps ==
    ASSUME IInv, UNCHANGED <<runs, jobs, attempts, workers, faults, batches>>,
           reply' \in [batch : Batches \cup {"none"}, code : {"none", "created", "conflict", "error"}]
    PROVE  IInv' /\ \A q \in Runs : Finished(q) => runs'[q] = runs[q]
BY DEF IInv, TypeOK, JobsHeldOnce, AttemptedOnce, OneActiveRun, Active

FinishedKept == \A q \in Runs : Finished(q) => runs'[q] = runs[q]

LEMMA WorkerKeeps ==
    ASSUME IInv, NEW w \in Workers, WorkerStep(w) \/ Fault(w) \/ Restart(w)
    PROVE  IInv' /\ FinishedKept
<1>1. ASSUME NEW heard \in BOOLEAN, DatabaseStep(w, heard) PROVE IInv' /\ RunsKept
  BY <1>1, ClaimKeeps, RunningKeeps, AttemptKeeps, CompletedKeeps, FailedKeeps DEF DatabaseStep
<1>2. ASSUME NEW place \in {"succeeded", "failing"}, RunStage(w, place) PROVE IInv' /\ RunsKept
  <2> PICK r \in Runs, i \in Stages :
          /\ workers[w] = At("working", r, i)
          /\ workers' = [workers EXCEPT ![w] = At(place, r, i)]
          /\ UNCHANGED <<runs, jobs, attempts, batches, faults, reply>>
    BY <1>2 DEF RunStage
  <2>1. GoesTo(w, At(place, r, i), TRUE) /\ At(place, r, i) \in WorkerPlaces
    BY DEF GoesTo, At, WorkerPlaces, Places
  <2> QED
    BY <2>1, WorkerOnlyKeeps
<1>3. ASSUME WorkerLost(w) \/ Restart(w) PROVE IInv' /\ RunsKept
  <2>1. Away("idle") \in WorkerPlaces
    BY DEF WorkerPlaces
  <2>2. CASE WorkerLost(w)
    BY <2>1, <2>2, WorkerOnlyKeeps DEF WorkerLost
  <2>3. CASE Restart(w)
    <3>1. GoesTo(w, Away("idle"), TRUE) /\ UNCHANGED <<runs, jobs, attempts, batches, reply>>
      BY <2>3 DEF Restart, GoesTo
    <3> QED
      BY <2>1, <3>1, WorkerOnlyKeeps
  <2> QED
    BY <1>3, <2>2, <2>3
<1>4. ASSUME Poll(w) PROVE IInv' /\ FinishedKept
  BY <1>4, RefusedKeeps DEF Poll, vars, IInv, TypeOK, FinishedKept
<1> QED
  BY <1>1, <1>2, <1>3, <1>4 DEF WorkerStep, Fault, RunsKept, FinishedKept

LEMMA NextIInv == IInv /\ [Next]_vars => IInv' /\ FinishedKept
<1> SUFFICES ASSUME IInv, [Next]_vars PROVE IInv' /\ FinishedKept
  OBVIOUS
<1> DEFINE Replies == [batch : Batches \cup {"none"}, code : {"none", "created", "conflict", "error"}]
<1>0. batches \subseteq Batches /\ reply \in Replies
  BY DEF IInv, TypeOK
<1>1. CASE StartSeedProjection
  <2>1. reply' \in Replies /\ batches' \subseteq Batches
    BY <1>0, <1>1 DEF StartSeedProjection
  <2>2. Seed \in Types
    BY DEF Types
  <2>3. CASE ~ActiveOf(Seed) /\ \E r \in Runs : CreateRun(r, Seed)
    BY <1>1, <2>1, <2>2, <2>3, CreateKeeps DEF StartSeedProjection, FinishedKept
  <2>4. CASE UNCHANGED <<runs, jobs>>
    BY <1>1, <2>1, <2>4, RefusedKeeps DEF StartSeedProjection, FinishedKept
  <2> QED
    BY <1>1, <2>3, <2>4 DEF StartSeedProjection
<1>2. ASSUME NEW b \in Batches, StartSourceIngestion(b) PROVE IInv' /\ FinishedKept
  <2>1. reply' \in Replies /\ batches' \subseteq Batches
    BY <1>0, <1>2 DEF StartSourceIngestion
  <2>2. Ingestion \in Types
    BY DEF Types
  <2>3. CASE ~ActiveOf(Ingestion) /\ \E r \in Runs : CreateRun(r, Ingestion)
    BY <1>2, <2>1, <2>2, <2>3, CreateKeeps DEF StartSourceIngestion, FinishedKept
  <2>4. CASE UNCHANGED <<runs, jobs, batches>>
    BY <1>2, <2>1, <2>4, RefusedKeeps DEF StartSourceIngestion, FinishedKept
  <2> QED
    BY <1>2, <2>3, <2>4 DEF StartSourceIngestion
<1>3. CASE UNCHANGED vars
  BY <1>0, <1>3, RefusedKeeps DEF vars, FinishedKept
<1> QED
  BY <1>1, <1>2, <1>3, WorkerKeeps DEF Next

-----------------------------------------------------------------------------
\* The inductive invariant holds: what is reachable is a set of runs each at one
\* stage, with at most one worker at it.
THEOREM Invariance == Spec => []IInv
<1>1. IInv /\ [Next]_vars => IInv'
  BY NextIInv
<1> QED
  BY InitIInv, <1>1, PTL DEF Spec

\* The rows of the queue and the places of the workers are of their types.
THEOREM TypeCorrect == Spec => []TypeOK
<1>1. IInv => TypeOK
  BY DEF IInv
<1> QED
  BY <1>1, Invariance, PTL

\* Stages begin in order, and the status of a run is that of its jobs.
THEOREM RunsFollowStages == Spec => [](StagesInOrder /\ RunFollowsJobs)
<1>1. IInv => StagesInOrder /\ RunFollowsJobs
  BY DEF IInv, RunOK, StagesInOrder, RunFollowsJobs, Exists
<1> QED
  BY <1>1, Invariance, PTL

\* An active run has a job that is pending or taken.
THEOREM ActiveRunsHaveLiveJobs == Spec => []ActiveRunHasLiveJob
<1>1. IInv => ActiveRunHasLiveJob
  BY DEF IInv, RunOK, ActiveRunHasLiveJob, Active, Live
<1> QED
  BY <1>1, Invariance, PTL

\* No two workers are at one job, and no stage runs twice.
THEOREM StagesRunOnce == Spec => [](JobsHeldOnce /\ StageRunsOnce)
<1>1. IInv => JobsHeldOnce /\ StageRunsOnce
  BY DEF IInv, AttemptedOnce, StageRunsOnce
<1> QED
  BY <1>1, Invariance, PTL

\* The index on active runs never fails a statement of a worker.
THEOREM IndexNeverHit == Spec => []IndexSparesWorker
<1>1. ASSUME IInv PROVE IndexSparesWorker
  <2> SUFFICES ASSUME NEW w \in Workers, workers[w].pc \in {"claimed", "marked"}
               PROVE  LET r == workers[w].run
                      IN  /\ Active(r)
                          /\ \A q \in Runs \ {r} : ~(Active(q) /\ runs[q].type = runs[r].type)
    BY DEF IndexSparesWorker
  <2>1. workers[w] \in [pc : Places \ {"idle", "ended"}, run : Runs, stage : Stages]
    BY <1>1 DEF IInv, TypeOK, Away
  <2>2. workers[w] = At(workers[w].pc, workers[w].run, workers[w].stage)
    BY <2>1 DEF At
  <2>3. workers[w].run \in Runs /\ workers[w].stage \in Stages /\ workers[w].pc \notin {"idle", "ended"}
    BY <2>1
  <2>4. Active(workers[w].run)
    BY <1>1, <2>2, <2>3, HeldJob
  <2> QED
    BY <1>1, <2>3, <2>4 DEF IInv, OneActiveRun
<1> QED
  BY <1>1, Invariance, PTL

\* A finished run is never touched again.
THEOREM FinishedRunsStay == Spec => FinishedStaysFinished
<1>1. IInv /\ [Next]_vars => [\A r \in Runs : Finished(r) => runs'[r] = runs[r]]_vars
  BY NextIInv DEF FinishedKept
<1> QED
  BY <1>1, Invariance, PTL DEF Spec, FinishedStaysFinished

\* A fresh batch is refused for one reason only, the CHECK of ops.jobs.status: with
\* 'blocked' among the statuses it admits, CreateSourceIngestionRun creates the run.
THEOREM OnlyTheCheckRefuses == "blocked" \in JobStatusCheck => (Spec => FreshBatchIsAccepted)
<1> SUFFICES ASSUME "blocked" \in JobStatusCheck
             PROVE  Spec => FreshBatchIsAccepted
  OBVIOUS
<1> DEFINE Accepted(b) ==
               reply' # reply /\ reply'.batch = b /\ ~ActiveOf(Ingestion) => reply'.code = "created"
<1>1. JobsInsertable(Ingestion)
  BY JobsConstants DEF JobsInsertable, FirstStatus
<1>2. [Next]_vars => [\A b \in Batches \ batches : Accepted(b)]_vars
  <2> SUFFICES ASSUME Next, NEW b \in Batches \ batches
               PROVE  Accepted(b)
    OBVIOUS
  <2>1. CASE StartSeedProjection
    BY <2>1, JobsConstants DEF StartSeedProjection
  <2>2. ASSUME NEW c \in Batches, StartSourceIngestion(c)
        PROVE  Accepted(b)
    BY <1>1, <2>2 DEF StartSourceIngestion
  <2>3. ASSUME NEW w \in Workers, WorkerStep(w) \/ Fault(w) \/ Restart(w)
        PROVE  reply' = reply
    <3>1. ASSUME NEW heard, DatabaseStep(w, heard)
          PROVE  reply' = reply
      <4>1. CASE ClaimNextJob(w, heard)
        BY <4>1 DEF ClaimNextJob
      <4>2. CASE MarkJobRunning(w, heard)
        BY <4>2 DEF MarkJobRunning
      <4>3. CASE BeginJobAttempt(w, heard)
        BY <4>3 DEF BeginJobAttempt
      <4>4. CASE MarkJobCompleted(w, heard)
        BY <4>4 DEF MarkJobCompleted
      <4>5. CASE MarkJobFailed(w, heard)
        BY <4>5 DEF MarkJobFailed
      <4> QED
        BY <3>1, <4>1, <4>2, <4>3, <4>4, <4>5 DEF DatabaseStep
    <3>2. ASSUME NEW place, RunStage(w, place)
          PROVE  reply' = reply
      BY <3>2 DEF RunStage
    <3>3. CASE Poll(w)
      BY <3>3 DEF Poll, vars
    <3>4. CASE WorkerLost(w)
      BY <3>4 DEF WorkerLost
    <3>5. CASE Restart(w)
      BY <3>5 DEF Restart
    <3> QED
      BY <2>3, <3>1, <3>2, <3>3, <3>4, <3>5 DEF WorkerStep, Fault
  <2> QED
    BY <2>1, <2>2, <2>3 DEF Next
<1> QED
  BY <1>2, PTL DEF Spec, FreshBatchIsAccepted

-----------------------------------------------------------------------------
\* The refinement of RunProgress.

StagesOf(r) == IF Exists(r) THEN StageCount[runs[r].type] ELSE 0
DoneOf(r) == {i \in Stages : jobs[r][i] = "completed"}
Phases == [r \in Runs |-> runs[r].status]
Totals == [r \in Runs |-> StagesOf(r)]
Dones == [r \in Runs |-> DoneOf(r)]

\* One step seen from RunProgress.
AbstractStep(r) ==
    \/ \E n \in 1..4 :
         /\ Phases[r] = "absent" /\ Phases' = [Phases EXCEPT ![r] = "pending"]
         /\ Totals' = [Totals EXCEPT ![r] = n] /\ Dones' = Dones
    \/ /\ Phases[r] = "pending" /\ Phases' = [Phases EXCEPT ![r] = "running"]
       /\ UNCHANGED <<Totals, Dones>>
    \/ \E k \in 1..4 :
         /\ Phases[r] = "running" /\ k <= Totals[r]
         /\ Dones[r] = 1..(k - 1) /\ Dones' = [Dones EXCEPT ![r] = 1..k]
         /\ Phases' = IF k = Totals[r] THEN [Phases EXCEPT ![r] = "completed"] ELSE Phases
         /\ Totals' = Totals
    \/ /\ Phases[r] = "running" /\ Phases' = [Phases EXCEPT ![r] = "failed"]
       /\ UNCHANGED <<Totals, Dones>>

Stutter == UNCHANGED <<Phases, Totals, Dones>>

\* A step that sets the status of one run.
LEMMA PhaseStep ==
    ASSUME NEW r \in Runs, NEW status, runs'[r].status = status,
           \A q \in Runs \ {r} : runs'[q] = runs[q]
    PROVE  Phases' = [Phases EXCEPT ![r] = status]
<1>1. \A q \in Runs : runs'[q].status = IF q = r THEN status ELSE runs[q].status
  OBVIOUS
<1>2. Phases' = [q \in Runs |-> IF q = r THEN status ELSE runs[q].status]
  BY <1>1, Zenon DEF Phases
<1>3. [Phases EXCEPT ![r] = status] = [q \in Runs |-> IF q = r THEN status ELSE runs[q].status]
  BY DEF Phases
<1> QED
  BY <1>2, <1>3

\* A step that leaves the types of runs and the completed jobs alone.
LEMMA QuietStep ==
    ASSUME \A q \in Runs : Exists(q)' = Exists(q) /\ runs'[q].type = runs[q].type,
           \A q \in Runs, k \in Stages : jobs'[q][k] = "completed" <=> jobs[q][k] = "completed"
    PROVE  UNCHANGED <<Totals, Dones>>
BY DEF Totals, Dones, StagesOf, DoneOf

LEMMA CreateStep ==
    ASSUME IInv, NEW r \in Runs, NEW type \in Types, CreateRun(r, type)
    PROVE  AbstractStep(r)
<1>0. TypeOK
  BY DEF IInv
<1>1. ~Exists(r) /\ \A i \in Stages : jobs[r][i] = "none"
  BY <1>0, RunTypes DEF CreateRun, IInv, RunOK, NoRun, Exists
<1>2. /\ runs'[r] = [type |-> type, status |-> "pending"]
      /\ \A q \in Runs \ {r} : runs'[q] = runs[q]
      /\ jobs'[r] = [i \in Stages |-> FirstStatus(type, i)]
      /\ \A q \in Runs \ {r} : jobs'[q] = jobs[q]
  BY <1>0 DEF CreateRun, TypeOK
<1>3. StageCount[type] \in 1..4
  BY StageCounts DEF Types
<1>4. Phases[r] = "absent" /\ Phases' = [Phases EXCEPT ![r] = "pending"]
  BY <1>1, <1>2, PhaseStep DEF Phases, Exists
<1>5. Totals' = [Totals EXCEPT ![r] = StageCount[type]]
  <2>1. StagesOf(r)' = StageCount[type]
    BY <1>2 DEF StagesOf, Exists
  <2>2. \A q \in Runs \ {r} : StagesOf(q)' = StagesOf(q)
    BY <1>2 DEF StagesOf, Exists
  <2> QED
    BY <2>1, <2>2 DEF Totals
<1>6. Dones' = Dones
  <2>1. \A i \in Stages : jobs'[r][i] # "completed" /\ jobs[r][i] # "completed"
    BY <1>1, <1>2 DEF FirstStatus
  <2> QED
    BY <1>2, <2>1 DEF Dones, DoneOf
<1> QED
  BY <1>3, <1>4, <1>5, <1>6 DEF AbstractStep

LEMMA ClaimStep ==
    ASSUME IInv, NEW w \in Workers, NEW heard \in BOOLEAN, ClaimNextJob(w, heard)
    PROVE  Stutter
<1> PICK r \in Runs, i \in Stages :
        jobs[r][i] = "pending" /\ jobs' = [jobs EXCEPT ![r][i] = "leased"] /\ runs' = runs
  BY DEF ClaimNextJob, Claimable
<1>1. \A q \in Runs, k \in Stages : jobs'[q][k] = "completed" <=> jobs[q][k] = "completed"
  BY DEF IInv, TypeOK
<1>2. UNCHANGED <<Totals, Dones>>
  BY <1>1, QuietStep DEF Exists
<1> QED
  BY <1>2 DEF Stutter, Phases

LEMMA RunningStep ==
    ASSUME IInv, NEW w \in Workers, NEW heard \in BOOLEAN, MarkJobRunning(w, heard)
    PROVE  Stutter \/ \E r \in Runs : AbstractStep(r)
<1> PICK r \in Runs, i \in Stages :
        /\ workers[w] = At("claimed", r, i)
        /\ jobs' = [jobs EXCEPT ![r][i] = "running"]
        /\ runs' = [runs EXCEPT ![r].status = "running"]
  BY DEF MarkJobRunning
<1>1. jobs[r][i] = "leased" /\ runs[r] \in RunRows /\ runs[r].status \in {"pending", "running"}
  BY HeldJob DEF Active
<1>2. \A q \in Runs, k \in Stages : jobs'[q][k] = "completed" <=> jobs[q][k] = "completed"
  BY <1>1 DEF IInv, TypeOK
<1>3. /\ runs'[r] = [runs[r] EXCEPT !.status = "running"]
      /\ \A q \in Runs \ {r} : runs'[q] = runs[q]
  BY DEF IInv, TypeOK
<1>4. runs'[r].status = "running" /\ runs'[r].type = runs[r].type
  BY <1>1, <1>3 DEF RunRows
<1>5. UNCHANGED <<Totals, Dones>>
  BY <1>1, <1>2, <1>3, <1>4, QuietStep DEF Exists
<1>6. Phases' = [Phases EXCEPT ![r] = "running"] /\ Phases[r] \in {"pending", "running"}
  BY <1>1, <1>3, <1>4, PhaseStep DEF Phases
<1>7. CASE Phases[r] = "pending"
  BY <1>5, <1>6, <1>7 DEF AbstractStep
<1>8. CASE Phases[r] = "running"
  <2>1. Phases' = Phases
    BY <1>6, <1>8 DEF Phases
  <2> QED
    BY <1>5, <2>1 DEF Stutter
<1> QED
  BY <1>6, <1>7, <1>8

LEMMA FailedStep ==
    ASSUME IInv, NEW w \in Workers, NEW heard \in BOOLEAN, MarkJobFailed(w, heard)
    PROVE  \E r \in Runs : AbstractStep(r)
<1> PICK r \in Runs, i \in Stages :
        /\ workers[w] = At("failing", r, i)
        /\ jobs' = [jobs EXCEPT ![r][i] = "failed"]
        /\ runs' = [runs EXCEPT ![r].status = "failed"]
  BY DEF MarkJobFailed
<1>1. jobs[r][i] = "running" /\ runs[r] \in RunRows /\ runs[r].status = "running"
  BY HeldJob DEF InProgress
<1>2. \A q \in Runs, k \in Stages : jobs'[q][k] = "completed" <=> jobs[q][k] = "completed"
  BY <1>1 DEF IInv, TypeOK
<1>3. /\ runs'[r] = [runs[r] EXCEPT !.status = "failed"]
      /\ \A q \in Runs \ {r} : runs'[q] = runs[q]
  BY DEF IInv, TypeOK
<1>4. runs'[r].status = "failed" /\ runs'[r].type = runs[r].type
  BY <1>1, <1>3 DEF RunRows
<1>5. UNCHANGED <<Totals, Dones>>
  BY <1>1, <1>2, <1>3, <1>4, QuietStep DEF Exists
<1>6. Phases' = [Phases EXCEPT ![r] = "failed"] /\ Phases[r] = "running"
  BY <1>1, <1>3, <1>4, PhaseStep DEF Phases
<1> QED
  BY <1>5, <1>6 DEF AbstractStep

LEMMA CompletedStep ==
    ASSUME IInv, NEW w \in Workers, NEW heard \in BOOLEAN, MarkJobCompleted(w, heard)
    PROVE  \E r \in Runs : AbstractStep(r)
<1> PICK r \in Runs, i \in Stages :
        /\ workers[w] = At("succeeded", r, i)
        /\ jobs' = [jobs EXCEPT ![r] = StagesAfter(jobs[r], i)]
        /\ runs' = [runs EXCEPT ![r] = CompletedIfAll(@, jobs'[r])]
  BY DEF MarkJobCompleted
<1>0. TypeOK
  BY DEF IInv
<1>1. /\ jobs'[r] = StagesAfter(jobs[r], i)
      /\ \A q \in Runs \ {r} : jobs'[q] = jobs[q]
      /\ runs'[r] = CompletedIfAll(runs[r], jobs'[r])
      /\ \A q \in Runs \ {r} : runs'[q] = runs[q]
  BY <1>0 DEF TypeOK
<1>2. \A k \in Stages : jobs'[r][k] = "completed" <=> k = i \/ jobs[r][k] = "completed"
  BY <1>1 DEF StagesAfter, Stages
<1>3. /\ runs[r] \in RunRows /\ jobs[r][i] = "running" /\ InProgress(runs[r], jobs[r], i)
      /\ runs[r].status = "running"
  BY HeldJob DEF InProgress
<1> DEFINE n == StageCount[runs[r].type]
<1>4. n \in 1..4 /\ i \in 1..n
  BY <1>3, StageCounts DEF RunRows, Types, InProgress, UpTo
<1>5. \A k \in Stages : jobs[r][k] = "completed" <=> k < i
  BY <1>3, <1>4 DEF InProgress, UpTo, Stages
<1>6. DoneOf(r) = 1..(i - 1)
  BY <1>4, <1>5 DEF DoneOf, Stages
<1>7. DoneOf(r)' = 1..i
  BY <1>2, <1>4, <1>5 DEF DoneOf, Stages
<1>8. (\A k \in 1..n : jobs'[r][k] = "completed") <=> i = n
  BY <1>2, <1>4, <1>5 DEF Stages
<1>9. /\ runs'[r].type = runs[r].type
      /\ runs'[r].status = IF i = n THEN "completed" ELSE "running"
  <2>1. CASE i = n
    <3>1. runs'[r] = [runs[r] EXCEPT !.status = "completed"]
      BY <1>1, <1>8, <2>1 DEF CompletedIfAll
    <3> QED
      BY <1>3, <2>1, <3>1 DEF RunRows
  <2>2. CASE i # n
    <3>1. runs'[r] = runs[r]
      BY <1>1, <1>8, <2>2 DEF CompletedIfAll
    <3> QED
      BY <1>3, <2>2, <3>1
  <2> QED
    BY <2>1, <2>2
<1>10. \A q \in Runs : StagesOf(q)' = StagesOf(q)
  BY <1>1, <1>3, <1>9 DEF StagesOf, Exists
<1>11. StagesOf(r) = n
  BY <1>3 DEF StagesOf, Exists
<1>12. Totals' = Totals /\ Totals[r] = n
  BY <1>10, <1>11 DEF Totals
<1>13. Dones[r] = 1..(i - 1) /\ Dones' = [Dones EXCEPT ![r] = 1..i]
  <2>1. \A q \in Runs \ {r} : DoneOf(q)' = DoneOf(q)
    BY <1>1 DEF DoneOf
  <2> QED
    BY <1>6, <1>7, <2>1 DEF Dones
<1>14. Phases[r] = "running"
  BY <1>3 DEF Phases
<1>15. Phases' = IF i = n THEN [Phases EXCEPT ![r] = "completed"] ELSE Phases
  BY <1>1, <1>3, <1>9 DEF Phases
<1>16. i \in 1..4 /\ i <= n
  BY <1>4
<1> QED
  BY <1>12, <1>13, <1>14, <1>15, <1>16 DEF AbstractStep

LEMMA ProgressInit == Init => Progress!Init
<1>1. \A r \in Runs, i \in Stages : Init => jobs[r][i] # "completed"
  BY DEF Init
<1>2. Init => /\ [r \in Runs |-> IF Exists(r) THEN StageCount[runs[r].type] ELSE 0] = [r \in Runs |-> 0]
              /\ [r \in Runs |-> runs[r].status] = [r \in Runs |-> "absent"]
  BY DEF Init, Exists, NoRun
<1>3. Init => [r \in Runs |-> {i \in Stages : jobs[r][i] = "completed"}] = [r \in Runs |-> {}]
  <2>1. Init => \A r \in Runs : {i \in Stages : jobs[r][i] = "completed"} = {}
    BY <1>1
  <2> QED
    BY <2>1
<1> QED
  BY <1>2, <1>3 DEF Progress!Init

\* AbstractStep is a step of RunProgress.
LEMMA AbstractNext == ASSUME NEW r \in Runs, AbstractStep(r) PROVE Progress!Next
<1>1. CASE \E n \in 1..4 :
             /\ Phases[r] = "absent" /\ Phases' = [Phases EXCEPT ![r] = "pending"]
             /\ Totals' = [Totals EXCEPT ![r] = n] /\ Dones' = Dones
  <2>1. \E n \in 1..4 : Progress!Create(r, n)
    BY <1>1 DEF Progress!Create, Phases, Totals, Dones, StagesOf, DoneOf
  <2> QED
    BY <2>1 DEF Progress!Next
<1>2. CASE /\ Phases[r] = "pending" /\ Phases' = [Phases EXCEPT ![r] = "running"]
           /\ UNCHANGED <<Totals, Dones>>
  <2>1. Progress!Begin(r)
    BY <1>2 DEF Progress!Begin, Phases, Totals, Dones, StagesOf, DoneOf
  <2> QED
    BY <2>1 DEF Progress!Next
<1>3. CASE \E k \in 1..4 :
             /\ Phases[r] = "running" /\ k <= Totals[r]
             /\ Dones[r] = 1..(k - 1) /\ Dones' = [Dones EXCEPT ![r] = 1..k]
             /\ Phases' = IF k = Totals[r] THEN [Phases EXCEPT ![r] = "completed"] ELSE Phases
             /\ Totals' = Totals
  <2>1. \E k \in 1..4 : Progress!Advance(r, k)
    BY <1>3 DEF Progress!Advance, Phases, Totals, Dones, StagesOf, DoneOf
  <2> QED
    BY <2>1 DEF Progress!Next
<1>4. CASE /\ Phases[r] = "running" /\ Phases' = [Phases EXCEPT ![r] = "failed"]
           /\ UNCHANGED <<Totals, Dones>>
  <2>1. Progress!Fail(r)
    BY <1>4 DEF Progress!Fail, Phases, Totals, Dones, StagesOf, DoneOf
  <2> QED
    BY <2>1 DEF Progress!Next
<1> QED
  BY <1>1, <1>2, <1>3, <1>4 DEF AbstractStep

LEMMA ProgressStep == IInv /\ [Next]_vars => [Progress!Next]_(Progress!progressVars)
<1> SUFFICES ASSUME IInv, [Next]_vars PROVE Stutter \/ \E r \in Runs : AbstractStep(r)
  <2>1. Stutter => UNCHANGED Progress!progressVars
    BY DEF Stutter, Progress!progressVars, Phases, Totals, Dones, StagesOf, DoneOf
  <2> QED
    BY <2>1, AbstractNext
<1>1. UNCHANGED <<runs, jobs>> => Stutter
  BY DEF Stutter, Phases, Totals, Dones, StagesOf, DoneOf, Exists
<1>2. ASSUME NEW type \in Types, \E r \in Runs : CreateRun(r, type)
      PROVE  \E r \in Runs : AbstractStep(r)
  BY <1>2, CreateStep
<1>3. CASE StartSeedProjection
  BY <1>1, <1>2, <1>3 DEF StartSeedProjection, Types
<1>4. ASSUME NEW b \in Batches, StartSourceIngestion(b)
      PROVE  Stutter \/ \E r \in Runs : AbstractStep(r)
  BY <1>1, <1>2, <1>4 DEF StartSourceIngestion, Types
<1>5. ASSUME NEW w \in Workers, NEW heard \in BOOLEAN, DatabaseStep(w, heard)
      PROVE  Stutter \/ \E r \in Runs : AbstractStep(r)
  <2>1. BeginJobAttempt(w, heard) => UNCHANGED <<runs, jobs>>
    BY DEF BeginJobAttempt
  <2> QED
    BY <1>1, <1>5, <2>1, ClaimStep, RunningStep, FailedStep, CompletedStep DEF DatabaseStep
<1>6. ASSUME NEW w \in Workers, WorkerStep(w) \/ Fault(w) \/ Restart(w)
      PROVE  Stutter \/ \E r \in Runs : AbstractStep(r)
  <2>1. WorkerLost(w) \/ Restart(w) \/ Poll(w) => UNCHANGED <<runs, jobs>>
    BY DEF WorkerLost, Restart, Poll, vars
  <2>2. ASSUME NEW place, RunStage(w, place) PROVE UNCHANGED <<runs, jobs>>
    BY <2>2 DEF RunStage
  <2> QED
    BY <1>1, <1>5, <1>6, <2>1, <2>2 DEF WorkerStep, Fault
<1>7. CASE UNCHANGED vars
  BY <1>1, <1>7 DEF vars
<1> QED
  BY <1>3, <1>4, <1>6, <1>7 DEF Next

\* The job queue does with its runs what RunProgress says: stages in order, each
\* once, completion with the last one, and nothing after the end.
THEOREM ImplementsProgress == Spec => ProgressSpec
<1> QED
  BY ProgressInit, ProgressStep, Invariance, PTL DEF Spec, ProgressSpec, Progress!Spec
=============================================================================
