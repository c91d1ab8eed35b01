-------------------------- MODULE IngestionProofs --------------------------
(***************************************************************************)
(* An ingestion run, for any files, read in any order, and cut short       *)
(* anywhere:                                                               *)
(*   - what a stage writes does not matter to how far its run is, so the   *)
(*     run implements RunProgress;                                         *)
(*   - normalization accounts for every raw record;                        *)
(*   - a materialization is a script that upserts each fact and then links *)
(*     it, so links are justified and facts have sources, but for those    *)
(*     that a batch cut short still owes;                                  *)
(*   - the search model agrees with core once a batch is refreshed.        *)
(***************************************************************************)
EXTENDS Ingestion, FiniteSetTheorems, FunctionTheorems, SequenceTheorems, TLAPS

Statuses == {"absent", "pending", "running", "failed", "completed"}

\* A stage under way is the next one of a running run, and a run that is over or
\* has not begun is where such a run is.
WorkerFollowsProgress ==
    /\ progress \in [Batches -> [status : Statuses, done : 0..4]]
    /\ \A b \in Batches :
           /\ Status(b) \in {"absent", "pending"} => progress[b].done = 0
           /\ Status(b) = "running" => progress[b].done < 4
    /\ worker # Idle =>
           /\ worker = [batch |-> worker.batch, stage |-> worker.stage, todo |-> worker.todo]
           /\ worker.batch \in Batches
           /\ Status(worker.batch) = "running"
           /\ worker.stage \in 1..4
           /\ worker.stage = progress[worker.batch].done + 1

\* A step within a stage: the worker goes on, and no run is touched.
WithinStage ==
    /\ progress' = progress
    /\ \E stage \in 1..4 : At(stage)
    /\ GoOn

LEMMA StepsWithinStages ==
    ASSUME InsertRawRecord \/ NormalizeRecord \/ Materialize \/ Refresh
    PROVE  WithinStage
<1>1. CASE InsertRawRecord
  BY <1>1 DEF InsertRawRecord, WithinStage
<1>2. CASE NormalizeRecord
  BY <1>2 DEF NormalizeRecord, WithinStage
<1>3. CASE Materialize
  <2>1. At(3) /\ GoOn /\ progress' = progress
    BY <1>3 DEF Materialize
  <2> QED
    BY <2>1 DEF WithinStage
<1>4. CASE Refresh
  BY <1>4 DEF Refresh, WithinStage
<1> QED
  BY <1>1, <1>2, <1>3, <1>4

\* What taking up a stage does to the worker and the runs, whatever it reads.
LEMMA StageTakenUp ==
    ASSUME NEW b \in Batches, BeginStage(b)
    PROVE  /\ worker = Idle /\ Active(b)
           /\ progress' = [progress EXCEPT ![b].status = "running"]
           /\ \E todo : worker' = [batch |-> b, stage |-> progress[b].done + 1, todo |-> todo]
BY DEF BeginStage

\* The invariant the refinement rests on (worker::run takes one stage at a time).
THEOREM WorkerFollows == Spec => []WorkerFollowsProgress
<1>1. Init => WorkerFollowsProgress
  BY DEF Init, WorkerFollowsProgress, Statuses, Status, Idle
<1>2. WorkerFollowsProgress /\ [Next]_vars => WorkerFollowsProgress'
  <2> SUFFICES ASSUME WorkerFollowsProgress, [Next]_vars
               PROVE  WorkerFollowsProgress'
    OBVIOUS
  <2> USE DEF WorkerFollowsProgress, Statuses, Status, Idle
  <2>1. ASSUME NEW b \in Batches, Submit(b)
        PROVE  WorkerFollowsProgress'
    BY <2>1 DEF Submit
  <2>2. ASSUME NEW b \in Batches, BeginStage(b)
        PROVE  WorkerFollowsProgress'
    <3>1. PICK todo : worker' = [batch |-> b, stage |-> progress[b].done + 1, todo |-> todo]
      BY <2>2, StageTakenUp
    <3>2. progress[b].done \in 0..3
      BY <2>2, StageTakenUp DEF Active
    <3> QED
      BY <2>2, <3>1, <3>2, StageTakenUp
  <2>3. CASE WithinStage
    <3>1. worker.stage # 0
      BY <2>3 DEF WithinStage, At
    <3>2. worker # Idle
      BY <3>1
    <3>3. worker = [batch |-> worker.batch, stage |-> worker.stage, todo |-> worker.todo]
      BY <3>2
    <3> DEFINE rest == Tail(worker.todo)
    <3>4. worker' = [worker EXCEPT !.todo = rest]
      BY <2>3 DEF WithinStage, GoOn
    <3> HIDE DEF rest
    <3>5. worker' = [batch |-> worker.batch, stage |-> worker.stage, todo |-> rest]
      BY <3>3, <3>4
    <3> QED
      BY <2>3, <3>2, <3>5 DEF WithinStage
  <2>4. CASE EndStage
    BY <2>4 DEF EndStage
  <2>5. CASE FailStage
    BY <2>5 DEF FailStage
  <2>6. CASE UNCHANGED vars
    BY <2>6 DEF vars
  <2> QED
    BY <2>1, <2>2, <2>3, <2>4, <2>5, <2>6, StepsWithinStages DEF Next
<1> QED
  BY <1>1, <1>2, PTL DEF Spec

\* An ingestion run goes through its four stages one after another, each once, and
\* is left as it is once it failed or completed (worker::run, mark_job_completed,
\* mark_job_failed), whatever the stages read and write.
THEOREM ImplementsProgress == Spec => ProgressSpec
<1>1. Init => Progress!Init
  BY DEF Init, Progress!Init, Status
<1>2. WorkerFollowsProgress /\ [Next]_vars => [Progress!Next]_Progress!progressVars
  <2> SUFFICES ASSUME WorkerFollowsProgress, [Next]_vars
               PROVE  [Progress!Next]_Progress!progressVars
    OBVIOUS
  <2> USE DEF WorkerFollowsProgress, Statuses, Status
  <2>1. ASSUME NEW b \in Batches, Submit(b)
        PROVE  Progress!Next
    <3>1. Progress!Create(b, 4)
      BY <2>1 DEF Submit, Progress!Create
    <3> QED
      BY <3>1 DEF Progress!Next
  <2>2. ASSUME NEW b \in Batches, BeginStage(b)
        PROVE  [Progress!Next]_Progress!progressVars
    <3>1. CASE progress[b].status = "pending"
      <4>1. progress' = [progress EXCEPT ![b].status = "running"]
        BY <2>2, StageTakenUp
      <4>2. \A c \in Batches : /\ progress'[c].done = progress[c].done
                              /\ progress'[c].status =
                                   IF c = b THEN "running" ELSE progress[c].status
        BY <4>1
      <4>3. Progress!Begin(b)
        BY <3>1, <4>2 DEF Progress!Begin
      <4> QED
        BY <4>3 DEF Progress!Next
    <3>2. CASE progress[b].status = "running"
      <4>1. progress' = progress
        BY <2>2, <3>2, StageTakenUp
      <4> QED
        BY <4>1 DEF Progress!progressVars
    <3> QED
      BY <2>2, <3>1, <3>2, StageTakenUp DEF Active
  <2>3. CASE EndStage
    <3>1. PICK b \in Batches, k \in 1..4 :
              /\ b = worker.batch /\ k = worker.stage
              /\ progress[b].status = "running" /\ progress[b].done = k - 1
      BY <2>3 DEF EndStage
    <3>2. progress' = [progress EXCEPT ![b] =
                        [status |-> IF k = 4 THEN "completed" ELSE "running", done |-> k]]
      BY <2>3, <3>1 DEF EndStage
    <3>3. \A c \in Batches :
              /\ progress'[c].done = IF c = b THEN k ELSE progress[c].done
              /\ progress'[c].status =
                   IF c = b THEN (IF k = 4 THEN "completed" ELSE "running")
                   ELSE progress[c].status
      BY <3>1, <3>2
    <3>4. [c \in Batches |-> 1..progress'[c].done]
            = [[c \in Batches |-> 1..progress[c].done] EXCEPT ![b] = 1..k]
      BY <3>1, <3>3
    <3>5. [c \in Batches |-> progress'[c].status]
            = IF k = 4 THEN [[c \in Batches |-> progress[c].status] EXCEPT ![b] = "completed"]
              ELSE [c \in Batches |-> progress[c].status]
      BY <3>1, <3>3
    <3>6. [c \in Batches |-> IF progress'[c].status = "absent" THEN 0 ELSE 4]
            = [c \in Batches |-> IF progress[c].status = "absent" THEN 0 ELSE 4]
      BY <3>1, <3>3
    <3>7. Progress!Advance(b, k)
      BY <3>1, <3>4, <3>5, <3>6 DEF Progress!Advance
    <3> QED
      BY <3>1, <3>7 DEF Progress!Next
  <2>4. CASE FailStage
    <3>1. PICK b \in Batches : b = worker.batch /\ progress[b].status = "running"
      BY <2>4 DEF FailStage
    <3>2. progress' = [progress EXCEPT ![b].status = "failed"]
      BY <2>4, <3>1 DEF FailStage
    <3>3. \A c \in Batches : /\ progress'[c].done = progress[c].done
                            /\ progress'[c].status =
                                 IF c = b THEN "failed" ELSE progress[c].status
      BY <3>1, <3>2
    <3>4. Progress!Fail(b)
      BY <3>1, <3>3 DEF Progress!Fail
    <3> QED
      BY <3>1, <3>4 DEF Progress!Next
  <2>5. CASE progress' = progress
    BY <2>5 DEF Progress!progressVars
  <2> QED
    BY <2>1, <2>2, <2>3, <2>4, <2>5, StepsWithinStages DEF Next, vars, WithinStage
<1> QED
  BY <1>1, <1>2, WorkerFollows, PTL DEF Spec, ProgressSpec, Progress!Spec

-----------------------------------------------------------------------------
\* An order of a finite set leaves none of its elements out and adds none.
LEMMA OrdersCover ==
    ASSUME NEW S, IsFiniteSet(S), NEW s \in Orders(S)
    PROVE  s \in Seq(S) /\ ToSet(s) = S
<1> DEFINE n == Cardinality(S)
<1>1. n \in Nat
  BY FS_CardinalityType
<1>2. /\ s \in [1..n -> S]
      /\ \A i, j \in 1..n : i # j => s[i] # s[j]
  BY DEF Orders, SetToSeqs
<1>3. IsFiniteSet(1..n) /\ Cardinality(1..n) = n
  BY <1>1, FS_Interval
<1>4. s \in Injection(1..n, S)
  BY <1>2, Fun_IsInj
<1>5. s \in Surjection(1..n, S)
  BY <1>3, <1>4, FS_Injection
<1>6. \A x \in S : \E i \in 1..n : s[i] = x
  BY <1>5 DEF Surjection
<1>7. s \in Seq(S) /\ DOMAIN s = 1..n
  BY <1>1, <1>2
<1> QED
  BY <1>2, <1>6, <1>7 DEF ToSet

\* The head and the tail of a sequence are all there is in it.
LEMMA HeadAndTail ==
    ASSUME NEW S, NEW s \in Seq(S), s # <<>>
    PROVE  Tail(s) \in Seq(S) /\ Head(s) \in S /\ ToSet(s) = {Head(s)} \cup ToSet(Tail(s))
<1>1. /\ Head(s) \in S /\ Tail(s) \in Seq(S) /\ Len(Tail(s)) = Len(s) - 1
      /\ \A i \in 1..Len(Tail(s)) : Tail(s)[i] = s[i + 1]
  BY HeadTailProperties
<1>2. /\ Len(s) \in Nat \ {0} /\ Head(s) = s[1]
      /\ DOMAIN s = 1..Len(s) /\ DOMAIN Tail(s) = 1..Len(Tail(s))
  BY <1>1
<1> DEFINE t == Tail(s)
<1> HIDE DEF t
<1>3. /\ DOMAIN t = 1..(Len(s) - 1) /\ \A i \in 1..(Len(s) - 1) : t[i] = s[i + 1]
  BY <1>1, <1>2 DEF t
<1>4. ASSUME NEW i \in 1..Len(s)
      PROVE  s[i] = s[1] \/ \E j \in DOMAIN t : s[i] = t[j]
  <2>1. CASE i = 1
    BY <2>1
  <2>2. CASE i # 1
    <3>1. i - 1 \in 1..(Len(s) - 1) /\ (i - 1) + 1 = i
      BY <1>2, <2>2
    <3> QED
      BY <1>3, <3>1
  <2> QED
    BY <2>1, <2>2
<1>5. ASSUME NEW j \in DOMAIN t
      PROVE  \E i \in 1..Len(s) : t[j] = s[i]
  BY <1>2, <1>3
<1>6. 1 \in 1..Len(s)
  BY <1>2
<1>7. ToSet(s) = {s[1]} \cup ToSet(t)
  BY <1>2, <1>4, <1>5, <1>6, SMTT(30) DEF ToSet
<1> QED
  BY <1>1, <1>2, <1>7 DEF t

\* What is staged and quarantined, if the records handled are these.
Accounts(stagedRows, quarantinedKeys, handled) ==
    /\ stagedRows = {Normalized(r) : r \in {q \in handled : Normalizes(q)}}
    /\ quarantinedKeys = {r.key : r \in {q \in handled : ~Normalizes(q)}}

KeysUnique(records) == \A q, r \in records : q.key = r.key => q = r

\* Of the raw records of a batch, those handled are accounted for, and the others
\* are left to do.
NoneMissing(records, todo, stagedRows, quarantinedKeys) ==
    /\ todo \in Seq(records)
    /\ \E handled \in SUBSET records :
           /\ Accounts(stagedRows, quarantinedKeys, handled)
           /\ records = handled \cup ToSet(todo)

Normalizing(b) == worker.batch = b /\ worker.stage = 2

BatchAccounted(b) ==
    /\ IsFiniteSet(raw[b]) /\ KeysUnique(raw[b])
    /\ progress[b].done = 0 => Accounts(staged[b], quarantined[b], {})
    /\ progress[b].done = 1 /\ Status(b) = "running" /\ ~Normalizing(b)
          => Accounts(staged[b], quarantined[b], {})
    /\ progress[b].done >= 2 => Accounts(staged[b], quarantined[b], raw[b])
    /\ Normalizing(b) => NoneMissing(raw[b], worker.todo, staged[b], quarantined[b])

RecordsAccounted ==
    /\ payload \in [Batches -> Payloads]
    /\ raw \in [Batches -> SUBSET Records]
    /\ DOMAIN staged = Batches /\ staged = [b \in Batches |-> staged[b]]
    /\ DOMAIN quarantined = Batches /\ quarantined = [b \in Batches |-> quarantined[b]]
    /\ \A b \in Batches : BatchAccounted(b)
    /\ worker.stage = 1 => worker.todo \in Seq(Records)

\* What going on does to the worker.
LEMMA GoesOn ==
    ASSUME WorkerFollowsProgress, GoOn, NEW stage \in 1..4, At(stage)
    PROVE  /\ worker # Idle /\ worker.stage = stage /\ worker.todo # <<>>
           /\ worker.batch \in Batches /\ progress[worker.batch].done = stage - 1
           /\ Status(worker.batch) = "running"
           /\ worker'.batch = worker.batch /\ worker'.stage = stage
           /\ worker'.todo = Tail(worker.todo)
<1>1. worker.stage = stage /\ worker.todo # <<>>
  BY DEF At
<1>2. worker # Idle
  BY <1>1 DEF Idle
<1>3. /\ worker = [batch |-> worker.batch, stage |-> worker.stage, todo |-> worker.todo]
      /\ worker.batch \in Batches /\ Status(worker.batch) = "running"
      /\ worker.stage = progress[worker.batch].done + 1
      /\ progress[worker.batch].done \in 0..4
  BY <1>2 DEF WorkerFollowsProgress
<1> DEFINE rest == Tail(worker.todo)
<1>4. worker' = [worker EXCEPT !.todo = rest]
  BY DEF GoOn
<1> HIDE DEF rest
<1>5. /\ worker'.batch = worker.batch /\ worker'.stage = worker.stage /\ worker'.todo = rest
  BY <1>3, <1>4
<1> QED
  BY <1>1, <1>2, <1>3, <1>5 DEF rest

\* A step that handles one more record leaves none missing.
LEMMA OneMoreHandled ==
    ASSUME NEW records, NEW todo, todo # <<>>, NEW st, NEW qu, NEW st2, NEW qu2,
           NoneMissing(records, todo, st, qu),
           st2 = IF Normalizes(Head(todo)) THEN st \cup {Normalized(Head(todo))} ELSE st,
           qu2 = IF Normalizes(Head(todo)) THEN qu ELSE qu \cup {Head(todo).key}
    PROVE  NoneMissing(records, Tail(todo), st2, qu2)
<1> DEFINE r == Head(todo)
           rest == Tail(todo)
<1>1. todo \in Seq(records)
  BY DEF NoneMissing
<1>2. rest \in Seq(records) /\ r \in records /\ ToSet(todo) = {r} \cup ToSet(rest)
  BY <1>1, HeadAndTail
<1>3. PICK handled \in SUBSET records :
          /\ Accounts(st, qu, handled)
          /\ records = handled \cup ToSet(todo)
  BY DEF NoneMissing
<1> HIDE DEF r, rest
<1>4. Accounts(st2, qu2, handled \cup {r})
  <2>1. CASE Normalizes(r)
    <3>1. st2 = st \cup {Normalized(r)} /\ qu2 = qu
      BY <2>1 DEF r
    <3>2. {q \in handled \cup {r} : ~Normalizes(q)} = {q \in handled : ~Normalizes(q)}
      BY <2>1
    <3>3. {q \in handled \cup {r} : Normalizes(q)} = {q \in handled : Normalizes(q)} \cup {r}
      BY <2>1
    <3> QED
      BY <1>3, <3>1, <3>2, <3>3, ZenonT(30) DEF Accounts
  <2>2. CASE ~Normalizes(r)
    <3>1. st2 = st /\ qu2 = qu \cup {r.key}
      BY <2>2 DEF r
    <3>2. {q \in handled \cup {r} : Normalizes(q)} = {q \in handled : Normalizes(q)}
      BY <2>2
    <3>3. {q \in handled \cup {r} : ~Normalizes(q)} = {q \in handled : ~Normalizes(q)} \cup {r}
      BY <2>2
    <3> QED
      BY <1>3, <3>1, <3>2, <3>3 DEF Accounts
  <2> QED
    BY <2>1, <2>2
<1>5. records = (handled \cup {r}) \cup ToSet(rest)
  BY <1>2, <1>3
<1> QED
  BY <1>2, <1>4, <1>5 DEF NoneMissing, rest

\* What is left of the invariant when a step leaves the rows of the batches alone.
LEMMA RowsKept ==
    ASSUME RecordsAccounted, UNCHANGED <<payload, raw, staged, quarantined>>,
           worker'.stage # 1, \A b \in Batches : BatchAccounted(b)'
    PROVE  RecordsAccounted'
BY DEF RecordsAccounted

\* The invariant that normalization's account rests on: nothing of a batch is missing
\* between the records handled and those left (insert_raw_record, normalization::run).
THEOREM RecordsAreAccounted == Spec => []RecordsAccounted
<1>1. Init => RecordsAccounted
  <2> SUFFICES ASSUME Init
               PROVE  RecordsAccounted
    OBVIOUS
  <2>1. ASSUME NEW b \in Batches
        PROVE  BatchAccounted(b)
    BY FS_EmptySet DEF Init, BatchAccounted, KeysUnique, Accounts, Normalizing, Status, Idle
  <2>2. worker.stage = 0
    BY DEF Init, Idle
  <2> QED
    BY <2>1, <2>2 DEF Init, RecordsAccounted
<1>2. RecordsAccounted /\ WorkerFollowsProgress /\ [Next]_vars => RecordsAccounted'
  <2> SUFFICES ASSUME RecordsAccounted, WorkerFollowsProgress, [Next]_vars
               PROVE  RecordsAccounted'
    OBVIOUS
  <2>1. ASSUME NEW b \in Batches, Submit(b)
        PROVE  RecordsAccounted'
    <3>1. /\ UNCHANGED <<payload, raw, staged, quarantined, worker>>
          /\ Status(b) = "absent" /\ progress[b].done = 0
          /\ progress' = [progress EXCEPT ![b].status = "pending"]
      BY <2>1 DEF Submit, WorkerFollowsProgress
    <3>2. \A c \in Batches : /\ progress'[c].done = progress[c].done
                            /\ c # b => progress'[c].status = progress[c].status
      BY <3>1 DEF WorkerFollowsProgress
    <3>3. ASSUME NEW c \in Batches
          PROVE  BatchAccounted(c)'
      BY <3>1, <3>2 DEF RecordsAccounted, BatchAccounted, Normalizing, Status
    <3> QED
      BY <3>1, <3>3 DEF RecordsAccounted
  <2>2. ASSUME NEW b \in Batches, BeginStage(b)
        PROVE  RecordsAccounted'
    <3>1. /\ worker = Idle /\ Active(b) /\ progress[b].done \in 0..3
          /\ UNCHANGED <<payload, raw, staged, quarantined>>
          /\ progress' = [progress EXCEPT ![b].status = "running"]
      BY <2>2 DEF BeginStage, WorkerFollowsProgress, Active, Status, Statuses
    <3>0. PICK stage \in 1..4 : stage = progress[b].done + 1
      BY <3>1
    <3>2. PICK todo \in Todo(b, stage) : worker' = [batch |-> b, stage |-> stage, todo |-> todo]
      BY <2>2, <3>0 DEF BeginStage
    <3>3. worker.stage = 0 /\ \A c \in Batches : ~Normalizing(c)
      BY <3>1 DEF Idle, Normalizing
    <3>4. \A c \in Batches : /\ progress'[c].done = progress[c].done
                            /\ progress'[c].status = IF c = b THEN "running" ELSE progress[c].status
      BY <3>1 DEF WorkerFollowsProgress
    <3>5. worker'.batch = b /\ worker'.stage = stage /\ worker'.todo = todo
      BY <3>2
    <3>6. stage \in {1, 2} => Accounts(staged[b], quarantined[b], {})
      BY <3>0, <3>1, <3>3 DEF RecordsAccounted, BatchAccounted, WorkerFollowsProgress, Active, Status
    <3>7. ASSUME stage = 2
          PROVE  NoneMissing(raw[b], todo, staged[b], quarantined[b])
      <4>1. todo \in Orders(raw[b]) /\ IsFiniteSet(raw[b])
        BY <3>7 DEF Todo, RecordsAccounted, BatchAccounted
      <4>2. todo \in Seq(raw[b]) /\ raw[b] = {} \cup ToSet(todo)
        BY <4>1, OrdersCover
      <4> QED
        BY <3>6, <3>7, <4>2 DEF NoneMissing
    <3>8. ASSUME stage = 1
          PROVE  todo \in Seq(Records)
      BY <3>8, PayloadsAssumption DEF Todo, RecordsAccounted
    <3>9. ASSUME NEW c \in Batches
          PROVE  BatchAccounted(c)'
      BY <3>0, <3>1, <3>3, <3>4, <3>5, <3>6, <3>7
         DEF RecordsAccounted, BatchAccounted, Normalizing, Status
    <3> QED
      BY <3>1, <3>5, <3>8, <3>9 DEF RecordsAccounted
  <2>3. CASE InsertRawRecord
    <3>1. GoOn /\ At(1) /\ UNCHANGED <<payload, progress, staged, quarantined>>
      BY <2>3 DEF InsertRawRecord
    <3>2. PICK b \in Batches : b = worker.batch
      BY <3>1, GoesOn
    <3>3. /\ worker.stage = 1 /\ worker.todo # <<>> /\ progress[b].done = 0
          /\ worker'.stage = 1 /\ worker'.todo = Tail(worker.todo)
      BY <3>1, <3>2, GoesOn
    <3>4. PICK r \in Records : r = Head(worker.todo)
      BY <3>3, HeadAndTail DEF RecordsAccounted
    <3>5. worker'.todo \in Seq(Records)
      BY <3>3, HeadAndTail DEF RecordsAccounted
    <3>6. raw' = [raw EXCEPT ![b] = IF \E q \in raw[b] : q.key = r.key
                                    THEN raw[b] ELSE raw[b] \cup {r}]
      BY <2>3, <3>2, <3>4 DEF InsertRawRecord
    <3>7. raw' \in [Batches -> SUBSET Records]
      BY <3>4, <3>6 DEF RecordsAccounted
    <3>8. IsFiniteSet(raw'[b]) /\ KeysUnique(raw'[b])
      <4>1. IsFiniteSet(raw[b]) /\ KeysUnique(raw[b]) /\ IsFiniteSet(raw[b] \cup {r})
        BY FS_AddElement DEF RecordsAccounted, BatchAccounted
      <4>2. CASE \E q \in raw[b] : q.key = r.key
        BY <3>6, <4>1, <4>2 DEF RecordsAccounted
      <4>3. CASE ~\E q \in raw[b] : q.key = r.key
        <5>1. raw'[b] = raw[b] \cup {r}
          BY <3>6, <4>3 DEF RecordsAccounted
        <5> QED
          BY <4>1, <4>3, <5>1 DEF KeysUnique
      <4> QED
        BY <4>2, <4>3
    <3>9. \A c \in Batches : ~Normalizing(c) /\ ~Normalizing(c)' /\ (c # b => raw'[c] = raw[c])
      BY <3>3, <3>6 DEF Normalizing, RecordsAccounted
    <3>10. ASSUME NEW c \in Batches
           PROVE  BatchAccounted(c)'
      <4>1. CASE c = b
        BY <3>1, <3>3, <3>8, <3>9, <4>1 DEF RecordsAccounted, BatchAccounted, Status
      <4>2. CASE c # b
        BY <3>1, <3>9, <4>2 DEF RecordsAccounted, BatchAccounted, Status
      <4> QED
        BY <4>1, <4>2
    <3> QED
      BY <3>1, <3>5, <3>7, <3>10 DEF RecordsAccounted
  <2>4. CASE NormalizeRecord
    <3>1. GoOn /\ At(2) /\ UNCHANGED <<payload, progress, raw>>
      BY <2>4 DEF NormalizeRecord
    <3>2. PICK b \in Batches : b = worker.batch
      BY <3>1, GoesOn
    <3>3. /\ worker.stage = 2 /\ worker.todo # <<>> /\ progress[b].done = 1
          /\ worker'.batch = b /\ worker'.stage = 2 /\ worker'.todo = Tail(worker.todo)
      BY <3>1, <3>2, GoesOn
    <3> DEFINE r == Head(worker.todo)
    <3>4. /\ staged' = IF Normalizes(r)
                       THEN [staged EXCEPT ![b] = staged[b] \cup {Normalized(r)}] ELSE staged
          /\ quarantined' = IF Normalizes(r) THEN quarantined
                            ELSE [quarantined EXCEPT ![b] = quarantined[b] \cup {r.key}]
      BY <2>4, <3>2 DEF NormalizeRecord
    <3> HIDE DEF r
    <3>5. /\ staged'[b] = IF Normalizes(r) THEN staged[b] \cup {Normalized(r)} ELSE staged[b]
          /\ quarantined'[b] = IF Normalizes(r) THEN quarantined[b] ELSE quarantined[b] \cup {r.key}
      BY <3>4 DEF RecordsAccounted
    <3>6. /\ DOMAIN staged' = Batches /\ staged' = [c \in Batches |-> staged'[c]]
          /\ DOMAIN quarantined' = Batches
          /\ quarantined' = [c \in Batches |-> quarantined'[c]]
          /\ \A c \in Batches : c # b => staged'[c] = staged[c] /\ quarantined'[c] = quarantined[c]
      BY <3>4 DEF RecordsAccounted
    <3>7. NoneMissing(raw[b], worker.todo, staged[b], quarantined[b])
      BY <3>2, <3>3 DEF RecordsAccounted, BatchAccounted, Normalizing
    <3>8. NoneMissing(raw[b], Tail(worker.todo), staged'[b], quarantined'[b])
      BY <3>3, <3>5, <3>7, OneMoreHandled DEF r
    <3>9. ASSUME NEW c \in Batches
          PROVE  BatchAccounted(c)'
      <4>1. CASE c = b
        BY <3>1, <3>3, <3>8, <4>1 DEF RecordsAccounted, BatchAccounted, Normalizing, Status
      <4>2. CASE c # b
        BY <3>1, <3>2, <3>3, <3>6, <4>2 DEF RecordsAccounted, BatchAccounted, Normalizing, Status
      <4> QED
        BY <4>1, <4>2
    <3> QED
      BY <3>1, <3>3, <3>6, <3>9 DEF RecordsAccounted
  <2>5. CASE Materialize \/ Refresh
    <3>1. /\ GoOn /\ (At(3) \/ At(4))
          /\ UNCHANGED <<payload, progress, raw, staged, quarantined>>
      BY <2>5 DEF Materialize, Refresh
    <3>2. worker.stage \in {3, 4} /\ worker'.stage = worker.stage
      BY <3>1, GoesOn
    <3>3. ASSUME NEW c \in Batches
          PROVE  BatchAccounted(c)'
      BY <3>1, <3>2 DEF RecordsAccounted, BatchAccounted, Normalizing, Status
    <3> QED
      BY <3>1, <3>2, <3>3, RowsKept
  <2>6. CASE EndStage
    <3>1. /\ worker # Idle /\ worker.todo = <<>> /\ worker' = Idle
          /\ UNCHANGED <<payload, raw, staged, quarantined>>
      BY <2>6 DEF EndStage
    <3>2. PICK b \in Batches, k \in 1..4 :
              b = worker.batch /\ k = worker.stage /\ progress[b].done = k - 1
      BY <3>1 DEF WorkerFollowsProgress
    <3>3. progress' = [progress EXCEPT ![b] =
                        [status |-> IF k = 4 THEN "completed" ELSE "running", done |-> k]]
      BY <2>6, <3>2 DEF EndStage
    <3>4. \A c \in Batches : IF c = b THEN progress'[c].done = k ELSE progress'[c] = progress[c]
      BY <3>3 DEF WorkerFollowsProgress
    <3>5. worker'.stage = 0 /\ \A c \in Batches : ~Normalizing(c)'
      BY <3>1 DEF Idle, Normalizing
    <3>6. k = 1 => Accounts(staged[b], quarantined[b], {})
      BY <3>2 DEF RecordsAccounted, BatchAccounted
    <3>7. k = 2 => Accounts(staged[b], quarantined[b], raw[b])
      <4> SUFFICES ASSUME k = 2
                   PROVE  Accounts(staged[b], quarantined[b], raw[b])
        OBVIOUS
      <4>1. NoneMissing(raw[b], <<>>, staged[b], quarantined[b])
        BY <3>1, <3>2 DEF RecordsAccounted, BatchAccounted, Normalizing
      <4>2. ToSet(<<>>) = {}
        BY DEF ToSet
      <4> QED
        BY <4>1, <4>2 DEF NoneMissing
    <3>8. k \in {3, 4} => Accounts(staged[b], quarantined[b], raw[b])
      BY <3>2 DEF RecordsAccounted, BatchAccounted
    <3>9. ASSUME NEW c \in Batches
          PROVE  BatchAccounted(c)'
      <4>1. CASE c = b
        BY <3>1, <3>2, <3>4, <3>5, <3>6, <3>7, <3>8, <4>1 DEF RecordsAccounted, BatchAccounted
      <4>2. CASE c # b
        BY <3>1, <3>2, <3>4, <3>5, <4>2 DEF RecordsAccounted, BatchAccounted, Normalizing, Status
      <4> QED
        BY <4>1, <4>2
    <3> QED
      BY <3>1, <3>5, <3>9, RowsKept
  <2>7. CASE FailStage
    <3>1. /\ worker # Idle /\ worker' = Idle
          /\ UNCHANGED <<payload, raw, staged, quarantined>>
      BY <2>7 DEF FailStage
    <3>2. PICK b \in Batches : b = worker.batch
      BY <3>1 DEF WorkerFollowsProgress
    <3>3. progress' = [progress EXCEPT ![b].status = "failed"]
      BY <2>7, <3>2 DEF FailStage
    <3>4. \A c \in Batches : /\ progress'[c].done = progress[c].done
                            /\ progress'[c].status = IF c = b THEN "failed" ELSE progress[c].status
      BY <3>3 DEF WorkerFollowsProgress
    <3>5. worker'.stage = 0 /\ \A c \in Batches : ~Normalizing(c)'
      BY <3>1 DEF Idle, Normalizing
    <3>6. ASSUME NEW c \in Batches
          PROVE  BatchAccounted(c)'
      BY <3>1, <3>2, <3>4, <3>5 DEF RecordsAccounted, BatchAccounted, Normalizing, Status
    <3> QED
      BY <3>1, <3>5, <3>6, RowsKept
  <2>8. CASE UNCHANGED vars
    <3>1. ASSUME NEW c \in Batches
          PROVE  BatchAccounted(c)'
      BY <2>8 DEF vars, RecordsAccounted, BatchAccounted, Normalizing, Status
    <3> QED
      BY <2>8, <3>1 DEF vars, RecordsAccounted
  <2> QED
    BY <2>1, <2>2, <2>3, <2>4, <2>5, <2>6, <2>7, <2>8 DEF Next
<1> QED
  BY <1>1, <1>2, WorkerFollows, PTL DEF Spec

\* Of any file, in any order of reading, and wherever an earlier run was cut short,
\* normalization stages or quarantines each raw record and neither loses nor doubles
\* one (normalization::run, insert_raw_record).
THEOREM RecordsStagedOrQuarantined == Spec => []StagedOrQuarantined
<1>1. RecordsAccounted /\ WorkerFollowsProgress => StagedOrQuarantined
  <2> SUFFICES ASSUME RecordsAccounted, WorkerFollowsProgress, NEW b \in Batches,
                      progress[b].done >= 2
               PROVE  /\ Accounts(staged[b], quarantined[b], raw[b])
                      /\ \A r \in staged[b] : r.key \notin quarantined[b]
    BY DEF StagedOrQuarantined, Accounts
  <2>1. Accounts(staged[b], quarantined[b], raw[b]) /\ KeysUnique(raw[b])
    BY DEF RecordsAccounted, BatchAccounted
  <2>2. ASSUME NEW r \in raw[b]
        PROVE  Normalized(r).key = r.key
    BY DEF RecordsAccounted, Normalized, Records
  <2>3. ASSUME NEW s \in staged[b], s.key \in quarantined[b]
        PROVE  FALSE
    <3>1. PICK r \in raw[b] : Normalizes(r) /\ s = Normalized(r)
      BY <2>1 DEF Accounts
    <3>2. PICK q \in raw[b] : ~Normalizes(q) /\ q.key = s.key
      BY <2>1, <2>3 DEF Accounts
    <3>3. q = r
      BY <2>1, <2>2, <3>1, <3>2 DEF KeysUnique
    <3> QED
      BY <3>1, <3>2, <3>3
  <2> QED
    BY <2>1, <2>3
<1> QED
  BY <1>1, RecordsAreAccounted, WorkerFollows, PTL
-----------------------------------------------------------------------------
(***************************************************************************)
(* Sequences joined one after another: an induction over their number, by  *)
(* the least that would fail.                                              *)
(***************************************************************************)
\* A set of numbers that is not empty has a least one.
LEMMA LeastNumber ==
    ASSUME NEW T \in SUBSET Nat, T # {}
    PROVE  \E n \in T : \A m \in T : n <= m
<1> DEFINE R == OpToRel(<, Nat)
<1>1. IsWellFoundedOn(R, Nat)
  BY NatLessThanWellFounded
<1>2. \A m, n \in Nat : m < n => <<m, n>> \in R
  BY DEF OpToRel
<1> HIDE DEF R
<1>3. PICK n \in T : \A m \in T : ~(<<m, n>> \in R)
  BY <1>1, WFMin
<1>4. \A m \in T : m \in Nat /\ n \in Nat /\ ~(m < n)
  BY <1>2, <1>3
<1>5. \A m \in T : n <= m
  BY <1>4
<1> QED
  BY <1>5

\* f joins the first n of the sequences, and the first of them up to each.
Joins(f, seqs, n) ==
    f = [i \in 1..n |-> IF i = 1 THEN seqs[i] ELSE f[i - 1] \o seqs[i]]

LEMMA JoinsExist ==
    ASSUME NEW seqs, NEW n \in Nat
    PROVE  \E f : Joins(f, seqs, n)
<1> DEFINE T == {k \in Nat : ~\E f : Joins(f, seqs, k)}
<1> SUFFICES ASSUME T # {} PROVE FALSE
  OBVIOUS
<1>1. PICK k \in T : \A m \in T : k <= m
  BY LeastNumber
<1>2. k # 0
  <2> DEFINE f == [i \in 1..0 |-> 0]
  <2>1. Joins(f, seqs, 0)
    BY DEF Joins
  <2> QED
    BY <2>1
<1>3. k - 1 \in Nat /\ k - 1 \notin T
  BY <1>1, <1>2
<1>4. PICK f : Joins(f, seqs, k - 1)
  BY <1>3
<1> DEFINE g == [i \in 1..k |-> IF i < k THEN f[i]
                                ELSE IF i = 1 THEN seqs[i] ELSE f[i - 1] \o seqs[i]]
           h == [i \in 1..k |-> IF i = 1 THEN seqs[i] ELSE g[i - 1] \o seqs[i]]
<1>5. ASSUME NEW i \in 1..k PROVE g[i] = h[i]
  <2>1. CASE i < k
    <3>1. i \in 1..(k - 1) /\ g[i] = f[i]
      BY <1>3, <2>1
    <3>2. f[i] = IF i = 1 THEN seqs[i] ELSE f[i - 1] \o seqs[i]
      BY <1>4, <3>1 DEF Joins
    <3>3. i # 1 => i - 1 \in 1..k /\ i - 1 < k /\ g[i - 1] = f[i - 1]
      BY <1>3, <2>1
    <3> QED
      BY <3>1, <3>2, <3>3
  <2>2. CASE i = k
    BY <1>3, <2>2
  <2> QED
    BY <1>3, <2>1, <2>2
<1>6. Joins(g, seqs, k)
  <2>1. g = h
    BY <1>5
  <2> QED
    BY <2>1 DEF Joins
<1> QED
  BY <1>1, <1>6

\* Whatever every one of some sequences is, and is kept by joining two of them, all of
\* them joined are as well.
LEMMA FlattenClosed ==
    ASSUME NEW W, <<>> \in W, \A s, t \in W : s \o t \in W, NEW seqs \in Seq(W)
    PROVE  FlattenSeq(seqs) \in W
<1> DEFINE n == Len(seqs)
           flat == CHOOSE f : Joins(f, seqs, n)
<1>1. n \in Nat /\ \A i \in 1..n : seqs[i] \in W
  BY LenProperties, ElementOfSeq
<1>2. Joins(flat, seqs, n)
  BY <1>1, JoinsExist
<1>3. FlattenSeq(seqs) = IF n = 0 THEN seqs ELSE flat[n]
  BY DEF FlattenSeq, Joins
<1> HIDE DEF flat, n
<1>4. \A i \in 1..n : flat[i] = IF i = 1 THEN seqs[i] ELSE flat[i - 1] \o seqs[i]
  BY <1>2 DEF Joins
<1> DEFINE T == {i \in 1..n : flat[i] \notin W}
<1>5. T = {}
  <2> SUFFICES ASSUME T # {} PROVE FALSE
    OBVIOUS
  <2>1. T \in SUBSET Nat
    BY <1>1
  <2>2. PICK i \in T : \A m \in T : i <= m
    BY <2>1, LeastNumber
  <2>3. i \in 1..n /\ i # 1
    BY <1>1, <1>4, <2>2
  <2>4. i - 1 \in 1..n /\ i - 1 \notin T
    BY <1>1, <2>2, <2>3
  <2>5. flat[i - 1] \in W
    BY <2>4
  <2> QED
    BY <1>1, <1>4, <2>2, <2>3, <2>5
<1>6. n = 0 => seqs = <<>>
  BY EmptySeq DEF n
<1> QED
  BY <1>1, <1>3, <1>5, <1>6

-----------------------------------------------------------------------------
(***************************************************************************)
(* What a materialization is made of, in whatever order it reads its rows. *)
(***************************************************************************)
PropertyRow == <<"property", "row">>

\* The records normalization may stage, and what one of them states.
StagedRecords == {Normalized(r) : r \in {q \in Records : Normalizes(q)}}

StatedBy(r) ==
    TitleRows(r) \cup PartyRows(r) \cup BondRows(r)
        \cup {Row(r, Fact(PropertyRow, r.office.spelling))}

\* The statements that staged records back: one states the fact of the property's
\* title, and one is of the property itself.
Backed(s, records) ==
    /\ \E r \in records : \E row \in StatedBy(r) :
           row.key = s.key /\ row.title = s.property[2] /\ row.fact = s.fact
    /\ \E r \in records : PropertyFingerprint(r) = s.property

StatementsOf(records) ==
    {s \in [op : {"upsert", "link"}, property : Fingerprints, key : Keys,
            fact : [id : FactIds, value : Values]] : Backed(s, records)}

LinkOf(s) == [s EXCEPT !.op = "link"]
SameFact(s, t) == s.property = t.property /\ s.fact.id = t.fact.id

\* A fact is linked right after it is upserted; the property's own row after all
\* that comes before the next property's.
LinkedAtOnce(t) ==
    \A i \in 1..Len(t) : t[i].op = "upsert" /\ t[i].fact.id # PropertyRow =>
        i < Len(t) /\ t[i + 1] = LinkOf(t[i])
LinkedLast(t) ==
    \A i \in 1..Len(t) : t[i].op = "upsert" /\ t[i].fact.id = PropertyRow =>
        \E j \in (i + 1)..Len(t) :
            t[j] = LinkOf(t[i]) /\ \A k \in (i + 1)..(j - 1) : t[k].fact.id # PropertyRow
\* Nothing is linked that was not upserted before.
UpsertedFirst(t) ==
    \A j \in 1..Len(t) : t[j].op = "link" =>
        \E i \in 1..(j - 1) : t[i].op = "upsert" /\ SameFact(t[i], t[j])

Scripts(records) ==
    {t \in Seq(StatementsOf(records)) : LinkedAtOnce(t) /\ LinkedLast(t) /\ UpsertedFirst(t)}
FactScripts(records) ==
    {t \in Scripts(records) : \A i \in 1..Len(t) : t[i].fact.id # PropertyRow}

LEMMA StagedType ==
    ASSUME NEW r \in StagedRecords
    PROVE  /\ r.key \in Keys /\ r.title \in Titles
           /\ r.office \in [name : Offices, spelling : Spellings]
           /\ r.status \in TitleStatuses \cup {"missing"}
           /\ r.owners \in SUBSET Names /\ IsFiniteSet(r.owners)
           /\ r.bonds \in SUBSET [type : BondTypes, status : BondStatuses] /\ IsFiniteSet(r.bonds)
           /\ PropertyFingerprint(r) \in Fingerprints
<1>1. PICK q \in Records : Normalizes(q) /\ r = Normalized(q)
  BY DEF StagedRecords
<1>2. /\ q.key \in Keys /\ q.office \in [name : Offices, spelling : Spellings]
      /\ q.title \in [ref : Titles, spelling : Spellings]
      /\ q.status \in TitleStatuses \cup {"missing"}
      /\ q.owners \in SUBSET Names /\ IsFiniteSet(q.owners)
      /\ q.bonds \in SUBSET [type : BondTypes, status : BondStatuses] /\ IsFiniteSet(q.bonds)
  BY <1>1 DEF Records, Normalizes
<1>3. /\ r.key = q.key /\ r.office = q.office /\ r.title = q.title.ref /\ r.status = q.status
      /\ r.owners = q.owners /\ r.bonds = q.bonds
  BY <1>1 DEF Normalized, Records
<1> QED
  BY <1>2, <1>3 DEF PropertyFingerprint, Fingerprints

\* The rows of one record.
LEMMA RowType ==
    ASSUME NEW r \in StagedRecords, NEW row \in StatedBy(r)
    PROVE  /\ row.key = r.key /\ row.title = r.title
           /\ row.fact \in [id : FactIds, value : Values]
           /\ row.fact.id = PropertyRow => row = Row(r, Fact(PropertyRow, r.office.spelling))
<1>1. CASE row \in TitleRows(r)
  BY <1>1, StagedType DEF TitleRows, Row, Fact, FactIds, Values, PropertyRow
<1>2. CASE row \in PartyRows(r)
  BY <1>2, StagedType DEF PartyRows, Row, Fact, FactIds, Values, PropertyRow
<1>3. CASE row \in BondRows(r)
  BY <1>3, StagedType DEF BondRows, Row, Fact, FactIds, Values, PropertyRow
<1>4. CASE row = Row(r, Fact(PropertyRow, r.office.spelling))
  BY <1>4, StagedType DEF Row, Fact, FactIds, Values, PropertyRow
<1> QED
  BY <1>1, <1>2, <1>3, <1>4 DEF StatedBy

LEMMA TableRowsAreFacts ==
    ASSUME NEW r \in StagedRecords, NEW row \in TitleRows(r) \cup PartyRows(r) \cup BondRows(r)
    PROVE  row \in StatedBy(r) /\ row.fact.id # PropertyRow
BY DEF StatedBy, TitleRows, PartyRows, BondRows, Row, Fact, PropertyRow

\* One script after another is a script.
LEMMA ScriptsJoin ==
    ASSUME NEW records, NEW s \in Scripts(records), NEW t \in Scripts(records)
    PROVE  s \o t \in Scripts(records)
<1> DEFINE st == s \o t
           m == Len(s)
           n == Len(t)
<1>1. s \in Seq(StatementsOf(records)) /\ t \in Seq(StatementsOf(records))
  BY DEF Scripts
<1>2. /\ st \in Seq(StatementsOf(records)) /\ m \in Nat /\ n \in Nat /\ Len(st) = m + n
      /\ \A i \in 1..(m + n) : st[i] = IF i <= m THEN s[i] ELSE t[i - m]
  BY <1>1, ConcatProperties, LenProperties
<1> HIDE DEF st, m, n
<1>3. \A i \in 1..m : i \in 1..(m + n) /\ st[i] = s[i]
  BY <1>2
<1>4. \A i \in 1..n : m + i \in 1..(m + n) /\ st[m + i] = t[i]
  BY <1>2
<1>5. \A i \in 1..(m + n) : i \in 1..m \/ \E k \in 1..n : i = m + k
  <2> TAKE i \in 1..(m + n)
  <2>1. CASE i <= m
    BY <1>2, <2>1
  <2>2. CASE i > m
    <3>1. i - m \in 1..n /\ i = m + (i - m)
      BY <1>2, <2>2
    <3> QED
      BY <3>1
  <2> QED
    BY <1>2, <2>1, <2>2
<1>6. LinkedAtOnce(st)
  <2> SUFFICES ASSUME NEW i \in 1..(m + n), st[i].op = "upsert", st[i].fact.id # PropertyRow
               PROVE  i < m + n /\ st[i + 1] = LinkOf(st[i])
    BY <1>2 DEF LinkedAtOnce
  <2>1. CASE i \in 1..m
    <3>1. i < m /\ s[i + 1] = LinkOf(s[i])
      BY <1>3, <2>1 DEF Scripts, LinkedAtOnce, m
    <3>2. i + 1 \in 1..m
      BY <1>2, <2>1, <3>1
    <3> QED
      BY <1>2, <1>3, <2>1, <3>1, <3>2
  <2>2. ASSUME NEW k \in 1..n, i = m + k PROVE i < m + n /\ st[i + 1] = LinkOf(st[i])
    <3>1. k < n /\ t[k + 1] = LinkOf(t[k])
      BY <1>4, <2>2 DEF Scripts, LinkedAtOnce, n
    <3>2. k + 1 \in 1..n /\ i + 1 = m + (k + 1)
      BY <1>2, <2>2, <3>1
    <3> QED
      BY <1>2, <1>4, <2>2, <3>1, <3>2
  <2> QED
    BY <1>5, <2>1, <2>2
<1>7. LinkedLast(st)
  <2> SUFFICES ASSUME NEW i \in 1..(m + n), st[i].op = "upsert", st[i].fact.id = PropertyRow
               PROVE  \E j \in (i + 1)..(m + n) :
                          /\ st[j] = LinkOf(st[i])
                          /\ \A k \in (i + 1)..(j - 1) : st[k].fact.id # PropertyRow
    BY <1>2 DEF LinkedLast
  <2>1. CASE i \in 1..m
    <3>1. PICK j \in (i + 1)..m :
              s[j] = LinkOf(s[i]) /\ \A k \in (i + 1)..(j - 1) : s[k].fact.id # PropertyRow
      BY <1>3, <2>1 DEF Scripts, LinkedLast, m
    <3>2. j \in (i + 1)..(m + n) /\ j \in 1..m /\ \A k \in (i + 1)..(j - 1) : k \in 1..m
      BY <1>2, <2>1, <3>1
    <3> QED
      BY <1>3, <2>1, <3>1, <3>2
  <2>2. ASSUME NEW h \in 1..n, i = m + h
        PROVE  \E j \in (i + 1)..(m + n) :
                   /\ st[j] = LinkOf(st[i])
                   /\ \A k \in (i + 1)..(j - 1) : st[k].fact.id # PropertyRow
    <3>1. PICK j \in (h + 1)..n :
              t[j] = LinkOf(t[h]) /\ \A k \in (h + 1)..(j - 1) : t[k].fact.id # PropertyRow
      BY <1>4, <2>2 DEF Scripts, LinkedLast, n
    <3>2. PICK last \in (i + 1)..(m + n) :
              last = m + j /\ j \in 1..n /\ st[last] = t[j] /\ st[i] = t[h]
      BY <1>2, <1>4, <2>2, <3>1
    <3>3. ASSUME NEW k \in (i + 1)..(last - 1) PROVE st[k].fact.id # PropertyRow
      <4>1. k - m \in (h + 1)..(j - 1) /\ k - m \in 1..n /\ k = m + (k - m)
        BY <1>2, <2>2, <3>1, <3>2
      <4> QED
        BY <1>4, <3>1, <4>1
    <3> QED
      BY <3>1, <3>2, <3>3
  <2> QED
    BY <1>5, <2>1, <2>2
<1>8. UpsertedFirst(st)
  <2> SUFFICES ASSUME NEW j \in 1..(m + n), st[j].op = "link"
               PROVE  \E i \in 1..(j - 1) : st[i].op = "upsert" /\ SameFact(st[i], st[j])
    BY <1>2 DEF UpsertedFirst
  <2>1. CASE j \in 1..m
    <3>1. PICK i \in 1..(j - 1) : s[i].op = "upsert" /\ SameFact(s[i], s[j])
      BY <1>3, <2>1 DEF Scripts, UpsertedFirst, m
    <3>2. i \in 1..m
      BY <1>2, <2>1, <3>1
    <3> QED
      BY <1>3, <2>1, <3>1, <3>2
  <2>2. ASSUME NEW h \in 1..n, j = m + h
        PROVE  \E i \in 1..(j - 1) : st[i].op = "upsert" /\ SameFact(st[i], st[j])
    <3>1. PICK i \in 1..(h - 1) : t[i].op = "upsert" /\ SameFact(t[i], t[h])
      BY <1>4, <2>2 DEF Scripts, UpsertedFirst, n
    <3>2. i \in 1..n /\ m + i \in 1..(j - 1) /\ st[m + i] = t[i] /\ st[j] = t[h]
      BY <1>2, <1>4, <2>2, <3>1, SMTT(30)
    <3> QED
      BY <3>1, <3>2
  <2> QED
    BY <1>5, <2>1, <2>2
<1> QED
  BY <1>2, <1>6, <1>7, <1>8 DEF Scripts, st

LEMMA FactScriptsJoin ==
    ASSUME NEW records, NEW s \in FactScripts(records), NEW t \in FactScripts(records)
    PROVE  s \o t \in FactScripts(records)
<1>1. s \o t \in Scripts(records)
  BY ScriptsJoin DEF FactScripts
<1>2. s \in Seq(StatementsOf(records)) /\ t \in Seq(StatementsOf(records))
  BY DEF FactScripts, Scripts
<1>3. /\ Len(s) \in Nat /\ Len(t) \in Nat /\ Len(s \o t) = Len(s) + Len(t)
      /\ \A i \in 1..(Len(s) + Len(t)) : (s \o t)[i] = IF i <= Len(s) THEN s[i] ELSE t[i - Len(s)]
  BY <1>2, ConcatProperties, LenProperties
<1>4. ASSUME NEW i \in 1..(Len(s) + Len(t)) PROVE (s \o t)[i].fact.id # PropertyRow
  <2>1. CASE i <= Len(s)
    BY <1>3, <2>1 DEF FactScripts
  <2>2. CASE i > Len(s)
    <3>1. i - Len(s) \in 1..Len(t) /\ (s \o t)[i] = t[i - Len(s)]
      BY <1>3, <2>2
    <3> QED
      BY <3>1 DEF FactScripts
  <2> QED
    BY <1>3, <2>1, <2>2
<1> QED
  BY <1>1, <1>3, <1>4 DEF FactScripts

\* A statement that records back.
LEMMA StatementBacked ==
    ASSUME NEW records \in SUBSET StagedRecords, NEW r \in records, NEW row \in StatedBy(r),
           NEW p \in records, row.title = PropertyFingerprint(p)[2], NEW op \in {"upsert", "link"}
    PROVE  /\ Statement(op, PropertyFingerprint(p), row) \in StatementsOf(records)
           /\ Statement(op, PropertyFingerprint(p), row).op = op
           /\ Statement(op, PropertyFingerprint(p), row).fact = row.fact
<1> DEFINE s == Statement(op, PropertyFingerprint(p), row)
<1>1. /\ s.op = op /\ s.property = PropertyFingerprint(p) /\ s.key = row.key /\ s.fact = row.fact
      /\ s = [op |-> op, property |-> PropertyFingerprint(p), key |-> row.key, fact |-> row.fact]
  BY DEF Statement
<1>2. /\ row.key \in Keys /\ row.fact \in [id : FactIds, value : Values]
      /\ PropertyFingerprint(p) \in Fingerprints
  BY RowType, StagedType
<1> HIDE DEF s
<1>3. Backed(s, records)
  BY <1>1 DEF Backed
<1>4. s \in StatementsOf(records)
  BY <1>1, <1>2, <1>3 DEF StatementsOf
<1> QED
  BY <1>1, <1>4 DEF s

LEMMA LinkOfUpsert ==
    ASSUME NEW fp, NEW row
    PROVE  /\ Statement("link", fp, row) = LinkOf(Statement("upsert", fp, row))
           /\ SameFact(Statement("upsert", fp, row), Statement("link", fp, row))
BY DEF Statement, LinkOf, SameFact

LEMMA PairIsScript ==
    ASSUME NEW records \in SUBSET StagedRecords, NEW r \in records,
           NEW row \in TitleRows(r) \cup PartyRows(r) \cup BondRows(r),
           NEW p \in records, row.title = PropertyFingerprint(p)[2]
    PROVE  <<Statement("upsert", PropertyFingerprint(p), row),
             Statement("link", PropertyFingerprint(p), row)>> \in FactScripts(records)
<1> DEFINE u == Statement("upsert", PropertyFingerprint(p), row)
           l == Statement("link", PropertyFingerprint(p), row)
<1>1. row \in StatedBy(r) /\ row.fact.id # PropertyRow
  BY TableRowsAreFacts
<1>2. /\ u \in StatementsOf(records) /\ u.op = "upsert" /\ u.fact = row.fact
      /\ l \in StatementsOf(records) /\ l.op = "link" /\ l.fact = row.fact
  BY <1>1, StatementBacked
<1>3. l = LinkOf(u) /\ SameFact(u, l)
  BY LinkOfUpsert
<1> HIDE DEF u, l
<1> DEFINE t == <<u, l>>
<1>4. /\ t \in Seq(StatementsOf(records)) /\ Len(t) = 2 /\ t[1] = u /\ t[2] = l
      /\ \A i \in 1..Len(t) : i = 1 \/ i = 2
  BY <1>2
<1> HIDE DEF t
<1>5. LinkedAtOnce(t) /\ LinkedLast(t) /\ \A i \in 1..Len(t) : t[i].fact.id # PropertyRow
  BY <1>1, <1>2, <1>3, <1>4 DEF LinkedAtOnce, LinkedLast
<1>6. UpsertedFirst(t)
  <2> SUFFICES ASSUME NEW j \in 1..Len(t), t[j].op = "link"
               PROVE  \E i \in 1..(j - 1) : t[i].op = "upsert" /\ SameFact(t[i], t[j])
    BY DEF UpsertedFirst
  <2>1. j = 2 /\ 1 \in 1..(j - 1)
    BY <1>2, <1>4
  <2> QED
    BY <1>2, <1>3, <1>4, <2>1
<1> QED
  BY <1>4, <1>5, <1>6 DEF FactScripts, Scripts, t, u, l

LEMMA NoStatementIsScript == \A records : <<>> \in FactScripts(records)
BY DEF FactScripts, Scripts, LinkedAtOnce, LinkedLast, UpsertedFirst

\* The statements for the facts of one property.
LEMMA InsertedIsScript ==
    ASSUME NEW records \in SUBSET StagedRecords, NEW p \in records, NEW table,
           table \in Seq(UNION {TitleRows(r) \cup PartyRows(r) \cup BondRows(r) : r \in records})
    PROVE  Inserted(PropertyFingerprint(p), table) \in FactScripts(records)
<1> DEFINE fp == PropertyFingerprint(p)
           each == [i \in DOMAIN table |->
                       IF table[i].title = fp[2]
                       THEN <<Statement("upsert", fp, table[i]), Statement("link", fp, table[i])>>
                       ELSE <<>>]
<1>1. Len(table) \in Nat /\ DOMAIN table = 1..Len(table)
  BY LenProperties
<1>2. ASSUME NEW i \in 1..Len(table)
      PROVE  each[i] \in FactScripts(records)
  <2>1. PICK r \in records : table[i] \in TitleRows(r) \cup PartyRows(r) \cup BondRows(r)
    BY ElementOfSeq
  <2>2. CASE table[i].title = fp[2]
    BY <1>1, <2>1, <2>2, PairIsScript
  <2>3. CASE table[i].title # fp[2]
    BY <1>1, <2>3, NoStatementIsScript
  <2> QED
    BY <2>2, <2>3
<1>3. Inserted(fp, table) = FlattenSeq(each)
  BY DEF Inserted
<1>4. DOMAIN each = 1..Len(table)
  BY <1>1
<1> HIDE DEF each
<1>5. each \in Seq(FactScripts(records))
  <2>1. each = [i \in 1..Len(table) |-> each[i]]
    BY <1>4 DEF each
  <2>2. each \in [1..Len(table) -> FactScripts(records)]
    BY <1>2, <2>1
  <2> QED
    BY <1>1, <2>2, SeqDef
<1>6. FlattenSeq(each) \in FactScripts(records)
  BY <1>5, NoStatementIsScript, FactScriptsJoin, FlattenClosed
<1> QED
  BY <1>3, <1>6

\* A sequence between two elements.
LEMMA Between ==
    ASSUME NEW S, NEW u \in S, NEW l \in S, NEW mid \in Seq(S), NEW n \in Nat, n = Len(mid)
    PROVE  LET t == <<u>> \o mid \o <<l>>
           IN  /\ t \in Seq(S) /\ Len(t) = n + 2 /\ t[1] = u /\ t[n + 2] = l
               /\ \A k \in 1..n : k + 1 \in 1..(n + 2) /\ t[k + 1] = mid[k]
<1>1. ASSUME NEW s \in Seq(S), NEW e \in Seq(S)
      PROVE  /\ s \o e \in Seq(S) /\ Len(s \o e) = Len(s) + Len(e)
             /\ \A i \in 1..(Len(s) + Len(e)) :
                    (s \o e)[i] = IF i <= Len(s) THEN s[i] ELSE e[i - Len(s)]
  BY ConcatProperties
<1> DEFINE first == <<u>>
           last == <<l>>
           front == first \o mid
           t == front \o last
<1>2. /\ first \in Seq(S) /\ Len(first) = 1 /\ first[1] = u
      /\ last \in Seq(S) /\ Len(last) = 1 /\ last[1] = l
  OBVIOUS
<1> HIDE DEF first, last
<1>3. /\ front \in Seq(S) /\ Len(front) = n + 1
      /\ \A i \in 1..(n + 1) : front[i] = IF i <= 1 THEN first[i] ELSE mid[i - 1]
  <2>1. /\ front \in Seq(S) /\ Len(front) = Len(first) + Len(mid)
        /\ \A i \in 1..(Len(first) + Len(mid)) :
               front[i] = IF i <= Len(first) THEN first[i] ELSE mid[i - Len(first)]
    BY <1>1, <1>2, Zenon
  <2> HIDE DEF front
  <2>2. Len(first) + Len(mid) = n + 1
    BY <1>2
  <2> QED
    BY <1>2, <2>1, <2>2
<1> HIDE DEF front
<1>4. /\ t \in Seq(S) /\ Len(t) = n + 2
      /\ \A i \in 1..(n + 2) : t[i] = IF i <= n + 1 THEN front[i] ELSE last[i - (n + 1)]
  <2>1. /\ t \in Seq(S) /\ Len(t) = Len(front) + Len(last)
        /\ \A i \in 1..(Len(front) + Len(last)) :
               t[i] = IF i <= Len(front) THEN front[i] ELSE last[i - Len(front)]
    BY <1>1, <1>2, <1>3, Zenon
  <2> HIDE DEF t
  <2>2. Len(front) + Len(last) = n + 2
    BY <1>2, <1>3
  <2> QED
    BY <1>3, <2>1, <2>2
<1> HIDE DEF t
<1>5. t[1] = u
  <2>1. 1 \in 1..(n + 2) /\ 1 \in 1..(n + 1) /\ 1 <= n + 1
    OBVIOUS
  <2> QED
    BY <1>2, <1>3, <1>4, <2>1
<1>6. t[n + 2] = l
  <2>1. n + 2 \in 1..(n + 2) /\ ~(n + 2 <= n + 1) /\ (n + 2) - (n + 1) = 1
    OBVIOUS
  <2> QED
    BY <1>2, <1>4, <2>1
<1>7. ASSUME NEW k \in 1..n PROVE k + 1 \in 1..(n + 2) /\ t[k + 1] = mid[k]
  <2>1. /\ k + 1 \in 1..(n + 2) /\ k + 1 \in 1..(n + 1) /\ k + 1 <= n + 1
        /\ ~(k + 1 <= 1) /\ (k + 1) - 1 = k
    OBVIOUS
  <2> QED
    BY <1>3, <1>4, <2>1
<1> QED
  BY <1>4, <1>5, <1>6, <1>7 DEF t, front, first, last

\* The statements for one property: its own row first, and linked last.
LEMMA PropertyIsScript ==
    ASSUME NEW records \in SUBSET StagedRecords, NEW p \in records, NEW own,
           own = Row(p, Fact(PropertyRow, p.office.spelling)), NEW mid \in FactScripts(records)
    PROVE  <<Statement("upsert", PropertyFingerprint(p), own)>> \o mid
               \o <<Statement("link", PropertyFingerprint(p), own)>> \in Scripts(records)
<1> DEFINE u == Statement("upsert", PropertyFingerprint(p), own)
           l == Statement("link", PropertyFingerprint(p), own)
           n == Len(mid)
           t == <<u>> \o mid \o <<l>>
<1>1. own \in StatedBy(p) /\ own.fact.id = PropertyRow /\ own.title = PropertyFingerprint(p)[2]
  BY DEF StatedBy, Row, Fact, PropertyFingerprint
<1>2. /\ u \in StatementsOf(records) /\ u.op = "upsert" /\ u.fact = own.fact
      /\ l \in StatementsOf(records) /\ l.op = "link" /\ l.fact = own.fact
  BY <1>1, StatementBacked
<1>3. l = LinkOf(u) /\ SameFact(u, l)
  BY LinkOfUpsert
<1> HIDE DEF u, l
<1>4. mid \in Seq(StatementsOf(records)) /\ n \in Nat
  BY LenProperties DEF FactScripts, Scripts
<1>5. /\ t \in Seq(StatementsOf(records)) /\ Len(t) = n + 2 /\ t[1] = u /\ t[n + 2] = l
      /\ \A k \in 1..n : k + 1 \in 1..(n + 2) /\ t[k + 1] = mid[k]
  BY <1>2, <1>4, Between
<1> HIDE DEF t, n
<1>6. \A i \in 1..(n + 2) : i = 1 \/ i = n + 2 \/ \E k \in 1..n : i = k + 1
  <2> TAKE i \in 1..(n + 2)
  <2>1. CASE i # 1 /\ i # n + 2
    <3>1. i - 1 \in 1..n /\ i = (i - 1) + 1
      BY <1>4, <2>1
    <3> QED
      BY <3>1
  <2> QED
    BY <2>1
<1>7. \A k \in 1..n : mid[k].fact.id # PropertyRow
  BY DEF FactScripts, n
<1>8. LinkedAtOnce(t)
  <2> SUFFICES ASSUME NEW i \in 1..(n + 2), t[i].op = "upsert", t[i].fact.id # PropertyRow
               PROVE  i < n + 2 /\ t[i + 1] = LinkOf(t[i])
    BY <1>5 DEF LinkedAtOnce
  <2>1. PICK k \in 1..n : i = k + 1
    BY <1>1, <1>2, <1>5, <1>6
  <2>2. k < n /\ mid[k + 1] = LinkOf(mid[k])
    BY <1>5, <2>1 DEF FactScripts, Scripts, LinkedAtOnce, n
  <2>3. k + 1 \in 1..n
    BY <1>4, <2>2
  <2> QED
    BY <1>4, <1>5, <2>1, <2>2, <2>3
<1>9. LinkedLast(t)
  <2> SUFFICES ASSUME NEW i \in 1..(n + 2), t[i].op = "upsert", t[i].fact.id = PropertyRow
               PROVE  \E j \in (i + 1)..(n + 2) :
                          /\ t[j] = LinkOf(t[i])
                          /\ \A k \in (i + 1)..(j - 1) : t[k].fact.id # PropertyRow
    BY <1>5 DEF LinkedLast
  <2>1. i = 1
    BY <1>2, <1>5, <1>6, <1>7
  <2>2. n + 2 \in (i + 1)..(n + 2)
    BY <1>4, <2>1
  <2>3. ASSUME NEW k \in (i + 1)..((n + 2) - 1) PROVE t[k].fact.id # PropertyRow
    <3>1. k \in 1..(n + 2) /\ k # 1 /\ k # n + 2
      BY <1>4, <2>1
    <3> QED
      BY <1>5, <1>6, <1>7, <3>1
  <2> QED
    BY <1>3, <1>5, <2>1, <2>2, <2>3
<1>10. UpsertedFirst(t)
  <2> SUFFICES ASSUME NEW j \in 1..(n + 2), t[j].op = "link"
               PROVE  \E i \in 1..(j - 1) : t[i].op = "upsert" /\ SameFact(t[i], t[j])
    BY <1>5 DEF UpsertedFirst
  <2>1. CASE j = n + 2
    <3>1. 1 \in 1..(j - 1)
      BY <1>4, <2>1
    <3> QED
      BY <1>2, <1>3, <1>5, <2>1, <3>1
  <2>2. ASSUME NEW k \in 1..n, j = k + 1
        PROVE  \E i \in 1..(j - 1) : t[i].op = "upsert" /\ SameFact(t[i], t[j])
    <3>1. PICK i \in 1..(k - 1) : mid[i].op = "upsert" /\ SameFact(mid[i], mid[k])
      BY <1>5, <2>2 DEF FactScripts, Scripts, UpsertedFirst, n
    <3>2. i \in 1..n /\ i + 1 \in 1..(j - 1)
      BY <1>4, <2>2, <3>1
    <3> QED
      BY <1>5, <2>2, <3>1, <3>2
  <2> QED
    BY <1>2, <1>5, <1>6, <2>1, <2>2
<1> QED
  BY <1>5, <1>8, <1>9, <1>10 DEF Scripts, t, u, l

LEMMA MaterializeIsScript ==
    ASSUME NEW records \in SUBSET StagedRecords, NEW p \in records, NEW tables,
           DOMAIN tables = 1..3,
           \A i \in 1..3 :
               tables[i] \in Seq(UNION {TitleRows(r) \cup PartyRows(r) \cup BondRows(r) : r \in records})
    PROVE  MaterializeProperty(p, tables) \in Scripts(records)
<1> DEFINE fp == PropertyFingerprint(p)
           own == Row(p, Fact(PropertyRow, p.office.spelling))
           each == [i \in DOMAIN tables |-> Inserted(fp, tables[i])]
           mid == FlattenSeq(each)
<1>1. \A i \in 1..3 : Inserted(fp, tables[i]) \in FactScripts(records)
  BY InsertedIsScript
<1>2. each \in [1..3 -> FactScripts(records)]
  BY <1>1
<1>3. each \in Seq(FactScripts(records))
  BY <1>2, SeqDef
<1>4. mid \in FactScripts(records)
  BY <1>3, NoStatementIsScript, FactScriptsJoin, FlattenClosed
<1>5. MaterializeProperty(p, tables)
        = <<Statement("upsert", fp, own)>> \o mid \o <<Statement("link", fp, own)>>
  BY DEF MaterializeProperty, PropertyRow
<1> HIDE DEF fp, own, mid
<1> QED
  BY <1>4, <1>5, PropertyIsScript DEF fp, own

\* The values of a function on a finite set are finitely many.
LEMMA FiniteImage ==
    ASSUME NEW S, IsFiniteSet(S), NEW f, DOMAIN f = S
    PROVE  IsFiniteSet({f[x] : x \in S}) /\ Cardinality({f[x] : x \in S}) <= Cardinality(S)
<1> DEFINE T == {f[x] : x \in S}
           g == [x \in S |-> f[x]]
<1>1. g \in Surjection(S, T)
  BY DEF Surjection
<1> HIDE DEF g, T
<1>2. IsFiniteSet(T) /\ Cardinality(T) <= Cardinality(S)
  BY <1>1, FS_Surjection
<1> QED
  BY <1>2 DEF T

LEMMA RowsFinite ==
    ASSUME NEW r \in StagedRecords
    PROVE  IsFiniteSet(TitleRows(r)) /\ IsFiniteSet(PartyRows(r)) /\ IsFiniteSet(BondRows(r))
<1>1. IsFiniteSet(TitleRows(r))
  <2> DEFINE S == {r.status} \ {"missing"}
             f == [s \in S |-> Row(r, Fact(<<"title", "row">>, s))]
  <2>1. IsFiniteSet(S) /\ DOMAIN f = S
    BY FS_Singleton, FS_Difference
  <2> HIDE DEF f, S
  <2>2. IsFiniteSet({f[s] : s \in S})
    BY <2>1, FiniteImage
  <2>3. TitleRows(r) = {f[s] : s \in S}
    BY DEF TitleRows, f, S
  <2> QED
    BY <2>2, <2>3
<1>2. IsFiniteSet(PartyRows(r))
  <2> DEFINE f == [n \in r.owners |-> Row(r, Fact(<<"party", n>>, "owner"))]
  <2>1. IsFiniteSet(r.owners) /\ DOMAIN f = r.owners
    BY StagedType
  <2> HIDE DEF f
  <2>2. IsFiniteSet({f[n] : n \in r.owners})
    BY <2>1, FiniteImage
  <2>3. PartyRows(r) = {f[n] : n \in r.owners}
    BY DEF PartyRows, f
  <2> QED
    BY <2>2, <2>3
<1>3. IsFiniteSet(BondRows(r))
  <2> DEFINE f == [b \in r.bonds |-> Row(r, Fact(<<"encumbrance", b.type>>, b.status))]
  <2>1. IsFiniteSet(r.bonds) /\ DOMAIN f = r.bonds
    BY StagedType
  <2> HIDE DEF f
  <2>2. IsFiniteSet({f[b] : b \in r.bonds})
    BY <2>1, FiniteImage
  <2>3. BondRows(r) = {f[b] : b \in r.bonds}
    BY DEF BondRows, f
  <2> QED
    BY <2>2, <2>3
<1> QED
  BY <1>1, <1>2, <1>3

\* A table that finitely many records make has finitely many rows, and an order of it
\* is a sequence of them.
LEMMA TableOrders ==
    ASSUME NEW records, IsFiniteSet(records), NEW rows, DOMAIN rows = records,
           \A r \in records : IsFiniteSet(rows[r]),
           NEW Table, Table = UNION {rows[r] : r \in records},
           NEW Rows, Table \subseteq Rows, NEW table \in Orders(Table)
    PROVE  table \in Seq(Rows)
<1> DEFINE Sets == {rows[r] : r \in records}
<1>1. IsFiniteSet(Sets)
  BY FiniteImage
<1>2. \A T \in Sets : IsFiniteSet(T)
  OBVIOUS
<1>3. Table = UNION Sets
  OBVIOUS
<1> HIDE DEF Sets
<1>4. IsFiniteSet(Table)
  BY <1>1, <1>2, <1>3, FS_UNION
<1>5. table \in Seq(Table)
  BY <1>4, OrdersCover
<1>6. Len(table) \in Nat /\ table \in [1..Len(table) -> Table]
  BY <1>5, LenProperties
<1>7. table \in [1..Len(table) -> Rows]
  BY <1>6
<1> QED
  BY <1>6, <1>7, SeqDef

\* Every materialization of a batch is a script over its records, whatever the orders
\* the SELECTs return their rows in (materialize::run).
LEMMA MaterializationsAreScripts ==
    ASSUME NEW records \in SUBSET StagedRecords, IsFiniteSet(records),
           NEW todo \in Materializations(records)
    PROVE  todo \in Scripts(records)
<1> DEFINE Rows == UNION {TitleRows(r) \cup PartyRows(r) \cup BondRows(r) : r \in records}
<1> DEFINE Titled == UNION {TitleRows(r) : r \in records}
           Parties == UNION {PartyRows(r) : r \in records}
           Bonded == UNION {BondRows(r) : r \in records}
<1>1. PICK rows \in Orders(records), tables \in Tables(records) :
          todo = FlattenSeq([i \in DOMAIN rows |-> MaterializeProperty(rows[i], tables)])
  BY DEF Materializations
<1>2. \A table \in Orders(Titled) : table \in Seq(Rows)
  <2> DEFINE f == [r \in records |-> TitleRows(r)]
  <2>1. Titled = UNION {f[r] : r \in records} /\ Titled \subseteq Rows
    OBVIOUS
  <2>2. DOMAIN f = records /\ \A r \in records : IsFiniteSet(f[r])
    BY RowsFinite
  <2> HIDE DEF f, Titled, Rows
  <2> QED
    BY <2>1, <2>2, TableOrders
<1>3. \A table \in Orders(Parties) : table \in Seq(Rows)
  <2> DEFINE f == [r \in records |-> PartyRows(r)]
  <2>1. Parties = UNION {f[r] : r \in records} /\ Parties \subseteq Rows
    OBVIOUS
  <2>2. DOMAIN f = records /\ \A r \in records : IsFiniteSet(f[r])
    BY RowsFinite
  <2> HIDE DEF f, Parties, Rows
  <2> QED
    BY <2>1, <2>2, TableOrders
<1>4. \A table \in Orders(Bonded) : table \in Seq(Rows)
  <2> DEFINE f == [r \in records |-> BondRows(r)]
  <2>1. Bonded = UNION {f[r] : r \in records} /\ Bonded \subseteq Rows
    OBVIOUS
  <2>2. DOMAIN f = records /\ \A r \in records : IsFiniteSet(f[r])
    BY RowsFinite
  <2> HIDE DEF f, Bonded, Rows
  <2> QED
    BY <2>1, <2>2, TableOrders
<1>5. DOMAIN tables = 1..3 /\ \A i \in 1..3 : tables[i] \in Seq(Rows)
  <2> HIDE DEF Titled, Parties, Bonded, Rows
  <2>1. /\ DOMAIN tables = 1..3
        /\ tables[1] \in Orders(Titled) /\ tables[2] \in Orders(Parties)
        /\ tables[3] \in Orders(Bonded)
    BY DEF Tables, Titled, Parties, Bonded
  <2>2. tables[1] \in Seq(Rows) /\ tables[2] \in Seq(Rows) /\ tables[3] \in Seq(Rows)
    BY <1>2, <1>3, <1>4, <2>1
  <2>3. \A i \in 1..3 : i = 1 \/ i = 2 \/ i = 3
    OBVIOUS
  <2> QED
    BY <2>1, <2>2, <2>3
<1>6. rows \in Seq(records)
  BY OrdersCover
<1> DEFINE each == [i \in DOMAIN rows |-> MaterializeProperty(rows[i], tables)]
<1>7. Len(rows) \in Nat /\ DOMAIN rows = 1..Len(rows) /\ \A i \in 1..Len(rows) : rows[i] \in records
  BY <1>6, LenProperties, ElementOfSeq
<1>8. \A i \in 1..Len(rows) : MaterializeProperty(rows[i], tables) \in Scripts(records)
  BY <1>5, <1>7, MaterializeIsScript
<1>9. each \in [1..Len(rows) -> Scripts(records)]
  BY <1>7, <1>8
<1>10. each \in Seq(Scripts(records))
  BY <1>7, <1>9, SeqDef
<1>11. <<>> \in Scripts(records)
  BY NoStatementIsScript DEF FactScripts
<1>12. FlattenSeq(each) \in Scripts(records)
  BY <1>10, <1>11, ScriptsJoin, FlattenClosed
<1> QED
  BY <1>1, <1>12

-----------------------------------------------------------------------------
(***************************************************************************)
(* Every link is justified: what is left of a materialization links only   *)
(* what is there, or will be by then.                                      *)
(***************************************************************************)
LinksPrepared(t) ==
    \A j \in 1..Len(t) : t[j].op = "link" =>
        \/ core[t[j].property][t[j].fact.id] # "none"
        \/ \E i \in 1..(j - 1) : t[i].op = "upsert" /\ SameFact(t[i], t[j])

LeftToMaterialize ==
    /\ worker.todo \in Seq(StatementsOf(staged[worker.batch]))
    /\ LinkedAtOnce(worker.todo) /\ LinkedLast(worker.todo) /\ LinksPrepared(worker.todo)

FactsSound ==
    /\ \A b \in Batches : staged[b] \in SUBSET StagedRecords
    /\ quarantined \in [Batches -> SUBSET Keys]
    /\ core \in [Fingerprints -> [FactIds -> Values \cup {"none"}]]
    /\ links \subseteq Links
    /\ summaries \in [Fingerprints -> Summaries]
    /\ LinksAreJustified
    /\ worker.stage = 3 => LeftToMaterialize

\* The j-th statement will link fact f, whose value is v, to a record that states it:
\* at once, or with no property's row before it.
AnnouncedAt(t, j, f, v) ==
    /\ t[j].op = "link" /\ f = <<t[j].property, t[j].fact.id>> /\ v = t[j].fact.value
    /\ j = 1 \/ (t[j].fact.id = PropertyRow /\ \A k \in 1..(j - 1) : t[k].fact.id # PropertyRow)

\* The facts of core whose link comes.
Announced ==
    {f \in Fingerprints \X FactIds :
        worker.stage = 3 /\ \E j \in 1..Len(worker.todo) :
                                AnnouncedAt(worker.todo, j, f, core[f[1]][f[2]])}

\* The batches whose materialization was cut short.
CutShort == {b \in Batches : Status(b) = "failed" /\ progress[b].done = 2}

FactsTraced ==
    /\ IsFiniteSet({b \in Batches : Status(b) # "absent"})
    /\ IsFiniteSet(Unsourced \ Announced)
    /\ Cardinality(Unsourced \ Announced) <= 2 * Cardinality(CutShort)

\* The search model has what core has.
Searchable(fp) == summaries[fp] \in IF InCore(fp) THEN SummariesOf(fp) ELSE {NoSummary}

\* Batches are over before the next is submitted, nothing has a summary before it is
\* in core, and a refresh is done at once.
SearchFollows ==
    /\ \A a, b \in Batches : a < b /\ Status(b) # "absent" => Status(a) \in {"failed", "completed"}
    /\ \A fp \in Fingerprints : ~InCore(fp) => summaries[fp] = NoSummary
    /\ worker.stage = 4 =>
           \/ worker.todo = <<"refresh">>
           \/ worker.todo = <<>> /\ \A fp \in Fingerprints : Searchable(fp)
    /\ SearchAgreesWithCore

LEMMA TailShifts ==
    ASSUME NEW S, NEW t \in Seq(S), t # <<>>, NEW n, n = Len(t)
    PROVE  /\ n \in Nat \ {0} /\ Head(t) = t[1] /\ Head(t) \in S
           /\ Tail(t) \in Seq(S) /\ Len(Tail(t)) = n - 1
           /\ \A i \in 1..(n - 1) : i + 1 \in 1..n /\ Tail(t)[i] = t[i + 1]
<1>1. /\ Head(t) \in S /\ Tail(t) \in Seq(S) /\ Len(Tail(t)) = n - 1
      /\ \A i \in 1..Len(Tail(t)) : Tail(t)[i] = t[i + 1]
  BY HeadTailProperties
<1>2. n \in Nat /\ n # 0
  BY EmptySeq, LenProperties
<1>3. Head(t) = t[1]
  BY <1>1, <1>2
<1> QED
  BY <1>1, <1>2, <1>3

LEMMA LinkedTail ==
    ASSUME NEW S, NEW t \in Seq(S), t # <<>>, LinkedAtOnce(t), LinkedLast(t)
    PROVE  LinkedAtOnce(Tail(t)) /\ LinkedLast(Tail(t))
<1> DEFINE n == Len(t)
           rest == Tail(t)
<1>1. /\ n \in Nat \ {0} /\ Len(rest) = n - 1
      /\ \A i \in 1..(n - 1) : i + 1 \in 1..n /\ rest[i] = t[i + 1]
  BY TailShifts
<1> HIDE DEF rest, n
<1>2. LinkedAtOnce(rest)
  <2> SUFFICES ASSUME NEW i \in 1..(n - 1), rest[i].op = "upsert", rest[i].fact.id # PropertyRow
               PROVE  i < n - 1 /\ rest[i + 1] = LinkOf(rest[i])
    BY <1>1 DEF LinkedAtOnce
  <2>1. i + 1 < n /\ t[(i + 1) + 1] = LinkOf(t[i + 1])
    BY <1>1 DEF LinkedAtOnce, n
  <2>2. i + 1 \in 1..(n - 1)
    BY <1>1, <2>1
  <2> QED
    BY <1>1, <2>1, <2>2
<1>3. LinkedLast(rest)
  <2> SUFFICES ASSUME NEW i \in 1..(n - 1), rest[i].op = "upsert", rest[i].fact.id = PropertyRow
               PROVE  \E j \in (i + 1)..(n - 1) :
                          /\ rest[j] = LinkOf(rest[i])
                          /\ \A k \in (i + 1)..(j - 1) : rest[k].fact.id # PropertyRow
    BY <1>1 DEF LinkedLast
  <2>1. PICK j \in ((i + 1) + 1)..n :
            /\ t[j] = LinkOf(t[i + 1])
            /\ \A k \in ((i + 1) + 1)..(j - 1) : t[k].fact.id # PropertyRow
    BY <1>1 DEF LinkedLast, n
  <2>2. PICK h \in (i + 1)..(n - 1) : j = h + 1 /\ h \in 1..(n - 1)
    <3>1. j - 1 \in (i + 1)..(n - 1) /\ j = (j - 1) + 1 /\ j - 1 \in 1..(n - 1)
      BY <1>1, <2>1
    <3> QED
      BY <3>1
  <2>3. rest[h] = LinkOf(rest[i])
    BY <1>1, <2>1, <2>2
  <2>4. ASSUME NEW k \in (i + 1)..(h - 1) PROVE rest[k].fact.id # PropertyRow
    <3>1. k \in 1..(n - 1) /\ k + 1 \in ((i + 1) + 1)..(j - 1)
      BY <1>1, <2>2
    <3> QED
      BY <1>1, <2>1, <3>1
  <2> QED
    BY <2>3, <2>4
<1> QED
  BY <1>2, <1>3 DEF rest

LEMMA StatementType ==
    ASSUME NEW records, NEW s \in StatementsOf(records)
    PROVE  /\ s.op \in {"upsert", "link"} /\ s.property \in Fingerprints /\ s.key \in Keys
           /\ s.fact.id \in FactIds /\ s.fact.value \in Values
           /\ Backed(s, records)
BY DEF StatementsOf

LEMMA NoneIsNoValue == "none" \notin Values
BY DEF Values, Spellings, TitleStatuses, BondStatuses

\* What the records of a batch state of a link's fact.
States(records, l, v) ==
    \E r \in records : \E row \in StatedBy(r) :
        row.key = l.key /\ row.title = l.property[2] /\ row.fact.id = l.id /\ row.fact.value = v

LEMMA StatedMeans ==
    ASSUME NEW l
    PROVE  /\ \A v : v \in Stated(l) <=> States(staged[l.batch], l, v)
           /\ \A v : v \in Stated(l)' <=> States(staged'[l.batch], l, v)
<1> DEFINE Matching(records) ==
               {row \in UNION {StatedBy(r) : r \in records} :
                   row.key = l.key /\ row.title = l.property[2] /\ row.fact.id = l.id}
<1>1. Stated(l) = {row.fact.value : row \in Matching(staged[l.batch])}
  BY DEF Stated, StatedBy, PropertyRow
<1>2. Stated(l)' = {row.fact.value : row \in Matching(staged'[l.batch])}
  BY DEF Stated, StatedBy, PropertyRow
<1>3. ASSUME NEW records, NEW v
      PROVE  v \in {row.fact.value : row \in Matching(records)} <=> States(records, l, v)
  BY DEF States
<1> HIDE DEF Matching
<1> QED
  BY <1>1, <1>2, <1>3

\* Justified links stay justified while no staged record goes and no fact either.
LEMMA JustifiedStay ==
    ASSUME LinksAreJustified, links \subseteq Links, NEW l \in links,
           \A b \in Batches : staged[b] \subseteq staged'[b],
           \A fp \in Fingerprints, id \in FactIds : core[fp][id] # "none" => core'[fp][id] # "none"
    PROVE  /\ core'[l.property][l.id] # "none"
           /\ Stated(l)' # {}
           /\ \E r \in staged'[l.batch] : PropertyFingerprint(r) = l.property
<1>1. l.batch \in Batches /\ l.property \in Fingerprints /\ l.id \in FactIds
  BY DEF Links
<1>2. PICK v : States(staged[l.batch], l, v)
  BY StatedMeans DEF LinksAreJustified
<1>3. States(staged'[l.batch], l, v)
  BY <1>1, <1>2 DEF States
<1>4. v \in Stated(l)'
  BY <1>3, StatedMeans
<1> QED
  BY <1>1, <1>4 DEF LinksAreJustified

LEMMA FactsKept ==
    ASSUME FactsSound, UNCHANGED <<staged, quarantined, core, links, summaries>>,
           worker'.stage # 3 \/ worker' = worker
    PROVE  FactsSound'
<1>1. LinksAreJustified'
  BY DEF FactsSound, LinksAreJustified, Stated
<1>2. worker'.stage = 3 => LeftToMaterialize'
  BY DEF FactsSound, LeftToMaterialize, LinksPrepared
<1> QED
  BY <1>1, <1>2 DEF FactsSound

\* What an upsert does to core.
LEMMA UpsertWrites ==
    ASSUME FactsSound, NEW records, NEW s \in StatementsOf(records),
           core' = [core EXCEPT ![s.property][s.fact.id] = Upserted(@, s.fact)]
    PROVE  /\ core' \in [Fingerprints -> [FactIds -> Values \cup {"none"}]]
           /\ core'[s.property][s.fact.id] = Upserted(core[s.property][s.fact.id], s.fact)
           /\ core'[s.property][s.fact.id] # "none"
           /\ \A fp \in Fingerprints, id \in FactIds :
                  fp # s.property \/ id # s.fact.id => core'[fp][id] = core[fp][id]
           /\ \A fp \in Fingerprints, id \in FactIds : core[fp][id] # "none" => core'[fp][id] # "none"
<1> DEFINE fp0 == s.property
           id0 == s.fact.id
           v == Upserted(core[fp0][id0], s.fact)
<1>1. fp0 \in Fingerprints /\ id0 \in FactIds /\ s.fact.value \in Values
  BY StatementType
<1>2. core \in [Fingerprints -> [FactIds -> Values \cup {"none"}]]
  BY DEF FactsSound
<1>3. v \in Values
  BY <1>1, <1>2 DEF Upserted
<1> DEFINE facts == [core[fp0] EXCEPT ![id0] = v]
<1>4. core' = [core EXCEPT ![fp0] = facts]
  OBVIOUS
<1> HIDE DEF v, fp0, id0
<1>5. /\ facts \in [FactIds -> Values \cup {"none"}] /\ facts[id0] = v
      /\ \A id \in FactIds : id # id0 => facts[id] = core[fp0][id]
  BY <1>1, <1>2, <1>3
<1> HIDE DEF facts
<1>6. /\ core' \in [Fingerprints -> [FactIds -> Values \cup {"none"}]]
      /\ core'[fp0][id0] = v
      /\ \A fp \in Fingerprints, id \in FactIds : fp # fp0 \/ id # id0 => core'[fp][id] = core[fp][id]
  BY <1>1, <1>2, <1>4, <1>5
<1>7. v # "none"
  BY <1>3, NoneIsNoValue
<1>8. \A fp \in Fingerprints, id \in FactIds : core[fp][id] # "none" => core'[fp][id] # "none"
  BY <1>6, <1>7
<1> QED
  BY <1>6, <1>7, <1>8 DEF v, fp0, id0

\* One statement of a materialization.
LEMMA MaterializeKeepsSound ==
    ASSUME FactsSound, WorkerFollowsProgress, Materialize
    PROVE  FactsSound'
<1>0. PICK t, rest, s, n :
          t = worker.todo /\ rest = Tail(t) /\ s = Head(t) /\ n = Len(t)
  OBVIOUS
<1>1. /\ GoOn /\ At(3) /\ UNCHANGED <<progress, staged, quarantined, summaries>>
  BY DEF Materialize
<1>2. PICK b \in Batches : b = worker.batch
  BY <1>1, GoesOn
<1>3. /\ worker.stage = 3 /\ t # <<>> /\ worker'.batch = b /\ worker'.stage = 3
      /\ worker'.todo = rest
  BY <1>0, <1>1, <1>2, GoesOn
<1> DEFINE link == [property |-> s.property, batch |-> b, key |-> s.key, id |-> s.fact.id]
<1>4. \/ /\ s.op = "upsert" /\ links' = links
         /\ core' = [core EXCEPT ![s.property][s.fact.id] = Upserted(@, s.fact)]
      \/ /\ s.op = "link" /\ links' = links \cup {link} /\ core' = core
  BY <1>0, <1>2 DEF Materialize
<1>5. t \in Seq(StatementsOf(staged[b])) /\ LinkedAtOnce(t) /\ LinkedLast(t) /\ LinksPrepared(t)
  BY <1>0, <1>2, <1>3 DEF FactsSound, LeftToMaterialize
<1>6. /\ n \in Nat \ {0} /\ s = t[1] /\ s \in StatementsOf(staged[b])
      /\ rest \in Seq(StatementsOf(staged[b])) /\ Len(rest) = n - 1
      /\ \A i \in 1..(n - 1) : i + 1 \in 1..n /\ rest[i] = t[i + 1] /\ rest[i] \in StatementsOf(staged[b])
  <2>1. /\ n \in Nat \ {0} /\ Head(t) = t[1] /\ Head(t) \in StatementsOf(staged[b])
        /\ Tail(t) \in Seq(StatementsOf(staged[b])) /\ Len(Tail(t)) = n - 1
        /\ \A i \in 1..(n - 1) : i + 1 \in 1..n /\ Tail(t)[i] = t[i + 1]
    <3>1. t \in Seq(StatementsOf(staged[b])) /\ t # <<>> /\ n = Len(t)
      BY <1>0, <1>3, <1>5
    <3> QED
      BY <3>1, TailShifts
  <2>2. \A i \in 1..(n - 1) : rest[i] \in StatementsOf(staged[b])
    BY <1>0, <2>1, ElementOfSeq
  <2> QED
    BY <1>0, <2>1, <2>2
<1>7. LinkedAtOnce(rest) /\ LinkedLast(rest)
  BY <1>0, <1>3, <1>5, LinkedTail
<1>8. /\ s.property \in Fingerprints /\ s.key \in Keys /\ s.fact.id \in FactIds
      /\ s.fact.value \in Values /\ Backed(s, staged[b])
  BY <1>6, StatementType
<1>9. /\ core' \in [Fingerprints -> [FactIds -> Values \cup {"none"}]]
      /\ s.op = "upsert" => core'[s.property][s.fact.id] # "none"
      /\ \A fp \in Fingerprints, id \in FactIds : core[fp][id] # "none" => core'[fp][id] # "none"
  <2>1. CASE s.op = "upsert"
    <3>1. core' = [core EXCEPT ![s.property][s.fact.id] = Upserted(@, s.fact)]
      BY <1>4, <2>1
    <3> QED
      BY <1>6, <3>1, UpsertWrites
  <2>2. CASE s.op = "link"
    BY <1>4, <2>2 DEF FactsSound
  <2> QED
    BY <1>4, <2>1, <2>2
<1>10. LinksPrepared(rest)'
  <2> SUFFICES ASSUME NEW j \in 1..(n - 1), rest[j].op = "link",
                      core'[rest[j].property][rest[j].fact.id] = "none"
               PROVE  \E i \in 1..(j - 1) : rest[i].op = "upsert" /\ SameFact(rest[i], rest[j])
    BY <1>6 DEF LinksPrepared
  <2>1. rest[j] = t[j + 1] /\ j + 1 \in 1..n /\ rest[j] \in StatementsOf(staged[b])
    BY <1>6
  <2>2. rest[j].property \in Fingerprints /\ rest[j].fact.id \in FactIds
    BY <2>1, StatementType
  <2>3. core[rest[j].property][rest[j].fact.id] = "none"
    BY <1>9, <2>2
  <2>4. PICK i \in 1..j : t[i].op = "upsert" /\ SameFact(t[i], t[j + 1])
    BY <1>0, <1>5, <2>1, <2>3 DEF LinksPrepared
  <2>5. i # 1
    BY <1>6, <1>9, <2>1, <2>4 DEF SameFact
  <2>6. i - 1 \in 1..(j - 1) /\ i - 1 \in 1..(n - 1) /\ (i - 1) + 1 = i
    BY <1>6, <2>5
  <2> QED
    BY <1>6, <2>1, <2>4, <2>6
<1>11. links' \subseteq Links
  <2>1. link \in Links
    BY <1>8 DEF Links
  <2> QED
    BY <1>4, <2>1 DEF FactsSound
<1>12. LinksAreJustified'
  <2> SUFFICES ASSUME NEW l \in links'
               PROVE  /\ core'[l.property][l.id] # "none"
                      /\ Stated(l)' # {}
                      /\ \E r \in staged'[l.batch] : PropertyFingerprint(r) = l.property
    BY DEF LinksAreJustified
  <2>1. CASE l \in links
    BY <1>1, <1>9, <2>1, JustifiedStay DEF FactsSound
  <2>2. CASE l \notin links
    <3>1. s.op = "link" /\ l = link /\ core' = core
      BY <1>4, <2>2
    <3>2. l.property = s.property /\ l.batch = b /\ l.key = s.key /\ l.id = s.fact.id
      BY <3>1
    <3>3. core[s.property][s.fact.id] # "none"
      <4>1. 1 \in 1..n /\ ~\E i \in 1..(1 - 1) : TRUE
        BY <1>6
      <4> QED
        BY <1>0, <1>5, <1>6, <3>1, <4>1 DEF LinksPrepared
    <3>4. States(staged'[l.batch], l, s.fact.value)
      BY <1>1, <1>8, <3>2 DEF States, Backed
    <3>5. s.fact.value \in Stated(l)'
      BY <3>4, StatedMeans
    <3>6. \E r \in staged'[l.batch] : PropertyFingerprint(r) = l.property
      BY <1>1, <1>8, <3>2 DEF Backed
    <3> QED
      BY <3>1, <3>2, <3>3, <3>5, <3>6
  <2> QED
    BY <2>1, <2>2
<1>13. LeftToMaterialize'
  <2>1. worker'.todo = rest /\ staged'[worker'.batch] = staged[b]
    BY <1>1, <1>3
  <2> QED
    BY <1>6, <1>7, <1>10, <2>1 DEF LeftToMaterialize
<1> QED
  BY <1>1, <1>9, <1>11, <1>12, <1>13 DEF FactsSound

\* A batch that takes up its materialization has a script to follow.
LEMMA ScriptTakenUp ==
    ASSUME FactsSound, RecordsAccounted, NEW b \in Batches, progress[b].done = 2, NEW todo \in Todo(b, 3)
    PROVE  /\ todo \in Seq(StatementsOf(staged[b]))
           /\ LinkedAtOnce(todo) /\ LinkedLast(todo) /\ LinksPrepared(todo)
<1>1. IsFiniteSet(staged[b])
  <2> DEFINE kept == {q \in raw[b] : Normalizes(q)}
             f == [q \in kept |-> Normalized(q)]
  <2>1. IsFiniteSet(raw[b]) /\ staged[b] = {Normalized(q) : q \in kept}
    BY DEF RecordsAccounted, BatchAccounted, Accounts
  <2>2. IsFiniteSet(kept)
    BY <2>1, FS_Subset
  <2>3. staged[b] = {f[q] : q \in kept} /\ DOMAIN f = kept
    BY <2>1
  <2> HIDE DEF f, kept
  <2> QED
    BY <2>2, <2>3, FiniteImage
<1>2. staged[b] \in SUBSET StagedRecords
  BY DEF FactsSound
<1>3. todo \in Scripts(staged[b])
  <2>1. CASE StageReadsWork
    BY <1>1, <1>2, <2>1, MaterializationsAreScripts DEF Todo
  <2>2. CASE ~StageReadsWork
    <3>1. todo = <<>>
      BY <2>2 DEF Todo
    <3> QED
      BY <3>1, NoStatementIsScript DEF FactScripts
  <2> QED
    BY <2>1, <2>2
<1>4. LinksPrepared(todo)
  BY <1>3 DEF LinksPrepared, Scripts, UpsertedFirst
<1> QED
  BY <1>3, <1>4 DEF Scripts

\* Core, its links and what a materialization has left to do fit together, in whatever
\* order the rows are read and wherever a run is cut short (materialize::run).
THEOREM FactsAreSound == Spec => []FactsSound
<1>1. Init => FactsSound
  <2> SUFFICES ASSUME Init
               PROVE  FactsSound
    OBVIOUS
  <2>1. NoSummary \in Summaries
    BY DEF NoSummary, Summaries
  <2>2. worker.stage = 0
    BY DEF Init, Idle
  <2> QED
    BY <2>1, <2>2 DEF Init, FactsSound, LinksAreJustified
<1>2. FactsSound /\ RecordsAccounted /\ WorkerFollowsProgress /\ [Next]_vars => FactsSound'
  <2> SUFFICES ASSUME FactsSound, RecordsAccounted, WorkerFollowsProgress, [Next]_vars
               PROVE  FactsSound'
    OBVIOUS
  <2>1. ASSUME NEW b \in Batches, Submit(b)
        PROVE  FactsSound'
    BY <2>1, FactsKept DEF Submit
  <2>2. ASSUME NEW b \in Batches, BeginStage(b)
        PROVE  FactsSound'
    <3>1. /\ UNCHANGED <<staged, quarantined, core, links, summaries>>
          /\ progress[b].done \in 0..3
      BY <2>2 DEF BeginStage, Active, WorkerFollowsProgress, Status
    <3>2. PICK stage \in 1..4 : stage = progress[b].done + 1
      BY <3>1
    <3>3. PICK todo \in Todo(b, stage) : worker' = [batch |-> b, stage |-> stage, todo |-> todo]
      BY <2>2, <3>2 DEF BeginStage
    <3>4. worker'.batch = b /\ worker'.stage = stage /\ worker'.todo = todo
      BY <3>3
    <3>5. CASE stage # 3
      BY <3>1, <3>4, <3>5, FactsKept
    <3>6. CASE stage = 3
      <4>1. /\ todo \in Seq(StatementsOf(staged[b]))
            /\ LinkedAtOnce(todo) /\ LinkedLast(todo) /\ LinksPrepared(todo)
        <5>1. progress[b].done = 2
          BY <3>1, <3>2, <3>6
        <5> QED
          BY <3>6, <5>1, ScriptTakenUp
      <4>2. LinksPrepared(todo)'
        BY <3>1, <4>1 DEF LinksPrepared
      <4>3. LeftToMaterialize'
        BY <3>1, <3>4, <4>1, <4>2 DEF LeftToMaterialize
      <4>4. LinksAreJustified'
        BY <3>1 DEF FactsSound, LinksAreJustified, Stated
      <4> QED
        BY <3>1, <4>3, <4>4 DEF FactsSound
    <3> QED
      BY <3>5, <3>6
  <2>3. CASE InsertRawRecord
    <3>1. GoOn /\ At(1) /\ UNCHANGED <<staged, quarantined, core, links, summaries>>
      BY <2>3 DEF InsertRawRecord
    <3> QED
      BY <3>1, GoesOn, FactsKept
  <2>4. CASE NormalizeRecord
    <3>1. GoOn /\ At(2) /\ UNCHANGED <<raw, core, links, summaries>>
      BY <2>4 DEF NormalizeRecord
    <3>2. PICK b \in Batches : b = worker.batch
      BY <3>1, GoesOn
    <3>3. worker.stage = 2 /\ worker.todo # <<>> /\ worker'.stage = 2
      BY <3>1, GoesOn
    <3> DEFINE r == Head(worker.todo)
    <3>4. r \in Records
      <4>1. worker.todo \in Seq(raw[b])
        BY <3>2, <3>3 DEF RecordsAccounted, BatchAccounted, Normalizing, NoneMissing
      <4>2. r \in raw[b]
        BY <3>3, <4>1, HeadAndTail
      <4> QED
        BY <4>2 DEF RecordsAccounted
    <3>5. \/ /\ Normalizes(r) /\ quarantined' = quarantined
             /\ staged' = [staged EXCEPT ![b] = @ \cup {Normalized(r)}]
          \/ /\ ~Normalizes(r) /\ staged' = staged
             /\ quarantined' = [quarantined EXCEPT ![b] = @ \cup {r.key}]
      BY <2>4, <3>2 DEF NormalizeRecord
    <3> HIDE DEF r
    <3>6. r.key \in Keys /\ (Normalizes(r) => Normalized(r) \in StagedRecords)
      BY <3>4 DEF Records, StagedRecords
    <3>7. \A c \in Batches : staged[c] \subseteq staged'[c] /\ staged'[c] \in SUBSET StagedRecords
      BY <3>5, <3>6 DEF FactsSound, RecordsAccounted
    <3>8. quarantined' \in [Batches -> SUBSET Keys]
      BY <3>5, <3>6 DEF FactsSound
    <3>9. LinksAreJustified'
      <4> SUFFICES ASSUME NEW l \in links
                   PROVE  /\ core'[l.property][l.id] # "none"
                          /\ Stated(l)' # {}
                          /\ \E q \in staged'[l.batch] : PropertyFingerprint(q) = l.property
        BY <3>1 DEF LinksAreJustified
      <4> QED
        BY <3>1, <3>7, JustifiedStay DEF FactsSound
    <3> QED
      BY <3>1, <3>3, <3>7, <3>8, <3>9 DEF FactsSound
  <2>5. CASE Materialize
    BY <2>5, MaterializeKeepsSound
  <2>6. CASE Refresh
    <3>1. GoOn /\ At(4) /\ UNCHANGED <<staged, quarantined, core, links>>
      BY <2>6 DEF Refresh
    <3>2. summaries' \in [Fingerprints -> Summaries]
      BY <2>6 DEF Refresh
    <3>3. LinksAreJustified'
      BY <3>1 DEF FactsSound, LinksAreJustified, Stated
    <3>4. worker'.stage = 4
      BY <3>1, GoesOn
    <3> QED
      BY <3>1, <3>2, <3>3, <3>4 DEF FactsSound
  <2>7. CASE EndStage
    <3>1. UNCHANGED <<staged, quarantined, core, links, summaries>> /\ worker'.stage = 0
      BY <2>7 DEF EndStage, Idle
    <3> QED
      BY <3>1, FactsKept
  <2>8. CASE FailStage
    <3>1. UNCHANGED <<staged, quarantined, core, links, summaries>> /\ worker'.stage = 0
      BY <2>8 DEF FailStage, Idle
    <3> QED
      BY <3>1, FactsKept
  <2>9. CASE UNCHANGED vars
    BY <2>9, FactsKept DEF vars
  <2> QED
    BY <2>1, <2>2, <2>3, <2>4, <2>5, <2>6, <2>7, <2>8, <2>9 DEF Next
<1> QED
  BY <1>1, <1>2, RecordsAreAccounted, WorkerFollows, PTL DEF Spec

\* The shape of every row of the raw, stage, core and read schemas, and of the worker
\* (worker::run), for any files.
THEOREM TypeCorrect == Spec => []TypeOK
<1>1. FactsSound /\ RecordsAccounted /\ WorkerFollowsProgress => TypeOK
  <2> SUFFICES ASSUME FactsSound, RecordsAccounted, WorkerFollowsProgress
               PROVE  TypeOK
    OBVIOUS
  <2>1. ASSUME NEW b \in Batches, NEW r \in staged[b]
        PROVE  /\ r.key \in Keys /\ r.title \in Titles
               /\ r.office \in [name : Offices, spelling : Spellings]
    <3>1. r \in StagedRecords
      BY DEF FactsSound
    <3> QED
      BY <3>1, StagedType
  <2> QED
    BY <2>1 DEF FactsSound, RecordsAccounted, WorkerFollowsProgress, TypeOK, Statuses, Stages
<1> QED
  BY <1>1, FactsAreSound, RecordsAreAccounted, WorkerFollows, PTL

\* A link never names a fact that is not there, nor a record that does not state it, nor
\* a batch that has no record of the property (materialize::run).
THEOREM EveryLinkIsJustified == Spec => []LinksAreJustified
<1>1. FactsSound => LinksAreJustified
  BY DEF FactsSound
<1> QED
  BY <1>1, FactsAreSound, PTL

-----------------------------------------------------------------------------
(***************************************************************************)
(* Every fact has a source: a materialization owes two at most, its head   *)
(* and its property's row, and leaves no more when it is cut short.        *)
(***************************************************************************)
LEMMA AnnouncedFew ==
    ASSUME FactsSound
    PROVE  IsFiniteSet(Announced) /\ Cardinality(Announced) <= 2
<1>0. PICK t, n : t = worker.todo /\ n = Len(t)
  OBVIOUS
<1>1. CASE worker.stage # 3
  <2>1. Announced = {}
    BY <1>1 DEF Announced
  <2> QED
    BY <2>1, FS_EmptySet
<1>2. CASE worker.stage = 3
  <2>1. n \in Nat
    BY <1>0, <1>2, LenProperties DEF FactsSound, LeftToMaterialize
  <2> DEFINE first == <<t[1].property, t[1].fact.id>>
  <2>2. ASSUME NEW f \in Announced, NEW g \in Announced, f # first, g # first
        PROVE  f = g
    <3>1. PICK i \in 1..n : AnnouncedAt(t, i, f, core[f[1]][f[2]])
      BY <1>0 DEF Announced
    <3>2. PICK j \in 1..n : AnnouncedAt(t, j, g, core[g[1]][g[2]])
      BY <1>0 DEF Announced
    <3>3. i # 1 /\ j # 1
      BY <2>2, <3>1, <3>2 DEF AnnouncedAt
    <3>4. /\ t[i].fact.id = PropertyRow /\ \A k \in 1..(i - 1) : t[k].fact.id # PropertyRow
          /\ t[j].fact.id = PropertyRow /\ \A k \in 1..(j - 1) : t[k].fact.id # PropertyRow
      BY <3>1, <3>2, <3>3 DEF AnnouncedAt
    <3>5. ~(i < j) /\ ~(j < i)
      BY <3>4
    <3>6. i = j
      BY <2>1, <3>5
    <3> QED
      BY <3>1, <3>2, <3>6 DEF AnnouncedAt
  <2>3. \E last : \A f \in Announced : f = first \/ f = last
    <3> HIDE DEF first
    <3>1. CASE \A f \in Announced : f = first
      BY <3>1
    <3>2. CASE \E f \in Announced : f # first
      BY <2>2, <3>2
    <3> QED
      BY <3>1, <3>2
  <2> HIDE DEF first
  <2>4. PICK last : \A f \in Announced : f = first \/ f = last
    BY <2>3
  <2>5. IsFiniteSet({first}) /\ Cardinality({first}) = 1
    BY FS_Singleton
  <2>6. IsFiniteSet({first} \cup {last}) /\ Cardinality({first} \cup {last}) <= 2
    BY <2>5, FS_AddElement
  <2>7. Announced \in SUBSET ({first} \cup {last})
    BY <2>4
  <2>8. /\ IsFiniteSet(Announced)
        /\ Cardinality(Announced) <= Cardinality({first} \cup {last})
    BY <2>6, <2>7, FS_Subset
  <2>9. Cardinality(Announced) \in Nat /\ Cardinality({first} \cup {last}) \in Nat
    BY <2>6, <2>8, FS_CardinalityType
  <2> QED
    BY <2>6, <2>8, <2>9
<1> QED
  BY <1>1, <1>2

\* What a step announced later is still announced when the head is done.
LEMMA AnnouncedShifts ==
    ASSUME NEW S, NEW t \in Seq(S), t # <<>>, NEW j \in 2..Len(t), NEW f, NEW v,
           AnnouncedAt(t, j, f, v)
    PROVE  AnnouncedAt(Tail(t), j - 1, f, v)
<1> DEFINE n == Len(t)
           rest == Tail(t)
<1>1. n \in Nat \ {0} /\ \A i \in 1..(n - 1) : i + 1 \in 1..n /\ rest[i] = t[i + 1]
  BY TailShifts
<1>2. j \in 2..n
  OBVIOUS
<1> HIDE DEF n, rest
<1>3. j - 1 \in 1..(n - 1) /\ (j - 1) + 1 = j
  BY <1>1, <1>2
<1>4. rest[j - 1] = t[j]
  BY <1>1, <1>3
<1>5. ASSUME j - 1 # 1, NEW k \in 1..((j - 1) - 1)
      PROVE  rest[k].fact.id # PropertyRow
  <2>1. k \in 1..(n - 1) /\ k + 1 \in 1..(j - 1) /\ j # 1
    BY <1>1, <1>2, <1>3
  <2> QED
    BY <1>1, <2>1 DEF AnnouncedAt
<1>6. j # 1
  BY <1>2
<1>7. AnnouncedAt(rest, j - 1, f, v)
  BY <1>4, <1>5, <1>6 DEF AnnouncedAt
<1> QED
  BY <1>7 DEF rest

\* A fact that is upserted is announced by what comes next.
LEMMA UpsertAnnounces ==
    ASSUME NEW records, NEW t \in Seq(StatementsOf(records)), t # <<>>,
           LinkedAtOnce(t), LinkedLast(t), t[1].op = "upsert"
    PROVE  \E j \in 1..Len(Tail(t)) :
               AnnouncedAt(Tail(t), j, <<t[1].property, t[1].fact.id>>, t[1].fact.value)
<1> DEFINE n == Len(t)
           rest == Tail(t)
           f == <<t[1].property, t[1].fact.id>>
<1>1. /\ n \in Nat \ {0} /\ Len(rest) = n - 1
      /\ \A i \in 1..(n - 1) : i + 1 \in 1..n /\ rest[i] = t[i + 1]
  BY TailShifts
<1>2. 1 \in 1..n /\ t[1] \in StatementsOf(records)
  BY <1>1, ElementOfSeq
<1>3. /\ LinkOf(t[1]).op = "link" /\ LinkOf(t[1]).property = t[1].property
      /\ LinkOf(t[1]).fact = t[1].fact
  BY <1>2 DEF LinkOf, StatementsOf
<1> HIDE DEF rest
<1>4. CASE t[1].fact.id # PropertyRow
  <2>1. 1 < n /\ t[1 + 1] = LinkOf(t[1])
    BY <1>2, <1>4 DEF LinkedAtOnce
  <2>2. 1 \in 1..(n - 1) /\ rest[1] = LinkOf(t[1])
    BY <1>1, <2>1
  <2>3. AnnouncedAt(rest, 1, f, t[1].fact.value)
    BY <1>3, <2>2 DEF AnnouncedAt
  <2> QED
    BY <1>1, <2>2, <2>3 DEF rest
<1>5. CASE t[1].fact.id = PropertyRow
  <2>1. PICK j \in (1 + 1)..n :
            t[j] = LinkOf(t[1]) /\ \A k \in (1 + 1)..(j - 1) : t[k].fact.id # PropertyRow
    BY <1>2, <1>5 DEF LinkedLast
  <2>2. PICK h \in 1..(n - 1) : j = h + 1
    <3>1. j - 1 \in 1..(n - 1) /\ j = (j - 1) + 1
      BY <1>1, <2>1
    <3> QED
      BY <3>1
  <2>3. rest[h] = LinkOf(t[1])
    BY <1>1, <2>1, <2>2
  <2>4. ASSUME NEW k \in 1..(h - 1) PROVE rest[k].fact.id # PropertyRow
    <3>1. k \in 1..(n - 1) /\ k + 1 \in (1 + 1)..(j - 1)
      BY <1>1, <2>2
    <3> QED
      BY <1>1, <2>1, <3>1
  <2>5. AnnouncedAt(rest, h, f, t[1].fact.value)
    BY <1>3, <1>5, <2>3, <2>4 DEF AnnouncedAt
  <2> QED
    BY <1>1, <2>2, <2>5 DEF rest
<1> QED
  BY <1>4, <1>5

LEMMA StatedGrows ==
    ASSUME NEW l, l.batch \in Batches, \A b \in Batches : staged[b] \subseteq staged'[b]
    PROVE  Stated(l) \subseteq Stated(l)'
<1> SUFFICES ASSUME NEW v \in Stated(l)
             PROVE  v \in Stated(l)'
  OBVIOUS
<1>1. States(staged[l.batch], l, v)
  BY StatedMeans
<1>2. States(staged'[l.batch], l, v)
  BY <1>1 DEF States
<1> QED
  BY <1>2, StatedMeans

\* One statement leaves no fact without a source but one it announces.
LEMMA MaterializeTraces ==
    ASSUME FactsSound, WorkerFollowsProgress, Materialize,
           NEW f \in Unsourced', f \notin Announced'
    PROVE  f \in Unsourced /\ f \notin Announced
<1>0. PICK t, rest, s, n :
          t = worker.todo /\ rest = Tail(t) /\ s = t[1] /\ n = Len(t)
  OBVIOUS
<1>1. /\ GoOn /\ At(3) /\ UNCHANGED <<progress, staged, quarantined, summaries>>
  BY DEF Materialize
<1>2. PICK b \in Batches : b = worker.batch
  BY <1>1, GoesOn
<1>3. worker.stage = 3 /\ t # <<>> /\ worker'.stage = 3 /\ worker'.todo = rest
  BY <1>0, <1>1, <1>2, GoesOn
<1>4. t \in Seq(StatementsOf(staged[b])) /\ LinkedAtOnce(t) /\ LinkedLast(t)
  BY <1>0, <1>2, <1>3 DEF FactsSound, LeftToMaterialize
<1>5. /\ n \in Nat \ {0} /\ Head(t) = t[1] /\ Head(t) \in StatementsOf(staged[b])
      /\ Len(Tail(t)) = n - 1
  BY <1>0, <1>3, <1>4, TailShifts
<1>6. s \in StatementsOf(staged[b]) /\ Len(rest) = n - 1
  BY <1>0, <1>5
<1> DEFINE link == [property |-> s.property, batch |-> b, key |-> s.key, id |-> s.fact.id]
<1>7. \/ /\ s.op = "upsert" /\ links' = links
         /\ core' = [core EXCEPT ![s.property][s.fact.id] = Upserted(@, s.fact)]
      \/ /\ s.op = "link" /\ links' = links \cup {link} /\ core' = core
  BY <1>0, <1>2, <1>5 DEF Materialize
<1>8. /\ s.property \in Fingerprints /\ s.fact.id \in FactIds /\ s.fact.value \in Values
      /\ Backed(s, staged[b])
  BY <1>6, StatementType
<1>9. /\ f \in Fingerprints \X FactIds /\ core'[f[1]][f[2]] # "none"
      /\ \A l \in links' : l.property = f[1] /\ l.id = f[2] => core'[f[1]][f[2]] \notin Stated(l)'
  BY DEF Unsourced
<1> DEFINE at == <<s.property, s.fact.id>>
<1>10. f # at => core'[f[1]][f[2]] = core[f[1]][f[2]]
  <2> SUFFICES ASSUME f # at
               PROVE  core'[f[1]][f[2]] = core[f[1]][f[2]]
    OBVIOUS
  <2>1. f[1] # s.property \/ f[2] # s.fact.id
    BY <1>9
  <2>2. f[1] \in Fingerprints /\ f[2] \in FactIds
    BY <1>9
  <2>3. CASE s.op = "link"
    BY <1>7, <2>3
  <2>4. CASE s.op = "upsert"
    <3>1. core' = [core EXCEPT ![s.property][s.fact.id] = Upserted(@, s.fact)]
      BY <1>7, <2>4
    <3>2. \A fp \in Fingerprints, id \in FactIds :
              fp # s.property \/ id # s.fact.id => core'[fp][id] = core[fp][id]
      BY <1>6, <3>1, UpsertWrites
    <3> QED
      BY <2>1, <2>2, <3>2
  <2> QED
    BY <1>7, <2>3, <2>4
<1>11. \A j \in 1..(n - 1) : ~AnnouncedAt(rest, j, f, core'[f[1]][f[2]])
  BY <1>3, <1>6, <1>9 DEF Announced
<1>12. f \notin Announced
  <2> SUFFICES ASSUME NEW j \in 1..n, AnnouncedAt(t, j, f, core[f[1]][f[2]])
               PROVE  FALSE
    BY <1>0 DEF Announced
  <2>1. core'[f[1]][f[2]] = core[f[1]][f[2]]
    <3>1. CASE s.op = "link"
      BY <1>7, <3>1
    <3>2. CASE s.op = "upsert"
      <4>1. j # 1 /\ 1 \in 1..(j - 1)
        BY <1>0, <1>5, <3>2 DEF AnnouncedAt
      <4>2. f[2] = PropertyRow /\ s.fact.id # PropertyRow
        BY <1>0, <4>1 DEF AnnouncedAt
      <4> QED
        BY <1>10, <4>2
    <3> QED
      BY <1>7, <3>1, <3>2
  <2>2. CASE j # 1
    <3>1. j \in 2..Len(t) /\ j - 1 \in 1..(n - 1)
      BY <1>0, <1>5, <2>2
    <3>2. AnnouncedAt(rest, j - 1, f, core[f[1]][f[2]])
      BY <1>0, <1>3, <1>4, <3>1, AnnouncedShifts
    <3> QED
      BY <1>11, <2>1, <3>1, <3>2
  <2>3. CASE j = 1
    <3>1. s.op = "link" /\ f = at /\ core[f[1]][f[2]] = s.fact.value
      BY <1>0, <2>3 DEF AnnouncedAt
    <3>2. link \in links' /\ link.property = f[1] /\ link.id = f[2] /\ link.batch = b /\ link.key = s.key
      BY <1>7, <3>1
    <3>3. States(staged'[link.batch], link, s.fact.value)
      BY <1>1, <1>8, <3>1, <3>2 DEF States, Backed
    <3>4. s.fact.value \in Stated(link)'
      <4> HIDE DEF link
      <4> QED
        BY <3>3, StatedMeans
    <3> QED
      BY <1>9, <2>1, <3>1, <3>2, <3>4
  <2> QED
    BY <2>2, <2>3
<1>13. core'[f[1]][f[2]] = core[f[1]][f[2]]
  <2> SUFFICES ASSUME f = at, s.op = "upsert", core'[f[1]][f[2]] # core[f[1]][f[2]]
               PROVE  FALSE
    BY <1>7, <1>10
  <2>1. core'[s.property][s.fact.id] = Upserted(core[s.property][s.fact.id], s.fact)
    BY <1>6, <1>7, UpsertWrites
  <2>2. core'[f[1]][f[2]] = s.fact.value
    BY <2>1 DEF Upserted
  <2>3. \E j \in 1..Len(rest) : AnnouncedAt(rest, j, f, s.fact.value)
    BY <1>0, <1>3, <1>4, UpsertAnnounces
  <2> QED
    BY <1>6, <1>11, <2>2, <2>3
<1>14. ASSUME NEW l \in links, l.property = f[1], l.id = f[2]
       PROVE  core[f[1]][f[2]] \notin Stated(l)
  <2>1. l \in links'
    BY <1>7
  <2>2. l.batch \in Batches
    BY DEF FactsSound, Links
  <2>3. Stated(l) \subseteq Stated(l)'
    BY <1>1, <2>2, StatedGrows
  <2> QED
    BY <1>9, <1>13, <1>14, <2>1, <2>3
<1> QED
  BY <1>9, <1>12, <1>13, <1>14 DEF Unsourced

\* No more facts without a source than before, and no batch cut short more or less.
LEMMA TracesKept ==
    ASSUME FactsTraced, (Unsourced \ Announced)' \subseteq Unsourced \ Announced,
           CutShort' = CutShort, IsFiniteSet({b \in Batches : Status(b) # "absent"})'
    PROVE  FactsTraced'
<1> DEFINE D == Unsourced \ Announced
<1>1. IsFiniteSet(D) /\ Cardinality(D) <= 2 * Cardinality(CutShort)
  BY DEF FactsTraced
<1>2. CutShort \in SUBSET {b \in Batches : Status(b) # "absent"}
  BY DEF CutShort
<1>3. IsFiniteSet(CutShort)
  BY <1>2, FS_Subset DEF FactsTraced
<1> PICK E : E = D'
  OBVIOUS
<1>4. E \in SUBSET D
  OBVIOUS
<1> HIDE DEF D
<1>5. IsFiniteSet(E) /\ Cardinality(E) <= Cardinality(D)
  BY <1>1, <1>4, FS_Subset
<1>6. Cardinality(E) \in Nat /\ Cardinality(D) \in Nat /\ Cardinality(CutShort) \in Nat
  BY <1>1, <1>3, <1>5, FS_CardinalityType
<1>7. Cardinality(E) <= 2 * Cardinality(CutShort)
  BY <1>1, <1>5, <1>6
<1> QED
  BY <1>5, <1>7 DEF FactsTraced, D

LEMMA NothingAnnounced ==
    ASSUME worker.stage # 3 \/ worker.todo = <<>>
    PROVE  Announced = {}
<1>1. Len(<<>>) = 0 /\ 1..0 = {}
  OBVIOUS
<1> QED
  BY <1>1 DEF Announced

\* The invariant the sources of facts rest on: only what was cut short is owed, but for
\* what the worker is about to link (materialize::run, mark_job_failed).
THEOREM FactsAreTraced == Spec => []FactsTraced
<1>1. Init => FactsTraced
  <2> SUFFICES ASSUME Init
               PROVE  FactsTraced
    OBVIOUS
  <2>1. {b \in Batches : Status(b) # "absent"} = {} /\ CutShort = {} /\ Unsourced \ Announced = {}
    BY DEF Init, Status, CutShort, Unsourced
  <2>2. IsFiniteSet({}) /\ Cardinality({}) = 0
    BY FS_EmptySet
  <2> QED
    BY <2>1, <2>2 DEF FactsTraced
<1>2. FactsTraced /\ FactsSound /\ RecordsAccounted /\ WorkerFollowsProgress /\ [Next]_vars
          => FactsTraced'
  <2> SUFFICES ASSUME FactsTraced, FactsSound, RecordsAccounted, WorkerFollowsProgress, [Next]_vars
               PROVE  FactsTraced'
    OBVIOUS
  <2>0. UNCHANGED <<core, links, staged>> => Unsourced' = Unsourced
    BY DEF Unsourced, Stated
  <2> DEFINE Submitted == {b \in Batches : Status(b) # "absent"}
  <2>1. ASSUME NEW b \in Batches, Submit(b)
        PROVE  FactsTraced'
    <3>1. /\ UNCHANGED <<core, links, staged, worker>> /\ Status(b) = "absent"
          /\ progress' = [progress EXCEPT ![b].status = "pending"]
      BY <2>1 DEF Submit
    <3>2. \A c \in Batches : /\ progress'[c].done = progress[c].done
                            /\ progress'[c].status = IF c = b THEN "pending" ELSE progress[c].status
      BY <3>1 DEF WorkerFollowsProgress
    <3>3. Submitted' = Submitted \cup {b}
      BY <3>2 DEF Status
    <3>4. IsFiniteSet(Submitted)'
      <4>1. IsFiniteSet(Submitted \cup {b})
        BY FS_AddElement DEF FactsTraced
      <4> QED
        BY <3>3, <4>1
    <3>5. CutShort' = CutShort
      BY <3>1, <3>2 DEF CutShort, Status
    <3>6. Unsourced' = Unsourced /\ Announced' = Announced
      BY <2>0, <3>1 DEF Announced
    <3> QED
      BY <3>4, <3>5, <3>6, TracesKept
  <2>2. ASSUME NEW b \in Batches, BeginStage(b)
        PROVE  FactsTraced'
    <3>1. /\ UNCHANGED <<core, links, staged>> /\ worker = Idle /\ Active(b)
          /\ progress' = [progress EXCEPT ![b].status = "running"]
      BY <2>2 DEF BeginStage
    <3>2. \A c \in Batches : /\ progress'[c].done = progress[c].done
                            /\ progress'[c].status = IF c = b THEN "running" ELSE progress[c].status
      BY <3>1 DEF WorkerFollowsProgress
    <3>3. Submitted' = Submitted
      BY <3>1, <3>2 DEF Status, Active
    <3>4. CutShort' = CutShort
      BY <3>1, <3>2 DEF CutShort, Status, Active
    <3>5. Announced = {}
      BY <3>1, NothingAnnounced DEF Idle
    <3>6. Unsourced' = Unsourced
      BY <2>0, <3>1
    <3> QED
      BY <3>3, <3>4, <3>5, <3>6, TracesKept DEF FactsTraced
  <2>3. CASE InsertRawRecord
    <3>1. /\ GoOn /\ At(1) /\ UNCHANGED <<core, links, staged, progress>>
      BY <2>3 DEF InsertRawRecord
    <3>2. Announced = {}
      BY <3>1, GoesOn, NothingAnnounced
    <3>3. Unsourced' = Unsourced /\ CutShort' = CutShort /\ Submitted' = Submitted
      BY <2>0, <3>1 DEF CutShort, Status
    <3> QED
      BY <3>2, <3>3, TracesKept DEF FactsTraced
  <2>4. CASE NormalizeRecord
    <3>1. /\ GoOn /\ At(2) /\ UNCHANGED <<core, links, progress>>
      BY <2>4 DEF NormalizeRecord
    <3>2. Announced = {}
      BY <3>1, GoesOn, NothingAnnounced
    <3>3. CutShort' = CutShort /\ Submitted' = Submitted
      BY <3>1 DEF CutShort, Status
    <3>4. PICK b \in Batches : b = worker.batch
      BY <3>1, GoesOn
    <3>5. \/ staged' = staged
          \/ staged' = [staged EXCEPT ![b] = @ \cup {Normalized(Head(worker.todo))}]
      BY <2>4, <3>4 DEF NormalizeRecord
    <3>6. \A c \in Batches : staged[c] \subseteq staged'[c]
      BY <3>5 DEF RecordsAccounted
    <3>7. Unsourced' \subseteq Unsourced
      <4> SUFFICES ASSUME NEW f \in Unsourced'
                   PROVE  f \in Unsourced
        OBVIOUS
      <4>1. /\ f \in Fingerprints \X FactIds /\ core[f[1]][f[2]] # "none"
            /\ \A l \in links : l.property = f[1] /\ l.id = f[2] => core[f[1]][f[2]] \notin Stated(l)'
        BY <3>1 DEF Unsourced
      <4>2. ASSUME NEW l \in links
            PROVE  Stated(l) \subseteq Stated(l)'
        <5>1. l.batch \in Batches
          BY DEF FactsSound, Links
        <5> QED
          BY <3>6, <5>1, StatedGrows
      <4> QED
        BY <4>1, <4>2 DEF Unsourced
    <3> QED
      BY <3>2, <3>3, <3>7, TracesKept DEF FactsTraced
  <2>5. CASE Materialize
    <3>1. progress' = progress
      BY <2>5 DEF Materialize
    <3>2. CutShort' = CutShort /\ Submitted' = Submitted
      BY <3>1 DEF CutShort, Status
    <3>3. ASSUME NEW f \in Unsourced', f \notin Announced'
          PROVE  f \in Unsourced \ Announced
      BY <2>5, <3>3, MaterializeTraces
    <3> QED
      BY <3>2, <3>3, TracesKept DEF FactsTraced
  <2>6. CASE Refresh
    <3>1. /\ GoOn /\ At(4) /\ UNCHANGED <<core, links, staged, progress>>
      BY <2>6 DEF Refresh
    <3>2. Announced = {}
      BY <3>1, GoesOn, NothingAnnounced
    <3>3. Unsourced' = Unsourced /\ CutShort' = CutShort /\ Submitted' = Submitted
      BY <2>0, <3>1 DEF CutShort, Status
    <3> QED
      BY <3>2, <3>3, TracesKept DEF FactsTraced
  <2>7. CASE EndStage
    <3>1. /\ worker # Idle /\ worker.todo = <<>> /\ UNCHANGED <<core, links, staged>>
      BY <2>7 DEF EndStage
    <3>2. PICK b \in Batches, k \in 1..4 :
              b = worker.batch /\ k = worker.stage /\ Status(b) = "running"
      BY <3>1 DEF WorkerFollowsProgress
    <3>3. progress' = [progress EXCEPT ![b] =
                        [status |-> IF k = 4 THEN "completed" ELSE "running", done |-> k]]
      BY <2>7, <3>2 DEF EndStage
    <3>4. \A c \in Batches : IF c = b THEN progress'[c].status \in {"completed", "running"}
                            ELSE progress'[c] = progress[c]
      BY <3>3 DEF WorkerFollowsProgress
    <3>5. CutShort' = CutShort /\ Submitted' = Submitted
      BY <3>2, <3>4 DEF CutShort, Status
    <3>6. Announced = {}
      BY <3>1, NothingAnnounced
    <3>7. Unsourced' = Unsourced
      BY <2>0, <3>1
    <3> QED
      BY <3>5, <3>6, <3>7, TracesKept DEF FactsTraced
  <2>8. CASE FailStage
    <3>1. worker # Idle /\ worker' = Idle /\ UNCHANGED <<core, links, staged>>
      BY <2>8 DEF FailStage
    <3>2. PICK b \in Batches : /\ b = worker.batch /\ Status(b) = "running"
                               /\ worker.stage = progress[b].done + 1 /\ progress[b].done \in 0..3
      BY <3>1 DEF WorkerFollowsProgress, Status
    <3>3. progress' = [progress EXCEPT ![b].status = "failed"]
      BY <2>8, <3>2 DEF FailStage
    <3>4. \A c \in Batches : /\ progress'[c].done = progress[c].done
                            /\ progress'[c].status = IF c = b THEN "failed" ELSE progress[c].status
      BY <3>3 DEF WorkerFollowsProgress
    <3>5. Submitted' = Submitted
      BY <3>2, <3>4 DEF Status
    <3>6. Unsourced' = Unsourced
      BY <2>0, <3>1
    <3>7. CASE worker.stage # 3
      <4>1. progress[b].done # 2
        BY <3>2, <3>7
      <4>2. CutShort' = CutShort
        BY <3>2, <3>4, <4>1 DEF CutShort, Status
      <4>3. Announced = {}
        BY <3>7, NothingAnnounced
      <4> QED
        BY <3>5, <3>6, <4>2, <4>3, TracesKept DEF FactsTraced
    <3>8. CASE worker.stage = 3
      <4>1. progress[b].done = 2 /\ b \notin CutShort
        BY <3>2, <3>8 DEF CutShort
      <4>2. CutShort' = CutShort \cup {b}
        BY <3>2, <3>4, <4>1 DEF CutShort, Status
      <4>3. Announced' = {}
        BY <3>1 DEF Announced, Idle
      <4> DEFINE D == Unsourced \ Announced
                 A == Announced
                 C == CutShort
      <4>4. (Unsourced \ Announced)' = Unsourced /\ Unsourced \in SUBSET (D \cup A)
        BY <3>6, <4>3
      <4>5. IsFiniteSet(D) /\ Cardinality(D) <= 2 * Cardinality(C)
        BY DEF FactsTraced
      <4>6. IsFiniteSet(A) /\ Cardinality(A) <= 2
        BY AnnouncedFew
      <4>7. IsFiniteSet(C)
        <5>1. C \in SUBSET Submitted
          BY DEF CutShort
        <5> QED
          BY <5>1, FS_Subset DEF FactsTraced
      <4> HIDE DEF D, A, C
      <4>8. Cardinality(D) \in Nat /\ Cardinality(A) \in Nat /\ Cardinality(C) \in Nat
        BY <4>5, <4>6, <4>7, FS_CardinalityType
      <4>9. IsFiniteSet(D \cup A) /\ Cardinality(D \cup A) <= Cardinality(D) + Cardinality(A)
        <5>1. /\ IsFiniteSet(D \cup A)
              /\ Cardinality(D \cup A) = Cardinality(D) + Cardinality(A) - Cardinality(D \cap A)
          BY <4>5, <4>6, FS_Union
        <5>2. Cardinality(D \cap A) \in Nat
          BY <4>5, FS_Intersection, FS_CardinalityType
        <5> QED
          BY <4>8, <5>1, <5>2
      <4>10. IsFiniteSet(Unsourced) /\ Cardinality(Unsourced) <= Cardinality(D \cup A)
        BY <4>4, <4>9, FS_Subset
      <4>11. Cardinality(Unsourced) \in Nat /\ Cardinality(D \cup A) \in Nat
        BY <4>9, <4>10, FS_CardinalityType
      <4>12. Cardinality(C \cup {b}) = Cardinality(C) + 1
        BY <4>1, <4>7, FS_AddElement DEF C
      <4>13. Cardinality(Unsourced) <= 2 * Cardinality(C \cup {b})
        BY <4>5, <4>6, <4>8, <4>9, <4>10, <4>11, <4>12
      <4>14. IsFiniteSet(Submitted)'
        BY <3>5 DEF FactsTraced
      <4> QED
        BY <4>2, <4>4, <4>10, <4>13, <4>14 DEF FactsTraced, C
    <3> QED
      BY <3>7, <3>8
  <2>9. CASE UNCHANGED vars
    <3>1. /\ Unsourced' = Unsourced /\ CutShort' = CutShort /\ Submitted' = Submitted
          /\ Announced' = Announced
      BY <2>0, <2>9 DEF vars, CutShort, Status, Announced
    <3> QED
      BY <3>1, TracesKept DEF FactsTraced
  <2> QED
    BY <2>1, <2>2, <2>3, <2>4, <2>5, <2>6, <2>7, <2>8, <2>9 DEF Next
<1> QED
  BY <1>1, <1>2, FactsAreSound, RecordsAreAccounted, WorkerFollows, PTL DEF Spec

\* Whatever the batches and wherever their runs are cut short, no more than two facts of
\* core for each batch in or cut short in its materialization lack a record that states
\* them (materialize::run, mark_job_failed).
THEOREM EveryFactHasSource == Spec => []FactsHaveSources
<1>1. FactsTraced /\ FactsSound /\ WorkerFollowsProgress => FactsHaveSources
  <2> SUFFICES ASSUME FactsTraced, FactsSound, WorkerFollowsProgress
               PROVE  FactsHaveSources
    OBVIOUS
  <2> DEFINE D == Unsourced \ Announced
             A == Announced
             C == CutShort
             H == {b \in Batches : progress[b].done = 2}
             U == Unsourced
  <2>1. IsFiniteSet(D) /\ Cardinality(D) <= 2 * Cardinality(C)
    BY DEF FactsTraced
  <2>2. IsFiniteSet(A) /\ Cardinality(A) <= 2
    BY AnnouncedFew
  <2>3. IsFiniteSet(H)
    <3>1. H \in SUBSET {b \in Batches : Status(b) # "absent"}
      BY DEF WorkerFollowsProgress
    <3> QED
      BY <3>1, FS_Subset DEF FactsTraced
  <2>4. C \in SUBSET H
    BY DEF CutShort
  <2>5. U \in SUBSET (D \cup A)
    OBVIOUS
  <2>6. CASE worker.stage # 3
    <3>1. A = {} /\ D = U
      BY <2>6, NothingAnnounced
    <3> HIDE DEF D, A, C, H, U
    <3>2. IsFiniteSet(C) /\ Cardinality(C) <= Cardinality(H)
      BY <2>3, <2>4, FS_Subset
    <3>3. Cardinality(U) \in Nat /\ Cardinality(C) \in Nat /\ Cardinality(H) \in Nat
      BY <2>1, <2>3, <3>1, <3>2, FS_CardinalityType
    <3>4. Cardinality(U) <= 2 * Cardinality(H)
      BY <2>1, <3>1, <3>2, <3>3
    <3> QED
      BY <3>4 DEF FactsHaveSources, U, H
  <2>7. CASE worker.stage = 3
    <3>1. PICK b \in Batches : Status(b) = "running" /\ progress[b].done = 2
      BY <2>7 DEF WorkerFollowsProgress, Idle
    <3>2. b \notin C /\ C \cup {b} \in SUBSET H
      BY <3>1 DEF CutShort
    <3> HIDE DEF D, A, C, H, U
    <3>3. IsFiniteSet(C)
      BY <2>3, <2>4, FS_Subset
    <3>4. Cardinality(C \cup {b}) = Cardinality(C) + 1 /\ Cardinality(C \cup {b}) <= Cardinality(H)
      BY <2>3, <3>2, <3>3, FS_AddElement, FS_Subset
    <3>5. /\ Cardinality(D) \in Nat /\ Cardinality(A) \in Nat /\ Cardinality(C) \in Nat
          /\ Cardinality(H) \in Nat
      BY <2>1, <2>2, <2>3, <3>3, FS_CardinalityType
    <3>6. IsFiniteSet(D \cup A) /\ Cardinality(D \cup A) <= Cardinality(D) + Cardinality(A)
      <4>1. /\ IsFiniteSet(D \cup A)
            /\ Cardinality(D \cup A) = Cardinality(D) + Cardinality(A) - Cardinality(D \cap A)
        BY <2>1, <2>2, FS_Union
      <4>2. Cardinality(D \cap A) \in Nat
        BY <2>1, FS_Intersection, FS_CardinalityType
      <4> QED
        BY <3>5, <4>1, <4>2
    <3>7. IsFiniteSet(U) /\ Cardinality(U) <= Cardinality(D \cup A)
      BY <2>5, <3>6, FS_Subset
    <3>8. Cardinality(U) \in Nat /\ Cardinality(D \cup A) \in Nat
      BY <3>6, <3>7, FS_CardinalityType
    <3>9. Cardinality(U) <= 2 * Cardinality(H)
      BY <2>1, <2>2, <3>4, <3>5, <3>6, <3>7, <3>8
    <3> QED
      BY <3>9 DEF FactsHaveSources, U, H
  <2> QED
    BY <2>6, <2>7
<1> QED
  BY <1>1, FactsAreTraced, FactsAreSound, WorkerFollows, PTL

-----------------------------------------------------------------------------
(***************************************************************************)
(* The search model follows core: whatever materializes is the last batch  *)
(* there is, and its refresh takes in all of core.                         *)
(***************************************************************************)
\* While a batch materializes, no completed one is without a later that did.
LEMMA MaterializingIsLast ==
    ASSUME SearchFollows, WorkerFollowsProgress, worker.stage = 3,
           NEW b \in Batches, Status(b) = "completed"
    PROVE  \E a \in Batches : a > b /\ progress[a].done = 2
<1>1. PICK a \in Batches : a = worker.batch /\ Status(a) = "running" /\ progress[a].done = 2
  BY DEF WorkerFollowsProgress, Idle
<1>2. ~(a < b)
  BY <1>1 DEF SearchFollows
<1>3. a # b /\ a \in Nat /\ b \in Nat
  BY <1>1, BatchesAssumption
<1> QED
  BY <1>1, <1>2, <1>3

LEMMA SearchKept ==
    ASSUME SearchFollows, WorkerFollowsProgress, UNCHANGED <<core, summaries>>,
           progress' \in [Batches -> [status : Statuses, done : 0..4]],
           \A b \in Batches :
               /\ progress'[b].done >= progress[b].done
               /\ Status(b)' # "absent" => \A a \in Batches : a < b => Status(a)' \in {"failed", "completed"}
               /\ Status(b)' = "completed" =>
                     Status(b) = "completed" \/ \A fp \in Fingerprints : Searchable(fp),
           worker'.stage = 4 => worker'.todo = <<"refresh">> \/ worker' = worker
    PROVE  SearchFollows'
<1>1. \A fp \in Fingerprints : InCore(fp)' = InCore(fp) /\ SummariesOf(fp)' = SummariesOf(fp)
  BY DEF InCore, SummariesOf, Owners, Encumbrances
<1>2. \A fp \in Fingerprints : Searchable(fp) => Searchable(fp)'
  BY <1>1 DEF Searchable
<1>3. SearchAgreesWithCore'
  <2> SUFFICES ASSUME NEW b \in Batches, Status(b)' = "completed",
                      \A a \in Batches : a > b => progress'[a].done < 2,
                      NEW fp \in Fingerprints
               PROVE  Searchable(fp)'
    BY DEF SearchAgreesWithCore, Searchable
  <2>1. \A a \in Batches : progress[a].done \in Nat /\ progress'[a].done \in Nat
    BY DEF WorkerFollowsProgress
  <2>2. \A a \in Batches : a > b => progress[a].done < 2
    BY <2>1
  <2>3. Searchable(fp)
    BY <2>2 DEF SearchFollows, SearchAgreesWithCore, Searchable
  <2> QED
    BY <1>2, <2>3
<1> QED
  BY <1>1, <1>2, <1>3 DEF SearchFollows

\* The invariant of the search model (CreateSourceIngestionRun, read_model::run).
THEOREM SearchFollowsCore == Spec => []SearchFollows
<1>1. Init => SearchFollows
  BY DEF Init, SearchFollows, SearchAgreesWithCore, Status, Idle
<1>2. SearchFollows /\ FactsSound /\ WorkerFollowsProgress /\ WorkerFollowsProgress' /\ [Next]_vars
          => SearchFollows'
  <2> SUFFICES ASSUME SearchFollows, FactsSound, WorkerFollowsProgress, WorkerFollowsProgress',
                      [Next]_vars
               PROVE  SearchFollows'
    OBVIOUS
  <2>0. /\ progress \in [Batches -> [status : Statuses, done : 0..4]]
        /\ progress' \in [Batches -> [status : Statuses, done : 0..4]]
        /\ \A b \in Batches : progress[b].done \in 0..4 /\ progress[b].done >= progress[b].done
    BY DEF WorkerFollowsProgress
  <2>1. ASSUME NEW b \in Batches, Submit(b)
        PROVE  SearchFollows'
    <3>1. /\ UNCHANGED <<core, summaries, worker>> /\ Status(b) = "absent"
          /\ \A a \in Batches : ~Active(a) /\ (a < b => Status(a) # "absent")
          /\ progress' = [progress EXCEPT ![b].status = "pending"]
      BY <2>1 DEF Submit
    <3>2. \A c \in Batches : /\ progress'[c].done = progress[c].done
                            /\ Status(c)' = IF c = b THEN "pending" ELSE Status(c)
      BY <2>0, <3>1 DEF Status
    <3>3. \A a \in Batches : a < b => a # b /\ Status(a) \in {"failed", "completed"}
      <4> SUFFICES ASSUME NEW a \in Batches, a < b
                   PROVE  a # b /\ Status(a) \in {"failed", "completed"}
        OBVIOUS
      <4>1. a \in Nat /\ b \in Nat
        BY BatchesAssumption
      <4>2. Status(a) \in Statuses
        BY <2>0 DEF Status
      <4> QED
        BY <3>1, <4>1, <4>2 DEF Active, Statuses
    <3>4. \A c \in Batches : Status(c)' # "absent" =>
              \A a \in Batches : a < c => Status(a)' \in {"failed", "completed"}
      <4> SUFFICES ASSUME NEW c \in Batches, Status(c)' # "absent", NEW a \in Batches, a < c
                   PROVE  Status(a)' \in {"failed", "completed"}
        OBVIOUS
      <4>1. CASE c = b
        BY <3>2, <3>3, <4>1
      <4>2. CASE c # b
        BY <3>1, <3>2, <4>2 DEF SearchFollows
      <4> QED
        BY <4>1, <4>2
    <3> QED
      BY <2>0, <3>1, <3>2, <3>4, SearchKept
  <2>2. ASSUME NEW b \in Batches, BeginStage(b)
        PROVE  SearchFollows'
    <3>1. /\ UNCHANGED <<core, summaries>> /\ worker = Idle /\ Active(b)
          /\ progress' = [progress EXCEPT ![b].status = "running"]
      BY <2>2 DEF BeginStage
    <3>2. \A c \in Batches : /\ progress'[c].done = progress[c].done
                            /\ Status(c)' = IF c = b THEN "running" ELSE Status(c)
      BY <2>0, <3>1 DEF Status
    <3>3. worker'.stage = 4 => worker'.todo = <<"refresh">>
      BY <2>2 DEF BeginStage, Todo
    <3>4. \A c \in Batches : Status(c)' # "absent" =>
              \A a \in Batches : a < c => Status(a)' \in {"failed", "completed"}
      BY <3>1, <3>2 DEF SearchFollows, Active
    <3> QED
      BY <2>0, <3>1, <3>2, <3>3, <3>4, SearchKept
  <2>3. CASE InsertRawRecord \/ NormalizeRecord
    <3>1. UNCHANGED <<core, summaries, progress>> /\ GoOn /\ (At(1) \/ At(2))
      BY <2>3 DEF InsertRawRecord, NormalizeRecord
    <3>2. worker'.stage # 4
      BY <3>1, GoesOn
    <3>3. \A c \in Batches : Status(c)' = Status(c) /\ progress'[c].done = progress[c].done
      BY <3>1 DEF Status
    <3> QED
      BY <2>0, <3>1, <3>2, <3>3, SearchKept DEF SearchFollows
  <2>4. CASE Materialize
    <3>1. GoOn /\ At(3) /\ UNCHANGED <<progress, summaries>>
      BY <2>4 DEF Materialize
    <3>2. worker.stage = 3 /\ worker'.stage = 3
      BY <3>1, GoesOn
    <3>3. ASSUME NEW fp \in Fingerprints, InCore(fp)
          PROVE  InCore(fp)'
      <4>1. PICK b \in Batches : b = worker.batch
        BY <3>1, GoesOn
      <4>2. worker.todo # <<>> /\ worker.todo \in Seq(StatementsOf(staged[b]))
        BY <3>1, <3>2, <4>1, GoesOn DEF FactsSound, LeftToMaterialize
      <4>3. PICK s \in StatementsOf(staged[b]) : s = Head(worker.todo)
        BY <4>2, HeadAndTail
      <4>4. core' = core \/ core' = [core EXCEPT ![s.property][s.fact.id] = Upserted(@, s.fact)]
        BY <2>4, <4>3 DEF Materialize
      <4>5. \A p \in Fingerprints, id \in FactIds : core[p][id] # "none" => core'[p][id] # "none"
        <5>1. CASE core' = core
          BY <5>1
        <5>2. CASE core' = [core EXCEPT ![s.property][s.fact.id] = Upserted(@, s.fact)]
          BY <5>2, UpsertWrites
        <5> QED
          BY <4>4, <5>1, <5>2
      <4>6. <<"property", "row">> \in FactIds
        BY DEF FactIds
      <4> QED
        BY <3>3, <4>5, <4>6 DEF InCore
    <3>4. SearchAgreesWithCore'
      <4> SUFFICES ASSUME NEW b \in Batches, Status(b)' = "completed",
                          \A a \in Batches : a > b => progress'[a].done < 2
                   PROVE  FALSE
        BY DEF SearchAgreesWithCore
      <4>1. Status(b) = "completed" /\ \A a \in Batches : a > b => progress[a].done < 2
        BY <3>1 DEF Status
      <4>2. \E a \in Batches : a > b /\ progress[a].done = 2
        BY <3>2, <4>1, MaterializingIsLast
      <4> QED
        BY <4>1, <4>2
    <3> QED
      BY <3>1, <3>2, <3>3, <3>4 DEF SearchFollows, Status
  <2>5. CASE Refresh
    <3>1. GoOn /\ At(4) /\ UNCHANGED <<core, progress>>
      BY <2>5 DEF Refresh
    <3>2. /\ worker.stage = 4 /\ worker.todo # <<>> /\ worker'.stage = 4
          /\ worker'.todo = Tail(worker.todo)
      BY <3>1, GoesOn
    <3>3. worker'.todo = <<>>
      <4>1. worker.todo = <<"refresh">>
        BY <3>2 DEF SearchFollows
      <4>2. Tail(<<"refresh">>) = <<>>
        OBVIOUS
      <4> QED
        BY <3>2, <4>1, <4>2
    <3>4. \A fp \in Fingerprints :
              IF InCore(fp) THEN summaries'[fp] \in SummariesOf(fp)
              ELSE summaries'[fp] = summaries[fp]
      BY <2>5 DEF Refresh
    <3>5. \A fp \in Fingerprints : InCore(fp)' = InCore(fp) /\ SummariesOf(fp)' = SummariesOf(fp)
      BY <3>1 DEF InCore, SummariesOf, Owners, Encumbrances
    <3>6. \A fp \in Fingerprints : ~InCore(fp) => summaries'[fp] = NoSummary
      BY <3>4 DEF SearchFollows
    <3>7. \A fp \in Fingerprints : Searchable(fp)'
      BY <3>4, <3>5, <3>6 DEF Searchable
    <3>8. SearchAgreesWithCore'
      BY <3>7 DEF SearchAgreesWithCore, Searchable
    <3> QED
      BY <3>1, <3>3, <3>5, <3>6, <3>7, <3>8 DEF SearchFollows, Status
  <2>6. CASE EndStage
    <3>1. /\ worker # Idle /\ worker.todo = <<>> /\ worker' = Idle /\ UNCHANGED <<core, summaries>>
      BY <2>6 DEF EndStage
    <3>2. PICK b \in Batches, k \in 1..4 : /\ b = worker.batch /\ k = worker.stage
                                           /\ Status(b) = "running" /\ progress[b].done = k - 1
      BY <3>1 DEF WorkerFollowsProgress
    <3>3. progress' = [progress EXCEPT ![b] =
                        [status |-> IF k = 4 THEN "completed" ELSE "running", done |-> k]]
      BY <2>6, <3>2 DEF EndStage
    <3>4. \A c \in Batches :
              /\ progress'[c].done = IF c = b THEN k ELSE progress[c].done
              /\ Status(c)' = IF c = b THEN (IF k = 4 THEN "completed" ELSE "running") ELSE Status(c)
      BY <2>0, <3>3 DEF Status
    <3>5. k = 4 => \A fp \in Fingerprints : Searchable(fp)
      BY <3>1, <3>2 DEF SearchFollows
    <3>6. \A c \in Batches : Status(c)' # "absent" =>
              \A a \in Batches : a < c => Status(a)' \in {"failed", "completed"}
      BY <3>2, <3>4 DEF SearchFollows
    <3>7. worker'.stage # 4
      BY <3>1 DEF Idle
    <3>8. \A c \in Batches :
              /\ progress'[c].done >= progress[c].done
              /\ Status(c)' = "completed" =>
                     Status(c) = "completed" \/ \A fp \in Fingerprints : Searchable(fp)
      BY <2>0, <3>2, <3>4, <3>5
    <3> QED
      BY <2>0, <3>1, <3>6, <3>7, <3>8, SearchKept
  <2>7. CASE FailStage
    <3>1. worker # Idle /\ worker' = Idle /\ UNCHANGED <<core, summaries>>
      BY <2>7 DEF FailStage
    <3>2. PICK b \in Batches : b = worker.batch /\ Status(b) = "running"
      BY <3>1 DEF WorkerFollowsProgress
    <3>3. progress' = [progress EXCEPT ![b].status = "failed"]
      BY <2>7, <3>2 DEF FailStage
    <3>4. \A c \in Batches : /\ progress'[c].done = progress[c].done
                            /\ Status(c)' = IF c = b THEN "failed" ELSE Status(c)
      BY <2>0, <3>3 DEF Status
    <3>5. \A c \in Batches : Status(c)' # "absent" =>
              \A a \in Batches : a < c => Status(a)' \in {"failed", "completed"}
      BY <3>2, <3>4 DEF SearchFollows
    <3>6. worker'.stage # 4
      BY <3>1 DEF Idle
    <3> QED
      BY <2>0, <3>1, <3>4, <3>5, <3>6, SearchKept
  <2>8. CASE UNCHANGED vars
    <3>1. \A c \in Batches : Status(c)' = Status(c) /\ progress'[c].done = progress[c].done
      BY <2>8 DEF vars, Status
    <3> QED
      BY <2>0, <2>8, <3>1, SearchKept DEF vars, SearchFollows
  <2> QED
    BY <2>1, <2>2, <2>3, <2>4, <2>5, <2>6, <2>7, <2>8 DEF Next
<1> QED
  BY <1>1, <1>2, FactsAreSound, WorkerFollows, PTL DEF Spec

\* Once a batch is refreshed, and until a later one materializes, the search model has
\* exactly core's properties, with owners and statuses core has (read_model::run).
THEOREM SearchAgrees == Spec => []SearchAgreesWithCore
<1>1. SearchFollows => SearchAgreesWithCore
  BY DEF SearchFollows
<1> QED
  BY <1>1, SearchFollowsCore, PTL

\* But for faults of the database, a run fails for one reason only, the SELECTs of
\* read_stage_*: were they valid, no run would (materialize::run).
THEOREM OnlyTheSelectsFailRuns == StageReadsWork => (Spec => []SoundRunsDoNotFail)
<1> SUFFICES ASSUME StageReadsWork
             PROVE  Spec => []SoundRunsDoNotFail
  OBVIOUS
<1>1. Init => SoundRunsDoNotFail
  BY DEF Init, SoundRunsDoNotFail, Status
<1>2. SoundRunsDoNotFail /\ WorkerFollowsProgress /\ [Next]_vars => SoundRunsDoNotFail'
  <2> SUFFICES ASSUME ~Faults, \A b \in Batches : Status(b) # "failed", WorkerFollowsProgress,
                      [Next]_vars, NEW b \in Batches
               PROVE  progress'[b].status # "failed"
    BY DEF SoundRunsDoNotFail, Status
  <2>1. ASSUME NEW c \in Batches, Submit(c)
        PROVE  progress'[b].status # "failed"
    BY <2>1 DEF Submit, Status, WorkerFollowsProgress
  <2>2. ASSUME NEW c \in Batches, BeginStage(c)
        PROVE  progress'[b].status # "failed"
    BY <2>2, StageTakenUp DEF Status, WorkerFollowsProgress
  <2>3. CASE WithinStage
    BY <2>3 DEF WithinStage, Status
  <2>4. CASE EndStage
    BY <2>4 DEF EndStage, Status, WorkerFollowsProgress
  <2>5. CASE UNCHANGED vars
    BY <2>5 DEF vars, Status
  <2>6. ~FailStage
    BY DEF FailStage
  <2> QED
    BY <2>1, <2>2, <2>3, <2>4, <2>5, <2>6, StepsWithinStages DEF Next
<1> QED
  BY <1>1, <1>2, WorkerFollows, PTL DEF Spec
=============================================================================
