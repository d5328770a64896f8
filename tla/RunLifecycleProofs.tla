------------------------- MODULE RunLifecycleProofs -------------------------
(***************************************************************************)
(* Proofs about RunLifecycle for every number of callers, jobs, scopes and *)
(* runs, and every size of the bounds.                                     *)
(***************************************************************************)
EXTENDS RunLifecycle, FiniteSetTheorems, TLAPS

(* The operators *)

\* A pass always counts at least one item, an empty scope included.
LEMMA ChunkIsPositive == Chunk \in [PlanIds -> Nat \ {0}]
  BY LifecycleAssumption DEF Chunk, MaxOf, PlanIds

\* The executor turns a row it read, or none, into a row of the table.
LEMMA ExecuteType ==
  ASSUME NEW plan \in PlanIds, NEW dry \in BOOLEAN,
         NEW seen \in RunRow \cup {NoRow}, NEW now \in Nat
  PROVE  Execute(plan, dry, seen, now) \in RunRow
  <1>1. Chunk[plan] \in Nat
    BY ChunkIsPositive
  <1>2. CASE seen = NoRow
    BY <1>1, <1>2 DEF Execute, RowOf, Base, DryToken, RunRow, Status, Tokens
  <1>3. CASE seen # NoRow
    BY <1>1, <1>3 DEF Execute, RowOf, Base, DryToken, RunRow, Status, Tokens
  <1>4. QED
    BY <1>2, <1>3

\* The step of a call tells what else is known of it.
LEMMA CallTypes ==
  ASSUME TypeOK, NEW s \in Sessions
  PROVE  /\ call[s].step = "plan" => call[s] \in PlanCall
         /\ call[s].step = "read" => call[s] \in ReadCall
         /\ call[s].step = "write" => call[s] \in WriteCall
  BY DEF TypeOK, Calls, Idle, PlanCall, ReadCall, WriteCall

\* A committed checkpoint is a row of its table.
LEMMA CheckpointType ==
  ASSUME NEW r \in Runs, NEW row \in RunRow
  PROVE  CheckpointOf(r, row) \in CheckpointRow
  BY DEF CheckpointOf, CheckpointRow, RunRow
-----------------------------------------------------------------------------
(* Type correctness *)

LEMMA TypeInit == Init => TypeOK
  BY LifecycleAssumption DEF Init, TypeOK, Calls

LEMMA TypeStep == TypeOK /\ [Next]_vars => TypeOK'
  <1> SUFFICES ASSUME TypeOK, [Next]_vars PROVE TypeOK'
    OBVIOUS
  <1> USE DEF TypeOK, tables
  <1>1. CASE Tick
    BY <1>1, LifecycleAssumption DEF Tick
  <1>2. ASSUME NEW s \in Sessions, Step(s) PROVE TypeOK'
    <2>1. CASE CreateJob(s)
      BY <2>1 DEF CreateJob
    <2>2. ASSUME NEW j \in Jobs, NEW scope \in Scopes, BeginPlan(s, j, scope)
          PROVE  TypeOK'
      <3>1. [step |-> "plan", plan |-> <<j, scope>>, newJob |-> j \notin jobs,
             known |-> <<j, scope>> \in plans] \in PlanCall
        BY DEF PlanCall, PlanIds
      <3>2. QED
        BY <2>2, <3>1 DEF BeginPlan, Calls
    <2>3. CASE CommitPlan(s)
      <3>1. call[s] \in PlanCall
        BY <2>3, CallTypes DEF CommitPlan
      <3>2. QED
        BY <2>3, <3>1 DEF CommitPlan, PlanCall, PlanIds, Calls
    <2>4. ASSUME NEW p \in PlanIds, NEW dry \in BOOLEAN, BeginExecute(s, p, dry)
          PROVE  TypeOK'
      <3>1. PICK r \in Runs :
              call' = [call EXCEPT ![s] = [step |-> "read", run |-> r,
                         plan |-> p, seen |-> NoRow, dry |-> dry]]
        BY <2>4 DEF BeginExecute
      <3>2. [step |-> "read", run |-> r, plan |-> p, seen |-> NoRow,
             dry |-> dry] \in ReadCall
        BY DEF ReadCall
      <3>3. QED
        BY <2>4, <3>1, <3>2 DEF BeginExecute, Calls
    <2>5. ASSUME NEW r \in Runs, ReadRun(s, r) PROVE TypeOK'
      <3>1. [step |-> "read", run |-> r, plan |-> runs[r].plan,
             seen |-> runs[r], dry |-> FALSE] \in ReadCall
        BY <2>5 DEF ReadRun, ReadCall, RunRow
      <3>2. QED
        BY <2>5, <3>1 DEF ReadRun, Calls
    <2>6. CASE Compute(s)
      <3>1. call[s] \in ReadCall
        BY <2>6, CallTypes DEF Compute
      <3>2. Execute(call[s].plan, call[s].dry, call[s].seen, clock) \in RunRow
        BY <3>1, ExecuteType DEF ReadCall
      <3>3. [step |-> "write", run |-> call[s].run, seen |-> call[s].seen,
             result |-> Execute(call[s].plan, call[s].dry, call[s].seen, clock)]
              \in WriteCall
        BY <3>1, <3>2 DEF ReadCall, WriteCall
      <3>4. QED
        BY <2>6, <3>3 DEF Compute, Calls
    <2>7. CASE CommitRun(s)
      <3>1. call[s].run \in Runs /\ call[s].result \in RunRow
        BY <2>7, CallTypes DEF CommitRun, WriteCall
      <3>2. CheckpointOf(call[s].run, call[s].result) \in CheckpointRow
        BY <3>1, CheckpointType
      <3>3. checkpoints' \in Seq(CheckpointRow)
        BY <2>7, <3>2 DEF CommitRun
      <3>4. QED
        BY <2>7, <3>1, <3>3 DEF CommitRun, Calls
    <2>8. CASE FailCall(s)
      BY <2>8 DEF FailCall, Calls
    <2>9. QED
      BY <1>2, <2>1, <2>2, <2>3, <2>4, <2>5, <2>6, <2>7, <2>8
         DEF Step, ResumeRun, ResumePlan, LatestForPlan
  <1>3. CASE UNCHANGED vars
    BY <1>3 DEF vars
  <1>4. QED
    BY <1>1, <1>2, <1>3 DEF Next

\* Every table and every call in flight keeps its type: executor results are
\* always rows, whatever was read.
THEOREM TypeCorrect == Spec => []TypeOK
  BY TypeInit, TypeStep, PTL DEF Spec
-----------------------------------------------------------------------------
(* Foreign keys, whatever the database does with conflicts *)

\* What a call in flight read still holds when it commits, since no row that
\* another row points at is ever deleted.
CallRefs ==
  \A s \in Sessions :
    /\ (call[s].step = "plan" /\ ~call[s].newJob) => call[s].plan[1] \in jobs
    /\ call[s].step = "read" => call[s].plan \in plans
    /\ call[s].step = "write" => call[s].result.plan \in plans

RefInv == TypeOK /\ ForeignKeys /\ CallRefs

LEMMA ExecutePlan ==
  ASSUME NEW plan \in PlanIds, NEW dry \in BOOLEAN,
         NEW seen \in RunRow \cup {NoRow}, NEW now \in Nat
  PROVE  Execute(plan, dry, seen, now).plan = plan
  <1>1. CASE dry
    BY <1>1 DEF Execute, RowOf
  <1>2. CASE ~dry
    BY <1>2 DEF Execute, RowOf
  <1>3. QED
    BY <1>1, <1>2

LEMMA RefInit == Init => RefInv
  BY TypeInit DEF Init, RefInv, ForeignKeys, CallRefs, Idle

LEMMA RefStep == RefInv /\ [Next]_vars => RefInv'
  <1> SUFFICES ASSUME RefInv, [Next]_vars PROVE ForeignKeys' /\ CallRefs'
    BY TypeStep DEF RefInv
  <1> USE DEF RefInv
  <1>1. CASE Tick
    BY <1>1 DEF Tick, tables, ForeignKeys, CallRefs
  <1>2. ASSUME NEW s \in Sessions, Step(s) PROVE ForeignKeys' /\ CallRefs'
    <2> USE DEF ForeignKeys, CallRefs, tables, TypeOK
    <2>1. CASE CreateJob(s)
      BY <2>1 DEF CreateJob
    <2>2. ASSUME NEW j \in Jobs, NEW scope \in Scopes, BeginPlan(s, j, scope)
          PROVE  ForeignKeys' /\ CallRefs'
      BY <2>2 DEF BeginPlan
    <2>3. CASE CommitPlan(s)
      <3>1. call[s] \in PlanCall
        BY <2>3, CallTypes DEF CommitPlan
      <3>2. call[s].plan[1] \in jobs'
        BY <2>3, <3>1 DEF CommitPlan, PlanCall
      <3>3. ForeignKeys'
        BY <2>3, <3>2 DEF CommitPlan
      <3>4. CallRefs'
        BY <2>3 DEF CommitPlan, Idle
      <3>5. QED
        BY <3>3, <3>4
    <2>4. ASSUME NEW p \in PlanIds, NEW dry \in BOOLEAN, BeginExecute(s, p, dry)
          PROVE  ForeignKeys' /\ CallRefs'
      BY <2>4 DEF BeginExecute
    <2>5. ASSUME NEW r \in Runs, ReadRun(s, r) PROVE ForeignKeys' /\ CallRefs'
      BY <2>5 DEF ReadRun
    <2>6. CASE Compute(s)
      <3>1. call[s] \in ReadCall
        BY <2>6, CallTypes DEF Compute
      <3>2. Execute(call[s].plan, call[s].dry, call[s].seen, clock).plan
              = call[s].plan
        BY <3>1, ExecutePlan DEF ReadCall
      <3>3. QED
        BY <2>6, <3>2 DEF Compute
    <2>7. CASE CommitRun(s)
      <3>1. call[s].run \in Runs /\ call[s].result \in RunRow
        BY <2>7, CallTypes DEF CommitRun, WriteCall
      <3>2. runs'[call[s].run] # NoRow
        BY <2>7, <3>1, LifecycleAssumption DEF CommitRun
      <3>3. \A r \in Runs : runs'[r] # NoRow => runs'[r].plan \in plans'
        BY <2>7, <3>1 DEF CommitRun
      <3>4. \A i \in DOMAIN checkpoints' : runs'[checkpoints'[i].run] # NoRow
        <4>1. CheckpointOf(call[s].run, call[s].result) \in CheckpointRow
          BY <3>1, CheckpointType
        <4>2. SUFFICES ASSUME NEW i \in DOMAIN checkpoints'
                       PROVE  runs'[checkpoints'[i].run] # NoRow
          OBVIOUS
        <4>3. CASE i = Len(checkpoints) + 1
          BY <2>7, <3>1, <3>2, <4>1, <4>3 DEF CommitRun, CheckpointOf
        <4>4. CASE i # Len(checkpoints) + 1
          <5>1. i \in DOMAIN checkpoints /\ checkpoints'[i] = checkpoints[i]
            BY <2>7, <4>1, <4>4 DEF CommitRun
          <5>2. QED
            BY <2>7, <3>1, <3>2, <5>1 DEF CommitRun
        <4>5. QED
          BY <4>3, <4>4
      <3>5. CallRefs'
        BY <2>7 DEF CommitRun, Idle
      <3>6. QED
        BY <2>7, <3>3, <3>4, <3>5 DEF CommitRun
    <2>8. CASE FailCall(s)
      BY <2>8 DEF FailCall, Idle
    <2>9. QED
      BY <1>2, <2>1, <2>2, <2>3, <2>4, <2>5, <2>6, <2>7, <2>8
         DEF Step, ResumeRun, ResumePlan, LatestForPlan
  <1>3. CASE UNCHANGED vars
    BY <1>3 DEF vars, ForeignKeys, CallRefs
  <1>4. QED
    BY <1>1, <1>2, <1>3 DEF Next

\* No row ever points at a missing row, and so a resume never finds its run's
\* plan missing.
THEOREM ForeignKeysHold == Spec => []ForeignKeys
  <1>1. RefInv => ForeignKeys
    BY DEF RefInv
  <1>2. QED
    BY RefInit, RefStep, <1>1, PTL DEF Spec
-----------------------------------------------------------------------------
(* A database that aborts conflicting writers *)

\* A commit replaces one run row and adds one checkpoint at the end.
LEMMA CommitEffect ==
  ASSUME TypeOK, NEW s \in Sessions, CommitRun(s)
  PROVE  /\ call[s] \in WriteCall
         /\ runs' = [runs EXCEPT ![call[s].run] = call[s].result]
         /\ DOMAIN checkpoints' = DOMAIN checkpoints \cup {Len(checkpoints) + 1}
         /\ \A i \in DOMAIN checkpoints : i \in Nat /\ i < Len(checkpoints) + 1
         /\ checkpoints'[Len(checkpoints) + 1]
              = CheckpointOf(call[s].run, call[s].result)
         /\ \A i \in DOMAIN checkpoints : checkpoints'[i] = checkpoints[i]
         /\ \A i \in DOMAIN checkpoints : checkpoints[i] \in CheckpointRow
         /\ CheckpointOf(call[s].run, call[s].result) \in CheckpointRow
  <1>1. call[s] \in WriteCall
    BY CallTypes DEF CommitRun
  <1>2. call[s].run \in Runs /\ call[s].result \in RunRow
    BY <1>1 DEF WriteCall
  <1>3. CheckpointOf(call[s].run, call[s].result) \in CheckpointRow
    BY <1>2, CheckpointType
  <1>4. checkpoints \in Seq(CheckpointRow)
    BY DEF TypeOK
  <1>5. checkpoints' = Append(checkpoints,
                              CheckpointOf(call[s].run, call[s].result))
    BY DEF CommitRun
  <1>6. QED
    BY <1>1, <1>3, <1>4, <1>5 DEF CommitRun

\* What the commit of a call knows of the row it replaces: it is the row the
\* call read, and the new row counts strictly more and is stamped no earlier.
LEMMA CommitAdvances ==
  ASSUME ConflictAborts, TypeOK, TimesOrdered, ResultsAdvance,
         NEW s \in Sessions, CommitRun(s),
         runs[call[s].run] # NoRow
  PROVE  LET r == call[s].run
             old == runs[r]
             new == call[s].result
         IN /\ old = call[s].seen
            /\ Advances(old, new)
            /\ old.processed < new.processed
            /\ old.updated <= new.updated
  <1> DEFINE r == call[s].run
             old == runs[r]
             new == call[s].result
  <1>1. call[s] \in WriteCall
    BY CommitEffect
  <1>2. old = call[s].seen
    BY <1>1 DEF CommitRun, MayWrite
  <1>3. old \in RunRow /\ new \in RunRow
    BY <1>1 DEF TypeOK, WriteCall
  <1>4. Advances(old, new)
    BY <1>1, <1>2 DEF ResultsAdvance, WriteCall
  <1>5. old.processed < new.processed
    BY <1>3, <1>4, ChunkIsPositive DEF Advances, RunRow
  <1>6. old.updated <= new.updated
    BY <1>1, <1>2 DEF TimesOrdered, WriteCall
  <1>7. QED
    BY <1>2, <1>4, <1>5, <1>6

LEMMA SnapshotInit == Init => SnapshotInv
  BY LifecycleAssumption
     DEF Init, SnapshotInv, RowIsLastCheckpoint, TimesOrdered, ResultsAdvance,
         PassesCountedOnce, Completed, Idle

\* The times and the results depend on the calls in flight only.
LEMMA CallsStep ==
  ASSUME RefInv, TimesOrdered, ResultsAdvance, [Next]_vars
  PROVE  TimesOrdered' /\ ResultsAdvance'
  <1> USE DEF RefInv, TypeOK, tables
  <1>1. CASE Tick
    <2>1. ResultsAdvance'
      BY <1>1 DEF Tick, ResultsAdvance, Opens, Advances
    <2>2. \A row \in RunRow : row.updated <= clock => row.updated <= clock'
      BY <1>1 DEF Tick, RunRow
    <2>3. \A s \in Sessions :
            /\ call[s].step = "read" => call[s].seen \in RunRow \cup {NoRow}
            /\ call[s].step = "write" => call[s].seen \in RunRow \cup {NoRow}
            /\ call[s].step = "write" => call[s].result \in RunRow
      BY CallTypes DEF ReadCall, WriteCall
    <2>4. TimesOrdered'
      BY <1>1, <2>2, <2>3 DEF Tick, TimesOrdered
    <2>5. QED
      BY <2>1, <2>4
  <1>2. ASSUME NEW s \in Sessions, Step(s)
        PROVE  TimesOrdered' /\ ResultsAdvance'
    <2> USE DEF TimesOrdered, ResultsAdvance, Opens, Advances
    <2>1. CASE CreateJob(s)
      BY <2>1 DEF CreateJob
    <2>2. ASSUME NEW j \in Jobs, NEW scope \in Scopes, BeginPlan(s, j, scope)
          PROVE  TimesOrdered' /\ ResultsAdvance'
      BY <2>2 DEF BeginPlan
    <2>3. CASE CommitPlan(s)
      BY <2>3 DEF CommitPlan, Idle
    <2>4. ASSUME NEW p \in PlanIds, NEW dry \in BOOLEAN, BeginExecute(s, p, dry)
          PROVE  TimesOrdered' /\ ResultsAdvance'
      BY <2>4 DEF BeginExecute
    <2>5. ASSUME NEW r \in Runs, ReadRun(s, r)
          PROVE  TimesOrdered' /\ ResultsAdvance'
      BY <2>5 DEF ReadRun
    <2>6. CASE Compute(s)
      <3> DEFINE c == call[s]
                 row == Execute(c.plan, c.dry, c.seen, clock)
      <3>1. c \in ReadCall
        BY <2>6, CallTypes DEF Compute
      <3>2. row.updated = clock
        <4>1. CASE c.dry
          BY <4>1 DEF Execute, RowOf
        <4>2. CASE ~c.dry
          BY <4>2 DEF Execute, RowOf
        <4>3. QED
          BY <4>1, <4>2
      <3>3. IF c.seen = NoRow THEN Opens(row) ELSE Advances(c.seen, row)
        <4>1. CASE c.seen = NoRow
          BY <3>1, <4>1, ChunkIsPositive DEF Execute, RowOf, Base, ReadCall
        <4>2. CASE c.seen # NoRow
          BY <2>6, <3>1, <4>2 DEF Compute, Execute, RowOf, Base, ReadCall
        <4>3. QED
          BY <4>1, <4>2
      <3>4. clock <= clock
        OBVIOUS
      <3>5. call' = [call EXCEPT ![s] = [step |-> "write", run |-> c.run,
                                         seen |-> c.seen, result |-> row]]
        BY <2>6 DEF Compute
      <3> HIDE DEF c, row
      <3>6. TimesOrdered'
        BY <2>6, <3>2, <3>4, <3>5 DEF Compute, c
      <3>7. ResultsAdvance'
        BY <2>6, <3>3, <3>5 DEF Compute, c
      <3>8. QED
        BY <3>6, <3>7
    <2>7. CASE CommitRun(s)
      <3>1. call[s] \in WriteCall
        BY <2>7, CallTypes DEF CommitRun
      <3>2. QED
        BY <2>7, <3>1 DEF CommitRun, Idle, WriteCall
    <2>8. CASE FailCall(s)
      BY <2>8 DEF FailCall, Idle
    <2>9. QED
      BY <1>2, <2>1, <2>2, <2>3, <2>4, <2>5, <2>6, <2>7, <2>8
         DEF Step, ResumeRun, ResumePlan, LatestForPlan
  <1>3. CASE UNCHANGED vars
    BY <1>3 DEF vars, TimesOrdered, ResultsAdvance, Opens, Advances
  <1>4. QED
    BY <1>1, <1>2, <1>3 DEF Next

\* Only a commit of a run touches the run rows and the checkpoints.
LEMMA TablesStep ==
  ASSUME [Next]_vars
  PROVE  \/ UNCHANGED <<runs, checkpoints>>
         \/ \E s \in Sessions : CommitRun(s)
  BY DEF Next, Step, vars, tables, Tick, CreateJob, BeginPlan, CommitPlan,
         BeginExecute, ResumeRun, ResumePlan, ReadRun, Compute, FailCall

LEMMA LastCheckpointStep ==
  ASSUME ConflictAborts, RefInv, SnapshotInv, NEW s \in Sessions, CommitRun(s)
  PROVE  RowIsLastCheckpoint'
  <1> DEFINE c == call[s]
             n == Len(checkpoints) + 1
             new == CheckpointOf(c.run, c.result)
  <1> USE DEF RefInv
  <1>1. /\ c \in WriteCall
        /\ runs' = [runs EXCEPT ![c.run] = c.result]
        /\ DOMAIN checkpoints' = DOMAIN checkpoints \cup {n}
        /\ \A i \in DOMAIN checkpoints : i \in Nat /\ i < n
        /\ checkpoints'[n] = new
        /\ \A i \in DOMAIN checkpoints : checkpoints'[i] = checkpoints[i]
        /\ \A i \in DOMAIN checkpoints : checkpoints[i] \in CheckpointRow
        /\ new \in CheckpointRow
    BY CommitEffect
  <1>2. runs \in [Runs -> RunRow \cup {NoRow}] /\ n \in Nat
    BY DEF TypeOK
  <1>3. SUFFICES ASSUME NEW r \in Runs, runs'[r] # NoRow
                 PROVE  \E i \in DOMAIN checkpoints' :
                          /\ checkpoints'[i] = CheckpointOf(r, runs'[r])
                          /\ \A k \in DOMAIN checkpoints' :
                               checkpoints'[k].run = r =>
                                 /\ k <= i
                                 /\ checkpoints'[k].created <= checkpoints'[i].created
                                 /\ checkpoints'[k].processed <= checkpoints'[i].processed
    BY DEF RowIsLastCheckpoint
  <1>4. CASE r # c.run
    <2>1. runs'[r] = runs[r]
      BY <1>1, <1>2, <1>4
    <2>2. PICK i \in DOMAIN checkpoints :
            /\ checkpoints[i] = CheckpointOf(r, runs[r])
            /\ \A k \in DOMAIN checkpoints : checkpoints[k].run = r =>
                 /\ k <= i
                 /\ checkpoints[k].created <= checkpoints[i].created
                 /\ checkpoints[k].processed <= checkpoints[i].processed
      BY <1>3, <2>1 DEF SnapshotInv, RowIsLastCheckpoint
    <2>3. new.run # r
      BY <1>4 DEF CheckpointOf
    <2>4. QED
      BY <1>1, <2>1, <2>2, <2>3
  <1>5. CASE r = c.run
    <2>1. runs'[r] = c.result /\ new = CheckpointOf(r, runs'[r])
      BY <1>1, <1>2, <1>5
    <2>2. ASSUME NEW k \in DOMAIN checkpoints, checkpoints[k].run = r
          PROVE  /\ checkpoints[k].created <= new.created
                 /\ checkpoints[k].processed <= new.processed
      <3>1. runs[r] # NoRow
        BY <2>2 DEF ForeignKeys
      <3>2. PICK i \in DOMAIN checkpoints :
              /\ checkpoints[i] = CheckpointOf(r, runs[r])
              /\ checkpoints[k].created <= checkpoints[i].created
              /\ checkpoints[k].processed <= checkpoints[i].processed
        BY <2>2, <3>1 DEF SnapshotInv, RowIsLastCheckpoint
      <3>3. /\ runs[r].processed < c.result.processed
            /\ runs[r].updated <= c.result.updated
        BY <1>5, <3>1, CommitAdvances DEF SnapshotInv
      <3>4. /\ checkpoints[i].processed < new.processed
            /\ checkpoints[i].created <= new.created
        BY <3>2, <3>3 DEF CheckpointOf
      <3>5. /\ checkpoints[k] \in CheckpointRow
            /\ checkpoints[i] \in CheckpointRow
            /\ new \in CheckpointRow
        BY <1>1
      <3> HIDE DEF new
      <3>6. QED
        BY <3>2, <3>4, <3>5 DEF CheckpointRow
    <2>3. /\ new.created <= new.created
          /\ new.processed <= new.processed
      BY <1>1 DEF CheckpointRow
    <2> HIDE DEF new, n
    <2>4. QED
      BY <1>1, <1>2, <2>1, <2>2, <2>3
  <1>6. QED
    BY <1>4, <1>5

LEMMA CountedOnceStep ==
  ASSUME ConflictAborts, RefInv, SnapshotInv, NEW s \in Sessions, CommitRun(s)
  PROVE  PassesCountedOnce'
  <1> DEFINE c == call[s]
             n == Len(checkpoints) + 1
             new == CheckpointOf(c.run, c.result)
  <1> USE DEF RefInv
  <1>1. /\ c \in WriteCall
        /\ DOMAIN checkpoints' = DOMAIN checkpoints \cup {n}
        /\ checkpoints'[n] = new
        /\ \A i \in DOMAIN checkpoints : checkpoints'[i] = checkpoints[i]
        /\ \A i \in DOMAIN checkpoints : checkpoints[i] \in CheckpointRow
        /\ new \in CheckpointRow
    BY CommitEffect
  <1>2. ASSUME NEW k \in DOMAIN checkpoints, checkpoints[k].run = c.run
        PROVE  checkpoints[k].processed # new.processed
    <2>1. c.run \in Runs /\ runs[c.run] # NoRow
      BY <1>1, <1>2 DEF ForeignKeys, WriteCall
    <2>2. PICK i \in DOMAIN checkpoints :
            /\ checkpoints[i] = CheckpointOf(c.run, runs[c.run])
            /\ checkpoints[k].processed <= checkpoints[i].processed
      BY <1>2, <2>1 DEF SnapshotInv, RowIsLastCheckpoint
    <2>3. runs[c.run].processed < c.result.processed
      BY <2>1, CommitAdvances DEF SnapshotInv
    <2>4. checkpoints[i].processed < new.processed
      BY <2>2, <2>3 DEF CheckpointOf
    <2>5. /\ checkpoints[k] \in CheckpointRow
          /\ checkpoints[i] \in CheckpointRow
          /\ new \in CheckpointRow
      BY <1>1
    <2> HIDE DEF new
    <2>6. QED
      BY <2>2, <2>4, <2>5 DEF CheckpointRow
  <1>3. new.run = c.run
    BY DEF CheckpointOf
  <1>4. \A r \in Runs : \A i, k \in DOMAIN checkpoints :
          (/\ checkpoints[i].run = r /\ checkpoints[i].status = "completed"
           /\ checkpoints[k].run = r /\ checkpoints[k].status = "completed"
           /\ i # k) => checkpoints[i].processed # checkpoints[k].processed
    BY DEF SnapshotInv, PassesCountedOnce, Completed
  <1> HIDE DEF new, n
  <1>5. QED
    BY <1>1, <1>2, <1>3, <1>4 DEF PassesCountedOnce, Completed

LEMMA SnapshotStep ==
  ASSUME ConflictAborts
  PROVE  RefInv /\ SnapshotInv /\ [Next]_vars => SnapshotInv'
  <1> SUFFICES ASSUME RefInv, SnapshotInv, [Next]_vars PROVE SnapshotInv'
    OBVIOUS
  <1>1. TimesOrdered' /\ ResultsAdvance'
    BY CallsStep DEF SnapshotInv
  <1>2. CASE UNCHANGED <<runs, checkpoints>>
    BY <1>1, <1>2
       DEF SnapshotInv, RowIsLastCheckpoint, PassesCountedOnce, Completed
  <1>3. ASSUME NEW s \in Sessions, CommitRun(s) PROVE SnapshotInv'
    BY <1>1, <1>3, LastCheckpointStep, CountedOnceStep DEF SnapshotInv
  <1>4. QED
    BY <1>2, <1>3, TablesStep

\* With a database that aborts conflicting writers, no two completed passes
\* over a run are counted as one, however their calls overlap or fail.
THEOREM PassesAreCountedOnce ==
  ASSUME ConflictAborts
  PROVE  Spec => []PassesCountedOnce
  <1>1. SnapshotInv => PassesCountedOnce
    BY DEF SnapshotInv
  <1>2. QED
    BY RefInit, RefStep, SnapshotInit, SnapshotStep, <1>1, PTL DEF Spec

LEMMA LastIsLatest == TypeOK /\ SnapshotInv => CheckpointAgreesWithRun
  <1> SUFFICES ASSUME TypeOK, SnapshotInv, NEW r \in Runs, runs[r] # NoRow
               PROVE  /\ \E i \in DOMAIN checkpoints : checkpoints[i].run = r
                      /\ \A k \in DOMAIN checkpoints :
                           (checkpoints[k].run = r /\ IsLatest(k)) =>
                             checkpoints[k] = CheckpointOf(r, runs[r])
    BY DEF CheckpointAgreesWithRun
  <1>1. PICK i \in DOMAIN checkpoints :
          /\ checkpoints[i] = CheckpointOf(r, runs[r])
          /\ \A k \in DOMAIN checkpoints : checkpoints[k].run = r =>
               /\ k <= i
               /\ checkpoints[k].created <= checkpoints[i].created
    BY DEF SnapshotInv, RowIsLastCheckpoint
  <1>2. checkpoints[i].run = r
    BY <1>1 DEF CheckpointOf
  <1>3. \A k \in DOMAIN checkpoints :
          k \in Nat /\ checkpoints[k].created \in Nat
    <2>1. \A k \in DOMAIN checkpoints :
            k \in Nat /\ checkpoints[k] \in CheckpointRow
      BY DEF TypeOK
    <2>2. QED
      BY <2>1 DEF CheckpointRow
  <1>4. ASSUME NEW k \in DOMAIN checkpoints,
               checkpoints[k].run = r, IsLatest(k)
        PROVE  k = i
    <2>1. \/ checkpoints[i].created < checkpoints[k].created
          \/ checkpoints[i].created = checkpoints[k].created /\ i <= k
      BY <1>2, <1>4 DEF IsLatest
    <2>2. k <= i /\ checkpoints[k].created <= checkpoints[i].created
      BY <1>1, <1>4
    <2>3. QED
      BY <1>3, <2>1, <2>2
  <1>5. QED
    BY <1>1, <1>2, <1>4

\* With such a database get_checkpoint always answers with a token, a count
\* and a status that one commit wrote together.
THEOREM CheckpointsAgree ==
  ASSUME ConflictAborts
  PROVE  Spec => []CheckpointAgreesWithRun
  <1>1. RefInv /\ SnapshotInv => CheckpointAgreesWithRun
    BY LastIsLatest DEF RefInv
  <1>2. QED
    BY RefInit, RefStep, SnapshotInit, SnapshotStep, <1>1, PTL DEF Spec
-----------------------------------------------------------------------------
(* Completed runs, whatever the database does with conflicts *)

\* The run a call is about to insert is not in the table, and no other call
\* works on it.
FreshRuns ==
  \A s \in Sessions :
    (call[s].step \in {"read", "write"} /\ call[s].seen = NoRow) =>
      /\ runs[call[s].run] = NoRow
      /\ \A t \in Sessions \ {s} :
           call[t].step \in {"read", "write"} => call[t].run # call[s].run

CompletedInv == RefInv /\ TimesOrdered /\ ResultsAdvance /\ FreshRuns

LEMMA FreshStep ==
  ASSUME RefInv, ResultsAdvance, FreshRuns, [Next]_vars
  PROVE  FreshRuns'
  <1> USE DEF RefInv, TypeOK, tables, FreshRuns
  <1>1. CASE Tick
    BY <1>1 DEF Tick
  <1>2. ASSUME NEW s \in Sessions, Step(s) PROVE FreshRuns'
    <2>1. CASE CreateJob(s)
      BY <2>1 DEF CreateJob
    <2>2. ASSUME NEW j \in Jobs, NEW scope \in Scopes, BeginPlan(s, j, scope)
          PROVE  FreshRuns'
      BY <2>2 DEF BeginPlan
    <2>3. CASE CommitPlan(s)
      BY <2>3 DEF CommitPlan, Idle
    <2>4. ASSUME NEW p \in PlanIds, NEW dry \in BOOLEAN, BeginExecute(s, p, dry)
          PROVE  FreshRuns'
      <3>1. PICK r \in Runs \ DrawnRuns :
              /\ runs[r] = NoRow
              /\ call' = [call EXCEPT ![s] = [step |-> "read", run |-> r,
                            plan |-> p, seen |-> NoRow, dry |-> dry]]
        BY <2>4 DEF BeginExecute
      <3>2. \A t \in Sessions :
              call[t].step \in {"read", "write"} => call[t].run # r
        BY <3>1 DEF DrawnRuns
      <3>3. runs' = runs
        BY <2>4 DEF BeginExecute
      <3>4. QED
        BY <3>1, <3>2, <3>3
    <2>5. ASSUME NEW r \in Runs, ReadRun(s, r) PROVE FreshRuns'
      BY <2>5 DEF ReadRun
    <2>6. CASE Compute(s)
      BY <2>6 DEF Compute
    <2>7. CASE CommitRun(s)
      <3>1. call[s] \in WriteCall
        BY <2>7, CallTypes DEF CommitRun
      <3>2. QED
        BY <2>7, <3>1 DEF CommitRun, Idle, WriteCall
    <2>8. CASE FailCall(s)
      BY <2>8 DEF FailCall, Idle
    <2>9. QED
      BY <1>2, <2>1, <2>2, <2>3, <2>4, <2>5, <2>6, <2>7, <2>8
         DEF Step, ResumeRun, ResumePlan, LatestForPlan
  <1>3. CASE UNCHANGED vars
    BY <1>3 DEF vars
  <1>4. QED
    BY <1>1, <1>2, <1>3 DEF Next

\* A completed run stays completed even where a late writer overwrites: a call
\* that rewrites a run read it, and a call that read a run writes "completed".
THEOREM CompletedRunsStay == Spec => CompletedStays
  <1>1. Init => CompletedInv
    BY RefInit, LifecycleAssumption
       DEF Init, CompletedInv, TimesOrdered, ResultsAdvance, FreshRuns, Idle
  <1>2. CompletedInv /\ [Next]_vars => CompletedInv'
    BY RefStep, CallsStep, FreshStep DEF CompletedInv
  <1>3. CompletedInv /\ [Next]_vars =>
          [\A r \in Runs :
             (runs[r] # NoRow /\ runs[r].status = "completed")
               => (runs'[r] # NoRow /\ runs'[r].status = "completed")]_vars
    <2>1. SUFFICES ASSUME CompletedInv, [Next]_vars, NEW r \in Runs,
                          runs[r] # NoRow, runs[r].status = "completed"
                   PROVE  runs'[r] # NoRow /\ runs'[r].status = "completed"
      OBVIOUS
    <2>2. CASE UNCHANGED <<runs, checkpoints>>
      BY <2>1, <2>2
    <2>3. ASSUME NEW s \in Sessions, CommitRun(s)
          PROVE  runs'[r] # NoRow /\ runs'[r].status = "completed"
      <3>1. /\ call[s] \in WriteCall
            /\ runs' = [runs EXCEPT ![call[s].run] = call[s].result]
        BY <2>1, <2>3, CommitEffect DEF CompletedInv, RefInv
      <3>2. CASE r # call[s].run
        BY <2>1, <3>1, <3>2 DEF CompletedInv, RefInv, TypeOK
      <3>3. CASE r = call[s].run
        <4>1. call[s].seen # NoRow
          BY <2>1, <2>3, <3>1, <3>3 DEF CompletedInv, FreshRuns, CommitRun
        <4>2. call[s].result.status = "completed"
          BY <2>1, <2>3, <3>1, <4>1
             DEF CompletedInv, ResultsAdvance, Advances, CommitRun
        <4>3. call[s].result # NoRow
          BY <3>1, LifecycleAssumption DEF WriteCall
        <4>4. runs'[r] = call[s].result
          BY <2>1, <3>1, <3>3 DEF CompletedInv, RefInv, TypeOK
        <4>5. QED
          BY <4>2, <4>3, <4>4
      <3>4. QED
        BY <3>2, <3>3
    <2>4. QED
      BY <2>1, <2>2, <2>3, TablesStep
  <1>4. QED
    BY <1>1, <1>2, <1>3, PTL DEF Spec, CompletedStays
-----------------------------------------------------------------------------
(* The implementation of the ledger *)

\* The entry of a row is an entry, never the mark of a missing one.
LEMMA EntryIsNotNone ==
  ASSUME NEW row \in RunRow
  PROVE  /\ LedgerOf(row) = [plan |-> row.plan, done |-> row.processed,
                             paused |-> row.status = "paused"]
         /\ LedgerOf(row) # NoRow
  <1>1. row # NoRow
    BY LifecycleAssumption
  <1>2. [plan |-> row.plan, done |-> row.processed,
         paused |-> row.status = "paused"]
           \in [plan : PlanIds, done : Nat, paused : BOOLEAN]
    BY DEF RunRow
  <1>3. QED
    BY <1>1, <1>2, LifecycleAssumption DEF LedgerOf

LEMMA LedgerInit == Init => Ledger!Init
  BY DEF Init, Ledger!Init, LedgerOf

\* A commit opens an entry or advances one by a chunk: the row it replaces is
\* the row the executor started from.
LEMMA CommitIsLedgerStep ==
  ASSUME ConflictAborts, RefInv, SnapshotInv, NEW s \in Sessions, CommitRun(s)
  PROVE  Ledger!Next
  <1> DEFINE r == call[s].run
             new == call[s].result
             L == [q \in Runs |-> LedgerOf(runs[q])]
  <1>1. /\ call[s] \in WriteCall
        /\ runs' = [runs EXCEPT ![r] = new]
    BY CommitEffect DEF RefInv
  <1>2. r \in Runs /\ new \in RunRow /\ runs \in [Runs -> RunRow \cup {NoRow}]
    BY <1>1 DEF WriteCall, RefInv, TypeOK
  <1>3. [q \in Runs |-> LedgerOf(runs'[q])]
          = [L EXCEPT ![r] = [plan |-> new.plan, done |-> new.processed,
                              paused |-> new.status = "paused"]]
    BY <1>1, <1>2, EntryIsNotNone
  <1>4. CASE runs[r] = NoRow
    <2>1. L[r] = NoRow
      BY <1>2, <1>4 DEF LedgerOf
    <2>2. Opens(new)
      BY <1>1, <1>4 DEF SnapshotInv, ResultsAdvance, CommitRun, MayWrite, WriteCall
    <2>3. new.plan \in PlanIds
      BY <1>2 DEF RunRow
    <2>4. CASE new.status = "paused" /\ new.processed = 0
      <3>1. Ledger!OpenDry(r, new.plan)
        BY <1>3, <2>1, <2>4 DEF Ledger!OpenDry
      <3>2. QED
        BY <1>2, <2>3, <3>1 DEF Ledger!Next
    <2>5. CASE new.status = "completed" /\ new.processed = Chunk[new.plan]
      <3>1. Ledger!OpenReal(r, new.plan)
        BY <1>3, <2>1, <2>5 DEF Ledger!OpenReal
      <3>2. QED
        BY <1>2, <2>3, <3>1 DEF Ledger!Next
    <2>6. QED
      BY <2>2, <2>4, <2>5 DEF Opens
  <1>5. CASE runs[r] # NoRow
    <2>1. runs[r] \in RunRow
      BY <1>2, <1>5
    <2>2. Advances(runs[r], new)
      BY <1>5, CommitAdvances DEF RefInv, SnapshotInv
    <2>3. /\ L[r] # NoRow
          /\ L[r].plan = runs[r].plan
          /\ L[r].done = runs[r].processed
      BY <1>2, <2>1, EntryIsNotNone
    <2>4. Ledger!Pass(r)
      BY <1>3, <2>2, <2>3 DEF Ledger!Pass, Advances
    <2>5. QED
      BY <1>2, <2>4 DEF Ledger!Next
  <1>6. QED
    BY <1>4, <1>5

\* With a database that aborts conflicting writers the tables implement the
\* ledger: overlapping and failing calls have the effect of calls made one
\* after the other.
THEOREM RunsImplementLedger ==
  ASSUME ConflictAborts
  PROVE  Spec => ImplementsLedger
  <1>1. RefInv /\ SnapshotInv /\ [Next]_vars
          => [Ledger!Next]_([r \in Runs |-> LedgerOf(runs[r])])
    <2>1. SUFFICES ASSUME RefInv, SnapshotInv, [Next]_vars
                   PROVE  \/ Ledger!Next
                          \/ UNCHANGED [r \in Runs |-> LedgerOf(runs[r])]
      OBVIOUS
    <2>2. CASE UNCHANGED <<runs, checkpoints>>
      BY <2>2 DEF LedgerOf
    <2>3. CASE \E s \in Sessions : CommitRun(s)
      BY <2>1, <2>3, CommitIsLedgerStep
    <2>4. QED
      BY <2>1, <2>2, <2>3, TablesStep
  <1>2. QED
    BY RefInit, RefStep, SnapshotInit, SnapshotStep, LedgerInit, <1>1, PTL
       DEF Spec, ImplementsLedger, Ledger!Spec
-----------------------------------------------------------------------------
(* Counts, whatever the database does with conflicts *)

\* A row counts a whole number of chunks, no more than passes were completed.
Counted(r, row) ==
  \E k \in 0 .. Cardinality(Completed(r)) : row.processed = k * Chunk[row.plan]

\* Rows are counted, and so is what a call has read of one, however many passes
\* were committed since; a commit adds one chunk and one completed pass to that.
CountInv ==
  /\ \A r \in Runs : runs[r] # NoRow =>
       /\ Counted(r, runs[r])
       /\ \E i \in DOMAIN checkpoints :
            /\ checkpoints[i].run = r
            /\ checkpoints[i].processed = runs[r].processed
  /\ \A s \in Sessions :
       (call[s].step \in {"read", "write"} /\ call[s].seen # NoRow) =>
         Counted(call[s].run, call[s].seen)

LEMMA CompletedFinite ==
  ASSUME TypeOK, NEW r \in Runs
  PROVE  IsFiniteSet(Completed(r)) /\ Cardinality(Completed(r)) \in Nat
  <1>1. DOMAIN checkpoints = 1 .. Len(checkpoints) /\ Len(checkpoints) \in Nat
    BY DEF TypeOK
  <1>2. IsFiniteSet(DOMAIN checkpoints)
    BY <1>1, FS_Interval
  <1>3. Completed(r) \in SUBSET DOMAIN checkpoints
    BY DEF Completed
  <1>4. QED
    BY <1>2, <1>3, FS_Subset, FS_CardinalityType

\* A commit adds at most its own checkpoint to the completed passes.
LEMMA CompletedAfterCommit ==
  ASSUME TypeOK, NEW s \in Sessions, CommitRun(s), NEW r \in Runs
  PROVE  Cardinality(Completed(r))' =
           IF r = call[s].run /\ call[s].result.status = "completed"
           THEN Cardinality(Completed(r)) + 1 ELSE Cardinality(Completed(r))
  <1> DEFINE n == Len(checkpoints) + 1
             row == CheckpointOf(call[s].run, call[s].result)
  <1>1. /\ DOMAIN checkpoints' = DOMAIN checkpoints \cup {n}
        /\ n \notin DOMAIN checkpoints
        /\ checkpoints'[n] = row
        /\ \A i \in DOMAIN checkpoints : checkpoints'[i] = checkpoints[i]
    <2>1. Len(checkpoints) \in Nat
      BY DEF TypeOK
    <2>2. \A i \in DOMAIN checkpoints : i \in Nat /\ i < n
      BY CommitEffect
    <2>3. n \notin DOMAIN checkpoints
      BY <2>1, <2>2
    <2>4. QED
      BY <2>3, CommitEffect
  <1>2. row.run = call[s].run /\ row.status = call[s].result.status
    BY DEF CheckpointOf
  <1>3. n \notin Completed(r) /\ IsFiniteSet(Completed(r))
    BY <1>1, CompletedFinite DEF Completed
  <1>4. CASE r = call[s].run /\ call[s].result.status = "completed"
    <2>1. Completed(r)' = Completed(r) \cup {n}
      BY <1>1, <1>2, <1>4 DEF Completed
    <2>2. QED
      BY <1>3, <1>4, <2>1, FS_AddElement
  <1>5. CASE ~(r = call[s].run /\ call[s].result.status = "completed")
    <2>1. Completed(r)' = Completed(r)
      BY <1>1, <1>2, <1>5 DEF Completed
    <2>2. QED
      BY <1>5, <2>1
  <1>6. QED
    BY <1>4, <1>5

\* What was counted stays counted.
LEMMA CountedStays ==
  ASSUME TypeOK, NEW s \in Sessions, CommitRun(s), NEW r \in Runs, NEW row, Counted(r, row)
  PROVE  Counted(r, row)'
  <1>1. Cardinality(Completed(r)) \in Nat
    BY CompletedFinite
  <1>2. Cardinality(Completed(r))' \in Nat
        /\ Cardinality(Completed(r)) <= Cardinality(Completed(r))'
    BY <1>1, CompletedAfterCommit
  <1>3. PICK k \in 0 .. Cardinality(Completed(r)) : row.processed = k * Chunk[row.plan]
    BY DEF Counted
  <1>4. k \in 0 .. Cardinality(Completed(r))'
    BY <1>1, <1>2, <1>3
  <1>5. QED
    BY <1>3, <1>4 DEF Counted

LEMMA ResultCounted ==
  ASSUME RefInv, ResultsAdvance, CountInv, NEW s \in Sessions, CommitRun(s),
         NEW r, r = call[s].run, NEW new, new = call[s].result
  PROVE  Counted(r, new)'
  <1> DEFINE old == call[s].seen
             before == Cardinality(Completed(r))
             after == Cardinality(Completed(r))'
  <1>1. /\ call[s] \in WriteCall /\ call[s].step = "write"
        /\ r \in Runs /\ new \in RunRow /\ old \in RunRow \cup {NoRow}
    BY CommitEffect DEF RefInv, WriteCall
  <1>2. Chunk[new.plan] \in Nat \ {0}
    BY <1>1, ChunkIsPositive DEF RunRow
  <1>3. /\ before \in Nat
        /\ after = IF new.status = "completed" THEN before + 1 ELSE before
    BY <1>1, CompletedFinite, CompletedAfterCommit DEF RefInv
  <1>4. CASE old = NoRow
    <2>1. Opens(new)
      BY <1>1, <1>4 DEF ResultsAdvance
    <2>2. CASE new.processed = 0
      <3>1. new.processed = 0 * Chunk[new.plan] /\ 0 \in 0 .. after
        BY <1>2, <1>3, <2>2
      <3>2. QED
        BY <3>1 DEF Counted
    <2>3. CASE new.status = "completed" /\ new.processed = Chunk[new.plan]
      <3>1. new.processed = 1 * Chunk[new.plan] /\ 1 \in 0 .. after
        BY <1>2, <1>3, <2>3
      <3>2. QED
        BY <3>1 DEF Counted
    <2>4. QED
      BY <2>1, <2>2, <2>3 DEF Opens
  <1>5. CASE old # NoRow
    <2>1. /\ new.plan = old.plan /\ new.status = "completed"
          /\ new.processed = old.processed + Chunk[new.plan]
      BY <1>1, <1>5 DEF ResultsAdvance, Advances
    <2>2. PICK k \in 0 .. before : old.processed = k * Chunk[new.plan]
      BY <1>1, <1>5, <2>1 DEF CountInv, Counted
    <2>3. k + 1 \in 0 .. after
      BY <1>3, <2>1, <2>2
    <2>4. \A m, c \in Nat : m * c + c = (m + 1) * c
      OBVIOUS
    <2>5. new.processed = (k + 1) * Chunk[new.plan]
      BY <1>2, <1>3, <2>1, <2>2, <2>4
    <2>6. QED
      BY <2>3, <2>5 DEF Counted
  <1>6. QED
    BY <1>4, <1>5

LEMMA CountInit == Init => CountInv
  BY DEF Init, CountInv, Idle

LEMMA CountCommitStep ==
  ASSUME RefInv, ResultsAdvance, CountInv, NEW s \in Sessions, CommitRun(s)
  PROVE  CountInv'
  <1> DEFINE r == call[s].run
             n == Len(checkpoints) + 1
  <1>1. /\ TypeOK /\ r \in Runs /\ call[s].result # NoRow
        /\ runs' = [runs EXCEPT ![r] = call[s].result]
        /\ DOMAIN checkpoints' = DOMAIN checkpoints \cup {n}
        /\ checkpoints'[n] = CheckpointOf(r, call[s].result)
        /\ \A i \in DOMAIN checkpoints : checkpoints'[i] = checkpoints[i]
    BY CommitEffect, LifecycleAssumption DEF RefInv, WriteCall
  <1>2. ASSUME NEW q \in Runs, runs'[q] # NoRow
        PROVE  /\ Counted(q, runs[q])'
               /\ \E i \in DOMAIN checkpoints' :
                    /\ checkpoints'[i].run = q
                    /\ checkpoints'[i].processed = runs'[q].processed
    <2>1. CASE q = r
      <3>1. runs'[q] = call[s].result
        BY <1>1, <2>1 DEF TypeOK
      <3>2. call'[s] = Idle
        BY DEF CommitRun, RefInv, TypeOK
      <3>3. Counted(q, runs[q])'
        BY <2>1, <3>1, ResultCounted DEF Counted
      <3>4. n \in DOMAIN checkpoints'
            /\ checkpoints'[n].run = q /\ checkpoints'[n].processed = runs'[q].processed
        BY <1>1, <2>1, <3>1 DEF CheckpointOf
      <3>5. QED
        BY <3>3, <3>4
    <2>2. CASE q # r
      <3>1. runs'[q] = runs[q] /\ runs[q] # NoRow
        BY <1>1, <1>2, <2>2 DEF TypeOK
      <3>2. Counted(q, runs[q]) /\ \E i \in DOMAIN checkpoints :
                    /\ checkpoints[i].run = q
                    /\ checkpoints[i].processed = runs[q].processed
        BY <3>1 DEF CountInv
      <3>3. Counted(q, runs[q])'
        BY <1>1, <3>1, <3>2, CountedStays DEF Counted
      <3>4. QED
        BY <1>1, <3>1, <3>2, <3>3
    <2>3. QED
      BY <2>1, <2>2
  <1>3. ASSUME NEW t \in Sessions, call'[t].step \in {"read", "write"},
               call'[t].seen # NoRow
        PROVE  Counted(call[t].run, call[t].seen)'
    <2>1. call'[t] = call[t]
      BY <1>1, <1>3 DEF CommitRun, TypeOK, Idle
    <2>2. call[t].run \in Runs
      BY <1>1, <1>3, <2>1, CallTypes DEF ReadCall, WriteCall
    <2>3. Counted(call[t].run, call[t].seen)
      BY <1>3, <2>1 DEF CountInv
    <2>4. QED
      BY <1>1, <2>1, <2>2, <2>3, CountedStays DEF Counted
  <1>4. QED
    BY <1>2, <1>3 DEF CountInv

\* Elsewhere the tables stay, and a call reads a row of them or keeps the one
\* it has read.
LEMMA CountOtherStep ==
  ASSUME RefInv, CountInv, [Next]_vars, UNCHANGED <<runs, checkpoints>>
  PROVE  CountInv'
  <1> USE DEF RefInv, TypeOK, tables
  <1>1. \A r, row : Counted(r, row) => Counted(r, row)'
    BY DEF Counted, Completed
  <1>2. ASSUME NEW t \in Sessions, call'[t].step \in {"read", "write"},
               call'[t].seen # NoRow
        PROVE  \/ /\ call[t].step \in {"read", "write"}
                  /\ call'[t].run = call[t].run /\ call'[t].seen = call[t].seen
               \/ /\ call'[t].run \in Runs
                  /\ call'[t].seen = runs[call'[t].run]
    <2>1. CASE UNCHANGED call
      BY <1>2, <2>1
    <2>2. ASSUME NEW s \in Sessions, Step(s)
          PROVE  \/ call'[t] = call[t]
                 \/ /\ call[t].step \in {"read", "write"}
                    /\ call'[t].run = call[t].run /\ call'[t].seen = call[t].seen
                 \/ /\ call'[t].run \in Runs
                    /\ call'[t].seen = runs[call'[t].run]
      <3>1. CASE CreateJob(s)
        BY <3>1 DEF CreateJob
      <3>2. ASSUME NEW j \in Jobs, NEW scope \in Scopes, BeginPlan(s, j, scope)
            PROVE  call'[t] = call[t]
        BY <1>2, <3>2 DEF BeginPlan
      <3>3. CASE CommitPlan(s)
        BY <1>2, <3>3 DEF CommitPlan, Idle
      <3>4. ASSUME NEW p \in PlanIds, NEW dry \in BOOLEAN, BeginExecute(s, p, dry)
            PROVE  call'[t] = call[t]
        BY <1>2, <3>4 DEF BeginExecute
      <3>5. ASSUME NEW r \in Runs, ReadRun(s, r)
            PROVE  \/ call'[t] = call[t]
                   \/ call'[t].run \in Runs /\ call'[t].seen = runs[call'[t].run]
        BY <3>5 DEF ReadRun
      <3>6. CASE Compute(s)
        BY <3>6 DEF Compute
      <3>7. CASE CommitRun(s)
        BY <1>2, <3>7 DEF CommitRun, Idle
      <3>8. CASE FailCall(s)
        BY <1>2, <3>8 DEF FailCall, Idle
      <3>9. QED
        BY <2>2, <3>1, <3>2, <3>3, <3>4, <3>5, <3>6, <3>7, <3>8
           DEF Step, ResumeRun, ResumePlan, LatestForPlan
    <2>3. QED
      BY <1>2, <2>1, <2>2 DEF Next, vars, Tick
  <1>3. ASSUME NEW t \in Sessions, call'[t].step \in {"read", "write"},
               call'[t].seen # NoRow
        PROVE  Counted(call'[t].run, call'[t].seen)
    BY <1>2, <1>3 DEF CountInv
  <1>4. \A r \in Runs : runs'[r] # NoRow =>
          /\ Counted(r, runs[r])'
          /\ \E i \in DOMAIN checkpoints' :
               /\ checkpoints'[i].run = r
               /\ checkpoints'[i].processed = runs'[r].processed
    BY DEF CountInv, Counted, Completed
  <1>5. \A t \in Sessions :
          (call'[t].step \in {"read", "write"} /\ call'[t].seen # NoRow) =>
            Counted(call[t].run, call[t].seen)'
    BY <1>3 DEF Counted, Completed
  <1>6. QED
    BY <1>4, <1>5 DEF CountInv

\* k chunks are a whole number of chunks, and no more than n >= k chunks.
LEMMA WholeChunks ==
  ASSUME NEW n \in Nat, NEW k \in 0 .. n, NEW size \in Nat \ {0}
  PROVE  (k * size) % size = 0 /\ k * size <= size * n
  <1>1. PICK d \in Nat : n = k + d
    BY n - k \in Nat
  <1>2. size * n = k * size + size * d /\ size * d \in Nat
    BY <1>1
  <1>3. (k * size) % size = 0
    OBVIOUS
  <1>4. k * size \in Nat
    OBVIOUS
  <1>5. QED
    BY <1>2, <1>3, <1>4

LEMMA CountedMeans == TypeOK /\ CountInv => NeverOvercounts
  <1> SUFFICES ASSUME TypeOK, CountInv, NEW r \in Runs, runs[r] # NoRow
               PROVE  LET size == Chunk[runs[r].plan]
                      IN /\ runs[r].processed <= size * Cardinality(Completed(r))
                         /\ runs[r].processed % size = 0
    BY DEF NeverOvercounts, CountInv
  <1> DEFINE n == Cardinality(Completed(r))
             size == Chunk[runs[r].plan]
  <1>1. n \in Nat /\ size \in Nat \ {0}
    BY CompletedFinite, ChunkIsPositive DEF TypeOK, RunRow
  <1>2. PICK k \in 0 .. n : runs[r].processed = k * size
    BY DEF CountInv, Counted
  <1> HIDE DEF n, size
  <1>3. (k * size) % size = 0 /\ k * size <= size * n
    BY <1>1, WholeChunks
  <1>4. runs[r].processed % size = 0 /\ runs[r].processed <= size * n
    BY <1>2, <1>3, Zenon
  <1>5. QED
    BY <1>4 DEF n, size

\* Progress is never overstated, for any number of callers and over either kind
\* of database: a late writer overwrites with one chunk more than it read, and
\* adds a completed pass when it does.
THEOREM RunsNeverOvercount == Spec => []NeverOvercounts
  <1>1. Init => RefInv /\ TimesOrdered /\ ResultsAdvance /\ CountInv
    BY RefInit, CountInit, LifecycleAssumption
       DEF Init, TimesOrdered, ResultsAdvance, Idle
  <1>2. RefInv /\ TimesOrdered /\ ResultsAdvance /\ CountInv /\ [Next]_vars
          => (RefInv /\ TimesOrdered /\ ResultsAdvance /\ CountInv)'
    BY RefStep, CallsStep, CountCommitStep, CountOtherStep, TablesStep
  <1>3. RefInv /\ CountInv => NeverOvercounts
    BY CountedMeans DEF RefInv
  <1>4. QED
    BY <1>1, <1>2, <1>3, PTL DEF Spec
==============================================================================
