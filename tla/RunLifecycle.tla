---------------------------- MODULE RunLifecycle ----------------------------
(***************************************************************************)
(* Jobs, plans, runs and checkpoints: RuntimeService.create_job,           *)
(* create_plan, execute_plan and resume_run over one shared database.      *)
(*                                                                         *)
(* A web request (a thread of the server's pool) or a CLI process is a     *)
(* session.  Its call reads rows in one database transaction, computes,    *)
(* and writes everything it has to write at its single commit; a call that *)
(* raises, or a process that dies, before the commit leaves no trace.  The *)
(* code takes no lock and keeps no version column, so what happens to a    *)
(* call whose row was changed after it read it is the database's choice:   *)
(* with ConflictAborts (MariaDB with innodb_snapshot_isolation, the        *)
(* default from 11.6) the late writer is rolled back, without it (older    *)
(* MariaDB, MySQL, SQLite) the late writer overwrites.                     *)
(*                                                                         *)
(* Log and audit rows are left out: each commit adds them next to the rows *)
(* modelled here, and no call reads them back to decide anything.          *)
(***************************************************************************)
EXTENDS Integers, Sequences, FiniteSets

CONSTANTS Sessions,        \* concurrent callers
          Jobs,            \* identifiers uuid4 may give a job
          Scopes,          \* the scopes callers ask for
          ScopeLen,        \* [Scopes -> Nat]: names PlanRepository.get splits out
          Runs,            \* identifiers uuid4 may give a run
          ConflictAborts,  \* a write to a row changed since it was read aborts
          NoRow,           \* there is no such row
          DryRunToken,     \* the token "dry-run:0"
          MaxTime,         \* bound: the clock stops here
          MaxCheckpoints   \* bound: no more checkpoints are committed than this

\* A plan's id is a hash of its job and scope: it stands for the pair.
PlanIds == Jobs \X Scopes

Status == {"paused", "completed"}

\* checkpoint_token: "offset:n" is the number n.
Tokens == Nat \cup {DryRunToken}

RunRow == [plan : PlanIds, status : Status, processed : Nat,
           token : Tokens, updated : Nat]

CheckpointRow == [run : Runs, token : Tokens, processed : Nat,
                  status : Status, created : Nat]

ASSUME LifecycleAssumption ==
  /\ ScopeLen \in [Scopes -> Nat]
  /\ ConflictAborts \in BOOLEAN
  /\ NoRow \notin RunRow
  /\ NoRow \notin [plan : PlanIds, done : Nat, paused : BOOLEAN]
  /\ DryRunToken \notin Nat
  /\ MaxTime \in Nat
  /\ MaxCheckpoints \in Nat

VARIABLES jobs,         \* the ids of migration_jobs
          plans,        \* the ids of migration_plans
          runs,         \* migration_runs: [Runs -> RunRow \cup {NoRow}]
          checkpoints,  \* migration_checkpoints, in the order of checkpoint_id
          clock,        \* the time datetime.now returns, in the column's unit
          call          \* what each session is doing

tables == <<jobs, plans, runs, checkpoints>>
vars == <<jobs, plans, runs, checkpoints, clock, call>>

Idle == [step |-> "idle"]

PlanCall == [step : {"plan"}, plan : PlanIds, newJob : BOOLEAN, known : BOOLEAN]

ReadCall == [step : {"read"}, run : Runs, plan : PlanIds,
             seen : RunRow \cup {NoRow}, dry : BOOLEAN]

WriteCall == [step : {"write"}, run : Runs, seen : RunRow \cup {NoRow},
              result : RunRow]

Calls == {Idle} \cup PlanCall \cup ReadCall \cup WriteCall

TypeOK ==
  /\ jobs \in SUBSET Jobs
  /\ plans \in SUBSET PlanIds
  /\ runs \in [Runs -> RunRow \cup {NoRow}]
  /\ checkpoints \in Seq(CheckpointRow)
  /\ clock \in Nat
  /\ call \in [Sessions -> Calls]

Init ==
  /\ jobs = {}
  /\ plans = {}
  /\ runs = [r \in Runs |-> NoRow]
  /\ checkpoints = <<>>
  /\ clock = 0
  /\ call = [s \in Sessions |-> Idle]
-----------------------------------------------------------------------------
(* Jobs and plans *)

\* Ids that some call in flight has drawn for a job or a run it will insert.
DrawnJobs == {j \in Jobs : \E s \in Sessions :
                /\ call[s].step = "plan"
                /\ call[s].newJob
                /\ call[s].plan[1] = j}

DrawnRuns == {r \in Runs : \E s \in Sessions :
                /\ call[s].step \in {"read", "write"}
                /\ call[s].run = r}

\* create_job reads nothing: one insert, one commit.
CreateJob(s) ==
  /\ call[s] = Idle
  /\ \E j \in Jobs \ (jobs \cup DrawnJobs) : jobs' = jobs \cup {j}
  /\ UNCHANGED <<plans, runs, checkpoints, clock, call>>

\* create_plan up to its commit: the job is looked up, an unknown or absent id
\* gives a new job, and merge looks the deterministic plan id up.
BeginPlan(s, j, scope) ==
  /\ call[s] = Idle
  /\ j \notin DrawnJobs
  /\ call' = [call EXCEPT ![s] = [step   |-> "plan",
                                  plan   |-> <<j, scope>>,
                                  newJob |-> j \notin jobs,
                                  known  |-> <<j, scope>> \in plans]]
  /\ UNCHANGED <<tables, clock>>

\* Faulty, for the mutation runs: the plan is saved and its new job is not.
CommitPlanOnly(s) ==
  /\ call[s].step = "plan"
  /\ call[s].known \/ call[s].plan \notin plans
  /\ plans' = plans \cup {call[s].plan}
  /\ call' = [call EXCEPT ![s] = Idle]
  /\ UNCHANGED <<jobs, runs, checkpoints, clock>>

\* The commit inserts the new job, and inserts the plan or rewrites it.  An
\* insert of a plan that another session has inserted meanwhile is refused by
\* the primary key (FailCall).
CommitPlan(s) ==
  /\ call[s].step = "plan"
  /\ call[s].known \/ call[s].plan \notin plans
  /\ jobs' = IF call[s].newJob THEN jobs \cup {call[s].plan[1]} ELSE jobs
  /\ plans' = plans \cup {call[s].plan}
  /\ call' = [call EXCEPT ![s] = Idle]
  /\ UNCHANGED <<runs, checkpoints, clock>>
-----------------------------------------------------------------------------
(* Runs *)

MaxOf(a, b) == IF a > b THEN a ELSE b

\* max(len(plan.scope), 1): what one pass over the plan counts.
Chunk == [p \in PlanIds |-> MaxOf(ScopeLen[p[2]], 1)]

\* The row a run gets; updated_at and the checkpoint's created_at are one time.
RowOf(plan, status, processed, token, now) ==
  [plan |-> plan, status |-> status, processed |-> processed,
   token |-> token, updated |-> now]

Base(seen) == IF seen = NoRow THEN 0 ELSE seen.processed

DryToken(seen) == IF seen = NoRow THEN DryRunToken ELSE seen.token

\* Faulty executors, for the mutation runs: a dry run without a token, a resume
\* that starts from nothing, a pass that counts the bare scope, a dry run that
\* counts its scope, a resume that leaves the run paused.
ExecuteNoToken(plan, dry, seen, now) ==
  LET next == Base(seen) + Chunk[plan]
  IN IF dry THEN RowOf(plan, "paused", Base(seen), NoRow, now)
            ELSE RowOf(plan, "completed", next, next, now)

ExecuteFromNothing(plan, dry, seen, now) ==
  IF dry THEN RowOf(plan, "paused", Base(seen), DryToken(seen), now)
         ELSE RowOf(plan, "completed", Chunk[plan], Chunk[plan], now)

ExecuteBareScope(plan, dry, seen, now) ==
  LET next == Base(seen) + ScopeLen[plan[2]]
  IN IF dry THEN RowOf(plan, "paused", Base(seen), DryToken(seen), now)
            ELSE RowOf(plan, "completed", next, next, now)

ExecuteDryCounts(plan, dry, seen, now) ==
  LET next == Base(seen) + Chunk[plan]
  IN IF dry THEN RowOf(plan, "paused", next, DryToken(seen), now)
            ELSE RowOf(plan, "completed", next, next, now)

ExecuteStaysPaused(plan, dry, seen, now) ==
  LET next == Base(seen) + Chunk[plan]
  IN IF dry THEN RowOf(plan, "paused", Base(seen), DryToken(seen), now)
     ELSE RowOf(plan, IF seen = NoRow THEN "completed" ELSE "paused",
                next, next, now)

\* ExecutionService.execute at time now; seen is resume_from.
Execute(plan, dry, seen, now) ==
  LET next == Base(seen) + Chunk[plan]
  IN IF dry THEN RowOf(plan, "paused", Base(seen), DryToken(seen), now)
            ELSE RowOf(plan, "completed", next, next, now)

\* execute_plan reads the plan (PLAN_NOT_FOUND ends the call at once) and
\* draws a fresh run id.
BeginExecute(s, p, dry) ==
  /\ call[s] = Idle
  /\ p \in plans
  /\ \E r \in Runs \ DrawnRuns :
       /\ runs[r] = NoRow
       /\ call' = [call EXCEPT ![s] = [step |-> "read", run |-> r, plan |-> p,
                                       seen |-> NoRow, dry |-> dry]]
  /\ UNCHANGED <<tables, clock>>

\* find_latest_for_plan: newest updated_at first.  The column keeps seconds,
\* and the query says nothing of ties.
LatestForPlan(p) ==
  {r \in Runs :
     /\ runs[r] # NoRow
     /\ runs[r].plan = p
     /\ \A q \in Runs : (runs[q] # NoRow /\ runs[q].plan = p)
                           => runs[q].updated <= runs[r].updated}

\* resume_run reads the run and its plan.  The status of the run is not looked
\* at: a completed run is resumed as a paused one is.
ReadRun(s, r) ==
  /\ call[s] = Idle
  /\ runs[r] # NoRow
  /\ runs[r].plan \in plans
  /\ call' = [call EXCEPT ![s] = [step |-> "read", run |-> r,
                                  plan |-> runs[r].plan,
                                  seen |-> runs[r], dry |-> FALSE]]
  /\ UNCHANGED <<tables, clock>>

ResumeRun(s, r) == ReadRun(s, r)

ResumePlan(s, p) == \E r \in LatestForPlan(p) : ReadRun(s, r)

\* The executor and _persist_run_result compute the rows to write and stamp
\* them with the time, before anything is committed.
Compute(s) ==
  /\ call[s].step = "read"
  /\ call' = [call EXCEPT
                ![s] = [step   |-> "write", run |-> call[s].run,
                        seen   |-> call[s].seen,
                        result |-> Execute(call[s].plan, call[s].dry,
                                           call[s].seen, clock)]]
  /\ UNCHANGED <<tables, clock>>

CheckpointOf(r, row) ==
  [run |-> r, token |-> row.token, processed |-> row.processed,
   status |-> row.status, created |-> row.updated]

\* May the database take this write?
MayWrite(r, seen) == runs[r] = seen \/ ~ConflictAborts

\* Faulty, for the mutation runs: a resume adds its checkpoint and does not save
\* the run.
CommitCheckpointOnly(s) ==
  /\ call[s].step = "write"
  /\ Len(checkpoints) < MaxCheckpoints
  /\ MayWrite(call[s].run, call[s].seen)
  /\ runs' = IF call[s].seen = NoRow
               THEN [runs EXCEPT ![call[s].run] = call[s].result] ELSE runs
  /\ checkpoints' = Append(checkpoints,
                           CheckpointOf(call[s].run, call[s].result))
  /\ call' = [call EXCEPT ![s] = Idle]
  /\ UNCHANGED <<jobs, plans, clock>>

\* The commit writes the run and adds its checkpoint.  merge updates only the
\* columns that differ from the row as read; those are the count, the token
\* and the time in every resume, and the status, which only ever becomes
\* "completed", so the row written is the whole result.
CommitRun(s) ==
  /\ call[s].step = "write"
  /\ Len(checkpoints) < MaxCheckpoints
  /\ MayWrite(call[s].run, call[s].seen)
  /\ runs' = [runs EXCEPT ![call[s].run] = call[s].result]
  /\ checkpoints' = Append(checkpoints,
                           CheckpointOf(call[s].run, call[s].result))
  /\ call' = [call EXCEPT ![s] = Idle]
  /\ UNCHANGED <<jobs, plans, clock>>

\* An exception, a refused write, a lost connection or the death of the
\* process before the commit: the transaction is rolled back.
FailCall(s) ==
  /\ call[s] # Idle
  /\ call' = [call EXCEPT ![s] = Idle]
  /\ UNCHANGED <<tables, clock>>

Tick ==
  /\ clock < MaxTime
  /\ clock' = clock + 1
  /\ UNCHANGED <<tables, call>>
-----------------------------------------------------------------------------
Step(s) ==
  \/ CreateJob(s)
  \/ \E j \in Jobs, scope \in Scopes : BeginPlan(s, j, scope)
  \/ CommitPlan(s)
  \/ \E p \in PlanIds, dry \in BOOLEAN : BeginExecute(s, p, dry)
  \/ \E r \in Runs : ResumeRun(s, r)
  \/ \E p \in PlanIds : ResumePlan(s, p)
  \/ Compute(s)
  \/ CommitRun(s)
  \/ FailCall(s)

Next == Tick \/ \E s \in Sessions : Step(s)

Spec == Init /\ [][Next]_vars
-----------------------------------------------------------------------------
(* Properties *)

\* Rows point at rows that exist (storage/models.py declares the foreign keys):
\* in particular resume_run never reaches its PLAN_NOT_FOUND branch, since the
\* plan of a run was inserted before the run and nothing deletes either.
ForeignKeys ==
  /\ \A p \in plans : p[1] \in jobs
  /\ \A r \in Runs : runs[r] # NoRow => runs[r].plan \in plans
  /\ \A i \in DOMAIN checkpoints : runs[checkpoints[i].run] # NoRow

\* CheckpointRepository.latest_for_run: newest created_at, then highest id.
IsLatest(i) ==
  \A k \in DOMAIN checkpoints :
    checkpoints[k].run = checkpoints[i].run =>
      \/ checkpoints[k].created < checkpoints[i].created
      \/ checkpoints[k].created = checkpoints[i].created /\ k <= i

\* get_checkpoint answers with the token of the latest checkpoint next to the
\* count and the status of the run row.  The three belong to one pass: the
\* checkpoint that sorts first is the one the run row was written with.
CheckpointAgreesWithRun ==
  \A r \in Runs : runs[r] # NoRow =>
    /\ \E i \in DOMAIN checkpoints : checkpoints[i].run = r
    /\ \A i \in DOMAIN checkpoints :
         (checkpoints[i].run = r /\ IsLatest(i)) =>
           checkpoints[i] = CheckpointOf(r, runs[r])

Completed(r) == {i \in DOMAIN checkpoints :
                   /\ checkpoints[i].run = r
                   /\ checkpoints[i].status = "completed"}

\* "Executes or resumes migration runs in deterministic chunks": every pass a
\* caller was told had completed moved the run to an offset of its own, so no
\* two passes over a run were counted as one.
PassesCountedOnce ==
  \A r \in Runs : \A i, k \in Completed(r) :
    i # k => checkpoints[i].processed # checkpoints[k].processed

\* Whatever the database does with conflicts, progress is never overstated: a
\* run counts at most one chunk for each of its completed passes, a whole
\* number of chunks, and a count that some checkpoint of the run reported.
NeverOvercounts ==
  \A r \in Runs : runs[r] # NoRow =>
    LET size == Chunk[runs[r].plan]
    IN /\ runs[r].processed <= size * Cardinality(Completed(r))
       /\ runs[r].processed % size = 0
       /\ \E i \in DOMAIN checkpoints :
            /\ checkpoints[i].run = r
            /\ checkpoints[i].processed = runs[r].processed

\* A run that was reported completed is never paused again, whatever calls
\* that read it earlier still have to write.
CompletedStays ==
  [][\A r \in Runs :
       (runs[r] # NoRow /\ runs[r].status = "completed")
          => (runs'[r] # NoRow /\ runs'[r].status = "completed")]_vars

\* The run rows seen as the abstract ledger.
LedgerOf(row) ==
  IF row = NoRow THEN NoRow
  ELSE [plan |-> row.plan, done |-> row.processed,
        paused |-> row.status = "paused"]

Ledger == INSTANCE RunLedger
            WITH Plans <- PlanIds, None <- NoRow,
                 ledger <- [r \in Runs |-> LedgerOf(runs[r])]

\* Overlapping calls have the effect of calls made one after the other: each
\* commit opens a run or advances one by exactly one chunk.
ImplementsLedger == Ledger!Spec
-----------------------------------------------------------------------------
(* Why the properties of a database that aborts conflicting writers hold: the *)
(* parts of an inductive invariant.                                           *)

\* The run row was written together with a checkpoint that is last by id, by
\* time and by count.
RowIsLastCheckpoint ==
  \A r \in Runs : runs[r] # NoRow =>
    \E i \in DOMAIN checkpoints :
      /\ checkpoints[i] = CheckpointOf(r, runs[r])
      /\ \A k \in DOMAIN checkpoints : checkpoints[k].run = r =>
           /\ k <= i
           /\ checkpoints[k].created <= checkpoints[i].created
           /\ checkpoints[k].processed <= checkpoints[i].processed

\* Nothing is stamped with a time to come, and a pass is stamped no earlier
\* than the row it started from.
TimesOrdered ==
  /\ \A r \in Runs : runs[r] # NoRow => runs[r].updated <= clock
  /\ \A s \in Sessions :
       /\ (call[s].step \in {"read", "write"} /\ call[s].seen # NoRow)
            => call[s].seen.updated <= clock
       /\ call[s].step = "write" =>
            /\ call[s].result.updated <= clock
            /\ call[s].seen # NoRow
                 => call[s].seen.updated <= call[s].result.updated

\* What a row written on top of the row seen, or of none, looks like.
Opens(result) ==
  \/ result.status = "paused" /\ result.processed = 0
  \/ result.status = "completed" /\ result.processed = Chunk[result.plan]

Advances(seen, result) ==
  /\ result.plan = seen.plan
  /\ result.status = "completed"
  /\ result.processed = seen.processed + Chunk[seen.plan]

ResultsAdvance ==
  \A s \in Sessions :
    /\ (call[s].step = "read" /\ call[s].seen # NoRow) =>
         ~call[s].dry /\ call[s].plan = call[s].seen.plan
    /\ call[s].step = "write" =>
         IF call[s].seen = NoRow THEN Opens(call[s].result)
         ELSE Advances(call[s].seen, call[s].result)

SnapshotInv ==
  /\ RowIsLastCheckpoint
  /\ TimesOrdered
  /\ ResultsAdvance
  /\ PassesCountedOnce
==============================================================================
