----------------------------- MODULE SchemaSplit -----------------------------
(***************************************************************************)
(* Revision 0002 of the schema, statement by statement: plans get a job    *)
(* each, and the token of a run becomes its first checkpoint.              *)
(*                                                                         *)
(* The database is the MySQL of alembic.ini: a DDL statement commits what  *)
(* came before it and itself, and a failing one still commits what came    *)
(* before.  The last INSERT is committed with the new alembic_version.     *)
(* The process that migrates may die at any statement.  Meanwhile the      *)
(* application may start (ensure_schema creates the tables it misses, and  *)
(* changes none) and save plans.                                           *)
(*                                                                         *)
(* An index is made with the table or column it is on.  Revision 0003 only *)
(* adds tables.  The first statement of the downgrade drops the index on   *)
(* migration_logs.run_id; InnoDB refuses, as the foreign key of the column *)
(* needs it, so that the statements after it are never run.                *)
(***************************************************************************)
CONSTANTS LegacyPlans,  \* plans saved under revision 0001
          NewPlans,     \* plans the application may save
          NewJobs,      \* the jobs it may make for them
          LegacyJob,    \* [plans -> jobs]: _legacy_job_id
          Runs,         \* runs of legacy plans that have a checkpoint_token
          Portals,      \* pairs of a source and a target portal
          PortalsOf,    \* [plans -> Portals]
          Null          \* job_id is NULL

Plans == LegacyPlans \cup NewPlans
LegacyJobs == {LegacyJob[p] : p \in Plans}
Jobs == LegacyJobs \cup NewJobs

ASSUME SplitAssumption ==
  /\ LegacyPlans \cap NewPlans = {}
  /\ LegacyJob \in [Plans -> LegacyJobs]
  /\ \A p, q \in Plans : LegacyJob[p] = LegacyJob[q] => p = q
  /\ LegacyJobs \cap NewJobs = {}
  /\ PortalsOf \in [Plans -> Portals]
  /\ Null \notin Jobs

VARIABLES disk,      \* what is committed
          pending,   \* the plans the migrating connection has inserted the legacy
                     \* jobs of, and those it has linked, and not committed
          step,      \* the statement the migration is at
          todo,      \* the legacy plans the copying loop still has to visit
          disturbed  \* history: the migration died, or the application created
                     \* tables that a migration creates

vars == <<disk, pending, step, todo, disturbed>>

NewTables == {"jobs", "checkpoints", "logs"}

\* revision: alembic_version; tables: those of NewTables that exist; column:
\* migration_plans.job_id; jobs and plans: the portals and the job of each row;
\* checkpoints: the runs that have one.
Disk == [revision    : {"0001", "0002"},
         tables      : SUBSET NewTables,
         jobs        : UNION {[D -> Portals] : D \in SUBSET Jobs},
         column      : {"absent", "nullable", "required"},
         foreign_key : BOOLEAN,
         plans       : UNION {[D -> Jobs \cup {Null}] : D \in SUBSET Plans},
         checkpoints : SUBSET Runs]

UpSteps == {"create jobs", "add column", "select plans", "copy", "require job",
            "add foreign key", "create checkpoints", "create logs",
            "fill checkpoints"}

DownSteps == {"drop logs index"}

NothingPending == [jobs |-> {}, links |-> {}]

TypeOK ==
  /\ disk \in Disk
  /\ pending \in [jobs : SUBSET Plans, links : SUBSET Plans]
  /\ step \in {"none"} \cup UpSteps \cup DownSteps
  /\ todo \subseteq Plans
  /\ disturbed \in BOOLEAN

NoRows == [row \in {} |-> Null]

Init ==
  /\ disk = [revision |-> "0001", tables |-> {}, jobs |-> NoRows,
             column |-> "absent", foreign_key |-> FALSE,
             plans |-> [p \in LegacyPlans |-> Null], checkpoints |-> {}]
  /\ pending = NothingPending
  /\ step = "none"
  /\ todo = {}
  /\ disturbed = FALSE
-----------------------------------------------------------------------------
(* Statements *)

\* The disk with what the migrating connection has pending.
Committed ==
  [disk EXCEPT
     !.jobs = [j \in DOMAIN @ \cup {LegacyJob[p] : p \in pending.jobs} |->
                 IF j \in DOMAIN @ THEN @[j]
                 ELSE PortalsOf[CHOOSE p \in Plans : LegacyJob[p] = j]],
     !.plans = [p \in DOMAIN @ |->
                  IF p \in pending.links THEN LegacyJob[p] ELSE @[p]]]

\* May the statement succeed on this state of the tables?
Possible(statement, db) ==
  CASE statement = "create jobs"        -> "jobs" \notin db.tables
    [] statement = "add column"         -> db.column = "absent"
    [] statement = "require job"        -> \A p \in DOMAIN db.plans : db.plans[p] # Null
    [] statement = "add foreign key"    -> \A p \in DOMAIN db.plans :
                                             db.plans[p] \in DOMAIN db.jobs
    [] statement = "create checkpoints" -> "checkpoints" \notin db.tables
    [] statement = "create logs"        -> "logs" \notin db.tables
    [] statement = "drop logs index"    -> FALSE   \* needed in a foreign key
    [] OTHER                            -> TRUE

\* A statement that is possible and commits: the migration goes on.
Statement(statement, db, next) ==
  /\ step = statement
  /\ Possible(statement, Committed)
  /\ disk' = db
  /\ pending' = NothingPending
  /\ step' = next
  /\ UNCHANGED <<todo, disturbed>>

\* One that is not: the migration ends with an exception.
StatementFails ==
  /\ step # "none"
  /\ ~Possible(step, Committed)
  /\ disk' = Committed
  /\ pending' = NothingPending
  /\ step' = "none"
  /\ todo' = {}
  /\ UNCHANGED disturbed

\* The process dies; the server rolls back what is pending.
Crash ==
  /\ step # "none"
  /\ step' = "none"
  /\ pending' = NothingPending
  /\ todo' = {}
  /\ disturbed' = TRUE
  /\ UNCHANGED disk
-----------------------------------------------------------------------------
(* upgrade *)

StartUpgrade ==
  /\ step = "none"
  /\ disk.revision = "0001"
  /\ step' = "create jobs"
  /\ UNCHANGED <<disk, pending, todo, disturbed>>

CreateJobs ==
  Statement("create jobs", [disk EXCEPT !.tables = @ \cup {"jobs"}], "add column")

\* Faulty, for the mutation runs: the new column has a default.
AddColumnDefault ==
  Statement("add column",
            [disk EXCEPT !.column = "nullable",
                         !.plans = [p \in DOMAIN @ |-> "legacy"]],
            "select plans")

AddColumn ==
  Statement("add column", [disk EXCEPT !.column = "nullable"], "select plans")

\* The loop runs over every plan there is by now, linked or not.
SelectPlans ==
  /\ step = "select plans"
  /\ todo' = DOMAIN disk.plans
  /\ step' = IF DOMAIN disk.plans = {} THEN "require job" ELSE "copy"
  /\ UNCHANGED <<disk, pending, disturbed>>

\* Faulty, for the mutation runs: the loop makes the job and leaves the link,
\* or the other way round.
CopyLinksOnly ==
  /\ step = "copy"
  /\ \E p \in todo :
       /\ todo' = todo \ {p}
       /\ pending' = [pending EXCEPT
                        !.links = IF disk.plans[p] = Null THEN @ \cup {p} ELSE @]
       /\ step' = IF todo = {p} THEN "require job" ELSE "copy"
  /\ UNCHANGED <<disk, disturbed>>

CopyJobsOnly ==
  /\ step = "copy"
  /\ \E p \in todo :
       /\ todo' = todo \ {p}
       /\ pending' = [pending EXCEPT !.jobs = @ \cup {p}]
       /\ step' = IF todo = {p} THEN "require job" ELSE "copy"
  /\ UNCHANGED <<disk, disturbed>>

\* INSERT of the legacy job, UPDATE of the plan WHERE job_id IS NULL.
CopyPlan ==
  /\ step = "copy"
  /\ \E p \in todo :
       /\ todo' = todo \ {p}
       /\ pending' = [jobs  |-> pending.jobs \cup {p},
                      links |-> IF disk.plans[p] = Null THEN pending.links \cup {p}
                                ELSE pending.links]
       /\ step' = IF todo = {p} THEN "require job" ELSE "copy"
  /\ UNCHANGED <<disk, disturbed>>

RequireJob ==
  Statement("require job", [Committed EXCEPT !.column = "required"], "add foreign key")

AddForeignKey ==
  Statement("add foreign key", [disk EXCEPT !.foreign_key = TRUE], "create checkpoints")

CreateCheckpoints ==
  Statement("create checkpoints",
            [disk EXCEPT !.tables = @ \cup {"checkpoints"}], "create logs")

CreateLogs ==
  Statement("create logs",
            [disk EXCEPT !.tables = @ \cup {"logs"}], "fill checkpoints")

\* Faulty, for the mutation runs: the checkpoints are not filled.
FillNoCheckpoints ==
  Statement("fill checkpoints", [disk EXCEPT !.revision = "0002"], "none")

\* The INSERT ... SELECT of the checkpoints and the new revision, one commit.
FillCheckpoints ==
  Statement("fill checkpoints",
            [disk EXCEPT !.checkpoints = Runs, !.revision = "0002"], "none")
-----------------------------------------------------------------------------
(* downgrade *)

\* It gets to its first statement, which is not possible.
StartDowngrade ==
  /\ step = "none"
  /\ disk.revision = "0002"
  /\ step' = "drop logs index"
  /\ UNCHANGED <<disk, pending, todo, disturbed>>
-----------------------------------------------------------------------------
(* The application *)

\* ensure_schema creates a table that is missing; it gets to each in turn.
CreateMissing ==
  /\ \E table \in NewTables \ disk.tables :
       disk' = [disk EXCEPT !.tables = @ \cup {table}]
  /\ disturbed' = TRUE
  /\ UNCHANGED <<pending, step, todo>>

\* create_plan saves a plan, once every table is there, under the job it is
\* given, a legacy one too, whose portals the plan gets, or under a new one.
SavePlan ==
  /\ disk.tables = NewTables
  /\ disk.column # "absent"
  /\ \E p \in NewPlans \ DOMAIN disk.plans, j \in NewJobs \cup DOMAIN disk.jobs :
       /\ j \in DOMAIN disk.jobs => disk.jobs[j] = PortalsOf[p]
       /\ disk' = [disk EXCEPT
                     !.jobs = [k \in DOMAIN @ \cup {j} |->
                                 IF k = j THEN PortalsOf[p] ELSE @[k]],
                     !.plans = [q \in DOMAIN @ \cup {p} |->
                                  IF q = p THEN j ELSE @[q]]]
  /\ UNCHANGED <<pending, step, todo, disturbed>>
-----------------------------------------------------------------------------
MigrationStep ==
  \/ CreateJobs \/ AddColumn \/ SelectPlans \/ CopyPlan
  \/ RequireJob \/ AddForeignKey \/ CreateCheckpoints \/ CreateLogs
  \/ FillCheckpoints
  \/ StatementFails

Next ==
  \/ StartUpgrade \/ StartDowngrade
  \/ MigrationStep
  \/ Crash
  \/ CreateMissing
  \/ SavePlan

\* A migration that was started goes on; nobody has to start one, and neither
\* the application nor a crash has to happen.
Spec == Init /\ [][Next]_vars /\ WF_vars(MigrationStep)
-----------------------------------------------------------------------------
(* Properties *)

Linked(db, p) ==
  /\ db.plans[p] \in DOMAIN db.jobs
  /\ db.jobs[db.plans[p]] = PortalsOf[p]

\* Wherever a migration is cut off, what is committed never links a plan to a
\* job that is not there, or to one of other portals: the INSERT of the job and
\* the UPDATE of the plan are seen together.
LinksHaveJobs ==
  \A p \in DOMAIN disk.plans : disk.plans[p] = Null \/ Linked(disk, p)

\* Whatever was interrupted and run again, up or down, and whatever the
\* application created or saved before or since: the revision is 0002 only over
\* tables that are what it promises, every plan linked to a job of its portals
\* and every token of a run kept as a checkpoint.
RevisionMeansSplit ==
  disk.revision = "0002" =>
    /\ \A p \in DOMAIN disk.plans : Linked(disk, p)
    /\ disk.column = "required" /\ disk.foreign_key
    /\ Runs \subseteq disk.checkpoints
    /\ disk.tables = NewTables

\* An upgrade that nothing disturbs, now or before, gets there.
UpgradeArrives ==
  step = "create jobs" ~> (disk.revision = "0002" \/ disturbed)
==============================================================================
