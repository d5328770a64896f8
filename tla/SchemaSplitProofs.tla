-------------------------- MODULE SchemaSplitProofs --------------------------
(* Theorems about SchemaSplit. *)
EXTENDS SchemaSplit, TLAPS

PartialTo(S, T) == UNION {[D -> T] : D \in SUBSET S}

LEMMA PartialIntro ==
  ASSUME NEW S, NEW T, NEW D \in SUBSET S, NEW f \in [D -> T]
  PROVE  f \in PartialTo(S, T)
PROOF
  BY DEF PartialTo

LEMMA PartialElim ==
  ASSUME NEW S, NEW T, NEW f \in PartialTo(S, T)
  PROVE  DOMAIN f \subseteq S /\ f \in [DOMAIN f -> T]
PROOF
  BY DEF PartialTo

\* What is known of the rows: functions, whatever their domains.
LEMMA RowsTyped ==
  ASSUME TypeOK
  PROVE  /\ DOMAIN disk.jobs \subseteq Jobs
         /\ disk.jobs \in [DOMAIN disk.jobs -> Portals]
         /\ DOMAIN disk.plans \subseteq Plans
         /\ disk.plans \in [DOMAIN disk.plans -> Jobs \cup {Null}]
PROOF
  <1>1. /\ disk.jobs \in PartialTo(Jobs, Portals)
        /\ disk.plans \in PartialTo(Plans, Jobs \cup {Null})
    BY DEF TypeOK, Disk, PartialTo
  <1> QED
    BY <1>1, PartialElim

\* The job of a plan is the legacy job of no other.
LEMMA LegacyPlan ==
  \A p \in Plans : (CHOOSE q \in Plans : LegacyJob[q] = LegacyJob[p]) = p
PROOF
  BY SplitAssumption

LEMMA CommittedRows ==
  ASSUME TypeOK
  PROVE  /\ Committed.jobs \in PartialTo(Jobs, Portals)
         /\ Committed.plans \in PartialTo(Plans, Jobs \cup {Null})
         /\ DOMAIN Committed.plans = DOMAIN disk.plans
         /\ DOMAIN Committed.jobs = DOMAIN disk.jobs \cup {LegacyJob[p] : p \in pending.jobs}
         /\ \A j \in DOMAIN disk.jobs : Committed.jobs[j] = disk.jobs[j]
         /\ \A p \in pending.jobs :
              LegacyJob[p] \notin DOMAIN disk.jobs => Committed.jobs[LegacyJob[p]] = PortalsOf[p]
         /\ \A p \in DOMAIN disk.plans :
              Committed.plans[p] = IF p \in pending.links THEN LegacyJob[p] ELSE disk.plans[p]
         /\ Committed.revision = disk.revision
         /\ Committed.tables = disk.tables
         /\ Committed.column = disk.column
         /\ Committed.foreign_key = disk.foreign_key
         /\ Committed.checkpoints = disk.checkpoints
PROOF
  <1> USE SplitAssumption
  <1> DEFINE D == DOMAIN disk.jobs \cup {LegacyJob[p] : p \in pending.jobs}
             jobsAfter == [j \in D |-> IF j \in DOMAIN disk.jobs THEN disk.jobs[j]
                             ELSE PortalsOf[CHOOSE p \in Plans : LegacyJob[p] = j]]
             plansAfter == [p \in DOMAIN disk.plans |->
                              IF p \in pending.links THEN LegacyJob[p] ELSE disk.plans[p]]
  <1>1. Committed = [disk EXCEPT !.jobs = jobsAfter, !.plans = plansAfter]
    BY DEF Committed
  <1>2. /\ Committed.jobs = jobsAfter /\ Committed.plans = plansAfter
        /\ Committed.revision = disk.revision /\ Committed.tables = disk.tables
        /\ Committed.column = disk.column
        /\ Committed.foreign_key = disk.foreign_key
        /\ Committed.checkpoints = disk.checkpoints
    <2> HIDE DEF jobsAfter, plansAfter
    <2> QED
      BY <1>1 DEF TypeOK, Disk
  <1>3. pending.jobs \subseteq Plans /\ pending.links \subseteq Plans
    BY DEF TypeOK
  <1>4. D \in SUBSET Jobs
    BY <1>3, RowsTyped DEF Jobs
  <1>5. \A p \in pending.jobs : LegacyJob[p] \notin DOMAIN disk.jobs
                                  => jobsAfter[LegacyJob[p]] = PortalsOf[p]
    BY <1>3, LegacyPlan
  <1>6. jobsAfter \in [D -> Portals]
    <2>1. ASSUME NEW j \in D
          PROVE  jobsAfter[j] \in Portals
      <3>1. CASE j \in DOMAIN disk.jobs
        BY <3>1, RowsTyped
      <3>2. CASE j \notin DOMAIN disk.jobs
        BY <1>3, <1>5, <3>2
      <3> QED
        BY <3>1, <3>2
    <2> QED
      BY <2>1
  <1>7. plansAfter \in [DOMAIN disk.plans -> Jobs \cup {Null}]
    BY <1>3, RowsTyped DEF Jobs
  <1>8. /\ jobsAfter \in PartialTo(Jobs, Portals)
        /\ plansAfter \in PartialTo(Plans, Jobs \cup {Null})
    <2> HIDE DEF jobsAfter, plansAfter, D
    <2> QED
      BY <1>4, <1>6, <1>7, PartialIntro, RowsTyped
  <1> QED
    BY <1>2, <1>5, <1>8

LEMMA CommittedTyped == TypeOK => Committed \in Disk
PROOF
  <1> SUFFICES ASSUME TypeOK PROVE Committed \in Disk
    OBVIOUS
  <1>1. Committed = [disk EXCEPT !.jobs = Committed.jobs, !.plans = Committed.plans]
    BY CommittedRows DEF Committed, TypeOK, Disk
  <1>2. /\ Committed.jobs \in UNION {[D -> Portals] : D \in SUBSET Jobs}
        /\ Committed.plans \in UNION {[D -> Jobs \cup {Null}] : D \in SUBSET Plans}
    BY CommittedRows DEF PartialTo
  <1> QED
    BY <1>1, <1>2 DEF TypeOK, Disk
-----------------------------------------------------------------------------
(* The inductive invariant *)

\* A legacy job has the portals of its plan.
JobsRight ==
  \A p \in Plans : LegacyJob[p] \in DOMAIN disk.jobs
                     => disk.jobs[LegacyJob[p]] = PortalsOf[p]

\* The loop links no plan without its job, and nothing else leaves rows pending.
PendingRight ==
  /\ pending.links \subseteq pending.jobs
  /\ step \notin {"copy", "require job"} => pending = NothingPending

NotNull == \A p \in DOMAIN disk.plans : disk.plans[p] # Null

\* What each statement finds when it is reached, and what the revision says.
Reached ==
  /\ step \in UpSteps => disk.revision = "0001"
  /\ (\/ step \in {"add foreign key", "create checkpoints", "create logs", "fill checkpoints"}
      \/ disk.revision = "0002") => disk.column = "required" /\ NotNull
  /\ (\/ step \in {"create checkpoints", "create logs", "fill checkpoints"}
      \/ disk.revision = "0002") => disk.foreign_key
  /\ (\/ step \in UpSteps \ {"create jobs"}
      \/ disk.revision = "0002") => "jobs" \in disk.tables
  /\ (\/ step \in {"create logs", "fill checkpoints"}
      \/ disk.revision = "0002") => "checkpoints" \in disk.tables
  /\ (\/ step = "fill checkpoints"
      \/ disk.revision = "0002") => "logs" \in disk.tables
  /\ disk.revision = "0002" => disk.checkpoints = Runs

IInv == TypeOK /\ JobsRight /\ LinksHaveJobs /\ PendingRight /\ Reached

LEMMA InitHolds == Init => IInv
PROOF
  <1> SUFFICES ASSUME Init PROVE IInv
    OBVIOUS
  <1> USE SplitAssumption
  <1>1. DOMAIN NoRows = {} /\ NoRows \in [{} -> Portals]
    BY DEF NoRows
  <1>2. NoRows \in PartialTo(Jobs, Portals)
    BY <1>1, PartialIntro
  <1>3. [p \in LegacyPlans |-> Null] \in PartialTo(Plans, Jobs \cup {Null})
    <2>1. [p \in LegacyPlans |-> Null] \in [LegacyPlans -> Jobs \cup {Null}]
      OBVIOUS
    <2>2. LegacyPlans \in SUBSET Plans
      BY DEF Plans
    <2> QED
      BY <2>1, <2>2, PartialIntro
  <1>4. disk \in Disk
    BY <1>2, <1>3 DEF Init, Disk, PartialTo, NewTables
  <1>5. TypeOK
    BY <1>4 DEF Init, TypeOK, NothingPending
  <1>6. JobsRight
    BY <1>1 DEF Init, JobsRight
  <1>7. LinksHaveJobs
    BY DEF Init, LinksHaveJobs
  <1>8. PendingRight /\ Reached
    BY DEF Init, PendingRight, NothingPending, Reached, UpSteps
  <1> QED
    BY <1>5, <1>6, <1>7, <1>8 DEF IInv

\* What becomes of the rows when the pending ones are committed.
LEMMA CommittedHolds ==
  ASSUME IInv
  PROVE  /\ \A p \in Plans : LegacyJob[p] \in DOMAIN Committed.jobs
                               => Committed.jobs[LegacyJob[p]] = PortalsOf[p]
         /\ \A p \in DOMAIN Committed.plans :
              Committed.plans[p] = Null \/ Linked(Committed, p)
         /\ NotNull => \A p \in DOMAIN Committed.plans : Committed.plans[p] # Null
PROOF
  <1> USE SplitAssumption
  <1>1. TypeOK /\ pending.jobs \subseteq Plans
    BY DEF IInv, TypeOK
  <1>2. ASSUME NEW p \in Plans, LegacyJob[p] \in DOMAIN Committed.jobs
        PROVE  Committed.jobs[LegacyJob[p]] = PortalsOf[p]
    <2>1. CASE LegacyJob[p] \in DOMAIN disk.jobs
      BY <1>1, <2>1, CommittedRows DEF IInv, JobsRight
    <2>2. CASE LegacyJob[p] \notin DOMAIN disk.jobs
      <3>1. PICK q \in pending.jobs : LegacyJob[q] = LegacyJob[p]
        BY <1>1, <1>2, <2>2, CommittedRows
      <3>2. q = p
        BY <1>1, <3>1
      <3> QED
        BY <1>1, <2>2, <3>1, <3>2, CommittedRows
    <2> QED
      BY <2>1, <2>2
  <1>3. ASSUME NEW p \in DOMAIN Committed.plans
        PROVE  /\ Committed.plans[p] = Null \/ Linked(Committed, p)
               /\ NotNull => Committed.plans[p] # Null
    <2>1. p \in DOMAIN disk.plans /\ p \in Plans
      BY <1>1, <1>3, CommittedRows, RowsTyped
    <2>2. CASE p \in pending.links
      <3>1. Committed.plans[p] = LegacyJob[p]
        BY <1>1, <2>1, <2>2, CommittedRows
      <3>2. p \in pending.jobs
        BY <2>2 DEF IInv, PendingRight
      <3>3. LegacyJob[p] \in DOMAIN Committed.jobs
        BY <1>1, <3>2, CommittedRows
      <3>4. Linked(Committed, p)
        BY <1>2, <2>1, <3>1, <3>3 DEF Linked
      <3>5. LegacyJob[p] # Null
        BY <2>1 DEF Jobs
      <3> QED
        BY <3>1, <3>4, <3>5
    <2>3. CASE p \notin pending.links
      <3>1. Committed.plans[p] = disk.plans[p]
        BY <1>1, <2>1, <2>3, CommittedRows
      <3>2. disk.plans[p] = Null \/ Linked(disk, p)
        BY <2>1 DEF IInv, LinksHaveJobs
      <3>3. Linked(disk, p) => Linked(Committed, p)
        BY <1>1, <3>1, CommittedRows DEF Linked
      <3> QED
        BY <2>1, <3>1, <3>2, <3>3 DEF NotNull
    <2> QED
      BY <2>2, <2>3
  <1> QED
    BY <1>2, <1>3

\* A step that leaves the rows of jobs and plans alone keeps what is said of them.
LEMMA RowsKept ==
  ASSUME IInv, disk'.jobs = disk.jobs, disk'.plans = disk.plans
  PROVE  JobsRight' /\ LinksHaveJobs' /\ (NotNull' <=> NotNull)
PROOF
  BY DEF IInv, JobsRight, LinksHaveJobs, Linked, NotNull
-----------------------------------------------------------------------------
(* The steps *)

\* A statement about the schema alone.
LEMMA SchemaOnly ==
  ASSUME IInv, disk' \in Disk, disk'.jobs = disk.jobs, disk'.plans = disk.plans,
         step' \in {"none"} \cup UpSteps \cup DownSteps, step' \notin {"copy", "require job"},
         pending' = NothingPending, todo' = todo,
         disturbed' = disturbed
  PROVE  TypeOK' /\ JobsRight' /\ LinksHaveJobs' /\ PendingRight' /\ (NotNull' <=> NotNull)
PROOF
  <1>1. TypeOK'
    BY DEF IInv, TypeOK, NothingPending
  <1>2. PendingRight'
    BY DEF PendingRight, NothingPending
  <1> QED
    BY <1>1, <1>2, RowsKept

LEMMA UpgradeHolds ==
  ASSUME IInv,
         \/ StartUpgrade \/ CreateJobs \/ AddColumn \/ SelectPlans \/ CopyPlan
         \/ AddForeignKey \/ CreateCheckpoints \/ CreateLogs \/ FillCheckpoints
  PROVE  IInv'
PROOF
  <1> USE SplitAssumption
  <1>1. TypeOK /\ disk \in Disk
    BY DEF IInv, TypeOK
  <1>2. CASE StartUpgrade
    <2>1. TypeOK'
      BY <1>1, <1>2 DEF StartUpgrade, TypeOK, UpSteps
    <2>2. JobsRight' /\ LinksHaveJobs' /\ (NotNull' <=> NotNull)
      BY <1>2, RowsKept DEF StartUpgrade
    <2>3. PendingRight' /\ Reached'
      BY <1>2, <2>2 DEF StartUpgrade, IInv, PendingRight, Reached, UpSteps
    <2> QED
      BY <2>1, <2>2, <2>3 DEF IInv
  <1>3. CASE SelectPlans
    <2>1. TypeOK'
      BY <1>1, <1>3, RowsTyped DEF SelectPlans, TypeOK, UpSteps
    <2>2. JobsRight' /\ LinksHaveJobs' /\ (NotNull' <=> NotNull)
      BY <1>3, RowsKept DEF SelectPlans
    <2>3. PendingRight' /\ Reached'
      BY <1>3, <2>2 DEF SelectPlans, IInv, PendingRight, Reached, UpSteps
    <2> QED
      BY <2>1, <2>2, <2>3 DEF IInv
  <1>4. CASE CopyPlan
    <2>1. PICK p \in todo :
            /\ step = "copy"
            /\ todo' = todo \ {p}
            /\ pending' = [jobs  |-> pending.jobs \cup {p},
                           links |-> IF disk.plans[p] = Null
                                     THEN pending.links \cup {p} ELSE pending.links]
            /\ step' = IF todo = {p} THEN "require job" ELSE "copy"
            /\ UNCHANGED <<disk, disturbed>>
      BY <1>4 DEF CopyPlan
    <2>2. p \in Plans /\ pending.jobs \subseteq Plans /\ pending.links \subseteq Plans
      BY <1>1 DEF TypeOK
    <2>3. TypeOK'
      BY <1>1, <2>1, <2>2 DEF TypeOK, UpSteps
    <2>4. JobsRight' /\ LinksHaveJobs' /\ (NotNull' <=> NotNull)
      BY <2>1, RowsKept
    <2>5. PendingRight'
      BY <2>1 DEF IInv, PendingRight
    <2>6. Reached'
      BY <2>1, <2>4 DEF IInv, Reached, UpSteps
    <2> QED
      BY <2>3, <2>4, <2>5, <2>6 DEF IInv
  <1>5. CASE CreateJobs
    <2>1. /\ step = "create jobs" /\ step' = "add column" /\ pending' = NothingPending
          /\ todo' = todo /\ disturbed' = disturbed
      BY <1>5 DEF CreateJobs, Statement
    <2>2. /\ disk' \in Disk
          /\ disk'.jobs = disk.jobs /\ disk'.plans = disk.plans
          /\ disk'.tables = disk.tables \cup {"jobs"} /\ disk'.column = disk.column
          /\ disk'.foreign_key = disk.foreign_key /\ disk'.checkpoints = disk.checkpoints
          /\ disk'.revision = disk.revision
      BY <1>1, <1>5 DEF CreateJobs, Statement, Disk, NewTables
    <2>3. TypeOK' /\ JobsRight' /\ LinksHaveJobs' /\ PendingRight' /\ (NotNull' <=> NotNull)
      BY <2>1, <2>2, SchemaOnly DEF UpSteps
    <2>4. Reached'
      BY <2>1, <2>2, <2>3 DEF IInv, Reached, UpSteps
    <2> QED
      BY <2>3, <2>4 DEF IInv
  <1>6. CASE AddColumn
    <2>1. /\ step = "add column" /\ step' = "select plans" /\ pending' = NothingPending
          /\ todo' = todo /\ disturbed' = disturbed
      BY <1>6 DEF AddColumn, Statement
    <2>2. /\ disk' \in Disk
          /\ disk'.jobs = disk.jobs /\ disk'.plans = disk.plans
          /\ disk'.tables = disk.tables /\ disk'.column = "nullable"
          /\ disk'.foreign_key = disk.foreign_key /\ disk'.checkpoints = disk.checkpoints
          /\ disk'.revision = disk.revision
      BY <1>1, <1>6 DEF AddColumn, Statement, Disk, NewTables
    <2>3. TypeOK' /\ JobsRight' /\ LinksHaveJobs' /\ PendingRight' /\ (NotNull' <=> NotNull)
      BY <2>1, <2>2, SchemaOnly DEF UpSteps
    <2>4. Reached'
      BY <2>1, <2>2, <2>3 DEF IInv, Reached, UpSteps
    <2> QED
      BY <2>3, <2>4 DEF IInv
  <1>7. CASE AddForeignKey
    <2>1. /\ step = "add foreign key" /\ step' = "create checkpoints" /\ pending' = NothingPending
          /\ todo' = todo /\ disturbed' = disturbed
      BY <1>7 DEF AddForeignKey, Statement
    <2>2. /\ disk' \in Disk
          /\ disk'.jobs = disk.jobs /\ disk'.plans = disk.plans
          /\ disk'.tables = disk.tables /\ disk'.column = disk.column
          /\ disk'.foreign_key = TRUE /\ disk'.checkpoints = disk.checkpoints
          /\ disk'.revision = disk.revision
      BY <1>1, <1>7 DEF AddForeignKey, Statement, Disk, NewTables
    <2>3. TypeOK' /\ JobsRight' /\ LinksHaveJobs' /\ PendingRight' /\ (NotNull' <=> NotNull)
      BY <2>1, <2>2, SchemaOnly DEF UpSteps
    <2>4. Reached'
      BY <2>1, <2>2, <2>3 DEF IInv, Reached, UpSteps
    <2> QED
      BY <2>3, <2>4 DEF IInv
  <1>8. CASE CreateCheckpoints
    <2>1. /\ step = "create checkpoints" /\ step' = "create logs" /\ pending' = NothingPending
          /\ todo' = todo /\ disturbed' = disturbed
      BY <1>8 DEF CreateCheckpoints, Statement
    <2>2. /\ disk' \in Disk
          /\ disk'.jobs = disk.jobs /\ disk'.plans = disk.plans
          /\ disk'.tables = disk.tables \cup {"checkpoints"} /\ disk'.column = disk.column
          /\ disk'.foreign_key = disk.foreign_key /\ disk'.checkpoints = disk.checkpoints
          /\ disk'.revision = disk.revision
      BY <1>1, <1>8 DEF CreateCheckpoints, Statement, Disk, NewTables
    <2>3. TypeOK' /\ JobsRight' /\ LinksHaveJobs' /\ PendingRight' /\ (NotNull' <=> NotNull)
      BY <2>1, <2>2, SchemaOnly DEF UpSteps
    <2>4. Reached'
      BY <2>1, <2>2, <2>3 DEF IInv, Reached, UpSteps
    <2> QED
      BY <2>3, <2>4 DEF IInv
  <1>9. CASE CreateLogs
    <2>1. /\ step = "create logs" /\ step' = "fill checkpoints" /\ pending' = NothingPending
          /\ todo' = todo /\ disturbed' = disturbed
      BY <1>9 DEF CreateLogs, Statement
    <2>2. /\ disk' \in Disk
          /\ disk'.jobs = disk.jobs /\ disk'.plans = disk.plans
          /\ disk'.tables = disk.tables \cup {"logs"} /\ disk'.column = disk.column
          /\ disk'.foreign_key = disk.foreign_key /\ disk'.checkpoints = disk.checkpoints
          /\ disk'.revision = disk.revision
      BY <1>1, <1>9 DEF CreateLogs, Statement, Disk, NewTables
    <2>3. TypeOK' /\ JobsRight' /\ LinksHaveJobs' /\ PendingRight' /\ (NotNull' <=> NotNull)
      BY <2>1, <2>2, SchemaOnly DEF UpSteps
    <2>4. Reached'
      BY <2>1, <2>2, <2>3 DEF IInv, Reached, UpSteps
    <2> QED
      BY <2>3, <2>4 DEF IInv
  <1>10. CASE FillCheckpoints
    <2>1. /\ step = "fill checkpoints" /\ step' = "none" /\ pending' = NothingPending
          /\ todo' = todo /\ disturbed' = disturbed
      BY <1>10 DEF FillCheckpoints, Statement
    <2>2. /\ disk' \in Disk
          /\ disk'.jobs = disk.jobs /\ disk'.plans = disk.plans
          /\ disk'.tables = disk.tables /\ disk'.column = disk.column
          /\ disk'.foreign_key = disk.foreign_key /\ disk'.checkpoints = Runs
          /\ disk'.revision = "0002"
      BY <1>1, <1>10 DEF FillCheckpoints, Statement, Disk, NewTables
    <2>3. TypeOK' /\ JobsRight' /\ LinksHaveJobs' /\ PendingRight' /\ (NotNull' <=> NotNull)
      BY <2>1, <2>2, SchemaOnly DEF UpSteps
    <2>4. Reached'
      BY <2>1, <2>2, <2>3 DEF IInv, Reached, UpSteps
    <2> QED
      BY <2>3, <2>4 DEF IInv
  <1> QED
    BY <1>2, <1>3, <1>4, <1>5, <1>6, <1>7, <1>8, <1>9, <1>10

\* The two ways the pending rows come to be committed.
LEMMA CommitHolds ==
  ASSUME IInv, RequireJob \/ StatementFails
  PROVE  IInv'
PROOF
  <1> USE SplitAssumption
  <1>1. TypeOK /\ disk \in Disk /\ Committed \in Disk
    BY CommittedTyped DEF IInv, TypeOK
  <1>2. /\ disk'.jobs = Committed.jobs /\ disk'.plans = Committed.plans
        /\ disk'.revision = disk.revision /\ disk'.tables = disk.tables
        /\ disk'.foreign_key = disk.foreign_key
        /\ disk'.checkpoints = disk.checkpoints
        /\ pending' = NothingPending /\ disk' \in Disk
        /\ todo' \subseteq Plans /\ UNCHANGED disturbed
    <2>1. CASE RequireJob
      BY <1>1, <2>1, CommittedRows DEF RequireJob, Statement, Disk, TypeOK
    <2>2. CASE StatementFails
      BY <1>1, <2>2, CommittedRows DEF StatementFails
    <2> QED
      BY <2>1, <2>2
  <1>3. JobsRight' /\ LinksHaveJobs' /\ (NotNull => NotNull')
    BY <1>2, CommittedHolds DEF JobsRight, LinksHaveJobs, Linked, NotNull
  <1>4. CASE RequireJob
    <2>1. /\ step = "require job" /\ step' = "add foreign key"
          /\ disk'.column = "required"
          /\ \A p \in DOMAIN Committed.plans : Committed.plans[p] # Null
      BY <1>1, <1>4 DEF RequireJob, Statement, Possible, Disk
    <2>2. NotNull'
      BY <1>2, <2>1 DEF NotNull
    <2>3. TypeOK'
      BY <1>1, <1>2, <2>1 DEF TypeOK, NothingPending, UpSteps
    <2>4. PendingRight' /\ Reached'
      BY <1>2, <2>1, <2>2 DEF IInv, PendingRight, NothingPending, Reached, UpSteps
    <2> QED
      BY <1>3, <2>3, <2>4 DEF IInv
  <1>5. CASE StatementFails
    <2>1. step' = "none" /\ disk'.column = disk.column
      BY <1>1, <1>5, CommittedRows DEF StatementFails
    <2>2. TypeOK'
      BY <1>1, <1>2, <2>1 DEF TypeOK, NothingPending
    <2>3. PendingRight' /\ Reached'
      BY <1>2, <1>3, <2>1 DEF IInv, PendingRight, NothingPending, Reached, UpSteps
    <2> QED
      BY <1>3, <2>2, <2>3 DEF IInv
  <1> QED
    BY <1>4, <1>5

LEMMA OtherSchemaHolds ==
  ASSUME IInv, StartDowngrade \/ Crash \/ CreateMissing
  PROVE  IInv'
PROOF
  <1>1. TypeOK /\ disk \in Disk
    BY DEF IInv, TypeOK
  <1>2. CASE StartDowngrade
    <2>1. TypeOK'
      BY <1>1, <1>2 DEF StartDowngrade, TypeOK, DownSteps
    <2>2. JobsRight' /\ LinksHaveJobs' /\ (NotNull' <=> NotNull)
      BY <1>2, RowsKept DEF StartDowngrade
    <2>3. PendingRight' /\ Reached'
      BY <1>2, <2>2 DEF StartDowngrade, IInv, PendingRight, Reached, UpSteps
    <2> QED
      BY <2>1, <2>2, <2>3 DEF IInv
  <1>3. CASE Crash
    <2>1. TypeOK'
      BY <1>1, <1>3 DEF Crash, TypeOK, NothingPending
    <2>2. JobsRight' /\ LinksHaveJobs' /\ (NotNull' <=> NotNull)
      BY <1>3, RowsKept DEF Crash
    <2>3. PendingRight' /\ Reached'
      BY <1>3, <2>2 DEF Crash, IInv, PendingRight, NothingPending, Reached, UpSteps
    <2> QED
      BY <2>1, <2>2, <2>3 DEF IInv
  <1>4. CASE CreateMissing
    <2>1. PICK table \in NewTables :
            disk' = [disk EXCEPT !.tables = disk.tables \cup {table}]
      BY <1>4 DEF CreateMissing
    <2>2. /\ disk' \in Disk
          /\ disk'.jobs = disk.jobs /\ disk'.plans = disk.plans
          /\ disk.tables \subseteq disk'.tables /\ disk'.column = disk.column
          /\ disk'.foreign_key = disk.foreign_key /\ disk'.checkpoints = disk.checkpoints
          /\ disk'.revision = disk.revision
      BY <1>1, <2>1 DEF Disk
    <2>3. UNCHANGED <<pending, step, todo>> /\ disturbed' = TRUE
      BY <1>4 DEF CreateMissing
    <2>4. TypeOK'
      BY <1>1, <2>2, <2>3 DEF TypeOK
    <2>5. JobsRight' /\ LinksHaveJobs' /\ (NotNull' <=> NotNull)
      BY <2>2, RowsKept
    <2>6. PendingRight' /\ Reached'
      BY <2>2, <2>3, <2>5 DEF IInv, PendingRight, Reached
    <2> QED
      BY <2>4, <2>5, <2>6 DEF IInv
  <1> QED
    BY <1>2, <1>3, <1>4

\* The plan saved is linked to a job of its portals; the jobs there were keep
\* theirs.
LEMMA SavePlanHolds ==
  ASSUME IInv, SavePlan
  PROVE  IInv'
PROOF
  <1> USE SplitAssumption
  <1>1. TypeOK /\ disk \in Disk
    BY DEF IInv, TypeOK
  <1>2. PICK p \in NewPlans \ DOMAIN disk.plans, j \in NewJobs \cup DOMAIN disk.jobs :
          /\ j \in DOMAIN disk.jobs => disk.jobs[j] = PortalsOf[p]
          /\ disk' = [disk EXCEPT
                        !.jobs = [k \in DOMAIN disk.jobs \cup {j} |->
                                    IF k = j THEN PortalsOf[p] ELSE disk.jobs[k]],
                        !.plans = [q \in DOMAIN disk.plans \cup {p} |->
                                     IF q = p THEN j ELSE disk.plans[q]]]
    BY DEF SavePlan
  <1> DEFINE jobsAfter == [k \in DOMAIN disk.jobs \cup {j} |->
                             IF k = j THEN PortalsOf[p] ELSE disk.jobs[k]]
             plansAfter == [q \in DOMAIN disk.plans \cup {p} |->
                              IF q = p THEN j ELSE disk.plans[q]]
  <1>3. /\ p \in Plans /\ j \in Jobs /\ PortalsOf[p] \in Portals /\ j # Null
        /\ UNCHANGED <<pending, step, todo, disturbed>>
    <2>1. p \in Plans /\ PortalsOf[p] \in Portals
      BY DEF Plans
    <2>2. j \in Jobs
      <3>1. DOMAIN disk.jobs \subseteq Jobs
        BY <1>1, RowsTyped
      <3> QED
        BY <3>1 DEF Jobs
    <2>3. UNCHANGED <<pending, step, todo, disturbed>>
      BY DEF SavePlan
    <2> QED
      BY <2>1, <2>2, <2>3
  <1>4. /\ jobsAfter \in PartialTo(Jobs, Portals)
        /\ plansAfter \in PartialTo(Plans, Jobs \cup {Null})
    <2>1. jobsAfter \in [DOMAIN disk.jobs \cup {j} -> Portals]
      BY <1>1, <1>3, RowsTyped
    <2>2. plansAfter \in [DOMAIN disk.plans \cup {p} -> Jobs \cup {Null}]
      BY <1>1, <1>3, RowsTyped
    <2>3. DOMAIN disk.jobs \cup {j} \in SUBSET Jobs /\ DOMAIN disk.plans \cup {p} \in SUBSET Plans
      BY <1>1, <1>3, RowsTyped
    <2> HIDE DEF jobsAfter, plansAfter
    <2> QED
      BY <2>1, <2>2, <2>3, PartialIntro
  <1>5. /\ disk'.jobs = jobsAfter /\ disk'.plans = plansAfter
        /\ disk'.tables = disk.tables /\ disk'.column = disk.column
        /\ disk'.foreign_key = disk.foreign_key /\ disk'.checkpoints = disk.checkpoints
        /\ disk'.revision = disk.revision /\ disk' \in Disk
    <2>1. disk' = [disk EXCEPT !.jobs = jobsAfter, !.plans = plansAfter]
      BY <1>2
    <2> HIDE DEF jobsAfter, plansAfter
    <2> QED
      BY <1>1, <1>4, <2>1 DEF Disk, PartialTo
  <1>6. TypeOK'
    BY <1>1, <1>3, <1>5 DEF TypeOK
  <1>7. \A k \in DOMAIN disk.jobs : k \in DOMAIN disk'.jobs /\ disk'.jobs[k] = disk.jobs[k]
    BY <1>2, <1>5
  <1>8. JobsRight'
    <2>1. ASSUME NEW q \in Plans, LegacyJob[q] \in DOMAIN disk'.jobs
          PROVE  disk'.jobs[LegacyJob[q]] = PortalsOf[q]
      <3>1. LegacyJob[q] \in LegacyJobs /\ LegacyJob[q] \notin NewJobs
        OBVIOUS
      <3>2. LegacyJob[q] \in DOMAIN disk.jobs
        BY <1>2, <1>5, <2>1, <3>1
      <3> QED
        BY <1>7, <3>2 DEF IInv, JobsRight
    <2> QED
      BY <2>1 DEF JobsRight
  <1>9. LinksHaveJobs' /\ (NotNull => NotNull')
    <2>1. disk'.plans[p] = j /\ j # Null /\ Linked(disk', p)
      BY <1>3, <1>5 DEF Linked
    <2>2. ASSUME NEW q \in DOMAIN disk.plans
          PROVE  /\ disk'.plans[q] = disk.plans[q]
                 /\ disk.plans[q] = Null \/ Linked(disk', q)
      <3>1. disk'.plans[q] = disk.plans[q]
        BY <1>2, <1>5
      <3>2. disk.plans[q] = Null \/ Linked(disk, q)
        BY DEF IInv, LinksHaveJobs
      <3>3. Linked(disk, q) => Linked(disk', q)
        BY <1>7, <3>1 DEF Linked
      <3> QED
        BY <3>1, <3>2, <3>3
    <2>3. DOMAIN disk'.plans = DOMAIN disk.plans \cup {p}
      BY <1>5
    <2> QED
      BY <2>1, <2>2, <2>3 DEF LinksHaveJobs, NotNull
  <1>10. PendingRight' /\ Reached'
    BY <1>3, <1>5, <1>9 DEF IInv, PendingRight, Reached
  <1> QED
    BY <1>6, <1>8, <1>9, <1>10 DEF IInv

LEMMA NextHolds == IInv /\ [Next]_vars => IInv'
PROOF
  <1> SUFFICES ASSUME IInv, [Next]_vars PROVE IInv'
    OBVIOUS
  <1>1. CASE UNCHANGED vars
    BY <1>1 DEF vars, IInv, TypeOK, JobsRight, LinksHaveJobs, Linked, PendingRight,
                Reached, NotNull
  <1>2. CASE Next
    BY <1>2, UpgradeHolds, CommitHolds, OtherSchemaHolds, SavePlanHolds
    DEF Next, MigrationStep
  <1> QED
    BY <1>1, <1>2
-----------------------------------------------------------------------------
(* The theorems *)

\* What is known of the schema and its rows, wherever a migration is cut off.
THEOREM Invariance == Spec => []IInv
PROOF
  BY InitHolds, NextHolds, PTL DEF Spec

\* Every variable has its type in every state.
THEOREM TypeCorrect == Spec => []TypeOK
PROOF
  BY Invariance, PTL DEF IInv

\* However a migration is cut off and run again, no committed plan has the id
\* of a job that is missing or of other portals.
THEOREM LinksAreGood == Spec => []LinksHaveJobs
PROOF
  BY Invariance, PTL DEF IInv

\* The revision is 0002 only over tables that hold what it promises.
THEOREM RevisionIsTrue == Spec => []RevisionMeansSplit
PROOF
  <1>1. IInv => RevisionMeansSplit
    <2> SUFFICES ASSUME IInv, disk.revision = "0002"
                 PROVE  /\ \A p \in DOMAIN disk.plans : Linked(disk, p)
                        /\ disk.column = "required" /\ disk.foreign_key
                        /\ Runs \subseteq disk.checkpoints
                        /\ disk.tables = NewTables
      BY DEF RevisionMeansSplit
    <2>1. /\ disk.column = "required" /\ NotNull /\ disk.foreign_key
          /\ "jobs" \in disk.tables /\ "checkpoints" \in disk.tables
          /\ "logs" \in disk.tables /\ disk.checkpoints = Runs
      BY DEF IInv, Reached
    <2>2. \A p \in DOMAIN disk.plans : Linked(disk, p)
      BY <2>1 DEF IInv, LinksHaveJobs, NotNull
    <2>3. disk.tables = NewTables
      BY <2>1 DEF IInv, TypeOK, Disk, NewTables
    <2> QED
      BY <2>1, <2>2, <2>3
  <1> QED
    BY <1>1, Invariance, PTL
=============================================================================
