# Verification of b24-migration-runtime

TLA+ models, TLC runs and TLAPS proofs for the Bitrix24 migration runtime of
this repository. Paths are relative to `src/b24_migrator/` unless said otherwise.

## 1. The system

One service class, `RuntimeService` (`services/runtime.py`), is called by a
FastAPI application (`web/routes/ui.py`) and by a CLI (`cli/app.py`). Every call
opens a database session, reads rows, computes, writes and commits once. Web
routes are plain `def`, so requests run in the server's thread pool; CLI
processes may run next to them. All shared state is in the database
(`storage/models.py`), apart from the service object and its configuration.

| Component | State | Operations | What makes it correct |
|---|---|---|---|
| Jobs, plans, runs, checkpoints (`runtime.py`, `executor.py`, `repositories.py`) | `migration_jobs`, `_plans`, `_runs`, `_checkpoints` | create_job, create_plan, execute_plan, resume_run, get_checkpoint | each completed pass is one chunk of progress; the latest checkpoint is the one of the run row; references hold |
| User mapping and review (`mapping.py`, `data_plane.py`) | user rows of `migration_mappings`, `migration_user_review_queue` | users_map, resolve_user_mapping, users_review | an ambiguous user is in the queue; an answered review is in effect; rows are one call's |
| Data plane (`data_plane.py`) | `migration_mappings` of 14 kinds | groups/projects sync, tasks, comments, file refs, CRM dictionaries, contacts, companies, deals, comments, file refs | nothing is bound before what it refers to; a link to a parent is a target it had |
| Verification and cutover (`verifier.py`, `cutover.py`) | `migration_verification_results` | get_report, target_inspection, cutover_readiness, cleanup, delta | "ready" means settled |
| Planner (`planner.py`) | none | create_plan's id and scope | equal requests give equal ids; the scope is read back as planned |
| Matching policy (`mapping.py`) | none | resolve_user | a user is bound without a review only on evidence nothing contradicts |
| Configuration (`config.py`, `web/app.py`, save route) | YAML file, environment, the app's service object | load, save, start | what is saved is what runs, and starts again |
| Domain registry, matrix | none | display | following the graph satisfies the guards of the calls |
| Schema migrations (`alembic/`) | schema and old rows | 0001, 0002, 0003 | data survives the split, the revision tells the truth |
| Installer (`install.sh`, `docker-compose.yml`) | `.env`, the configuration file, volume, containers | credentials, start, health wait | ends; says complete only over credentials that fit |
| Audit and log rows | append-only tables | written by every call | committed with the call |

Interaction: calls meet only in database rows. The data plane reads user rows
written by mapping and review, and parents written by its own earlier calls;
verification and cutover read all mapping rows; a resume reads the run and the
plan that earlier calls wrote. The save route and the supervisor that restarts the
process meet in the configuration file; the installer writes that file too, and
the containers it starts mount it. A migration and a starting application meet in
the schema.

What is hard: overlapping transactions with neither locks nor version columns;
rows updated column by column against a stale read; answers made of two
transactions; rows rewritten after others were derived from them; limits on the
rows a query returns; calls that die before their commit; a file truncated and
written in place by several requests; scripts and migrations cut off half way and
run again over what they left. `PROJECT.json` lists these hazards at their lines.

### Two kinds of database

What happens to a call whose row was changed after it read it is not decided by
the code. MariaDB has `innodb_snapshot_isolation` on by default from 11.6 and
then rolls the late writer back; older MariaDB, MySQL and SQLite let it overwrite. The
compose file's `mariadb:11` may be either, the database URL may name any of
them, and the tests use SQLite. The constant `ConflictAborts` is that choice.
Properties that hold for both kinds are stated or proved for both. The others
(`PassesCountedOnce`, `CheckpointAgreesWithRun`, `ImplementsLedger`, `RowsAreWhole`,
`ReviewTakesEffect`) really need the abort: TLC finds each of them violated when the
constant is FALSE in the same instance; `PassesCountedOnce` is kept as a run
(RunLostUpdate).

## 2. Modules

- `RunLedger` is the abstract specification of runs: open dry, open real, one
  pass. `RunLifecycle` is the transactions of jobs, plans, runs and checkpoints,
  and `ImplementsLedger` its refinement of the ledger (`LedgerOf` is the
  mapping). `call[s]` is what session `s` holds between its reads and its commit:
  `BeginPlan`/`CommitPlan` are create_plan, `BeginExecute` or
  `ResumeRun`/`ResumePlan`, then `Compute` (the executor and the time stamps) and
  `CommitRun` are execute and resume. `FailCall` is every way a call ends without
  a commit.
- `UserMapping`: user rows and queue items. `UsersMap`, `ResolveUser` and
  `BeginReview` read; `CommitMap` and `CommitReview` write. `Upsert` is the column-wise
  update. The outcome of the matching policy is an input.
- `DependencyOrder` is the abstract promise of the data plane, "first bound after all it
  refers to". `DataPlane` is all kinds of rows: `RefKinds` holds the guards of the
  calls, `MustRefer` the columns they look up whether set or not (a comment without
  an author, a file without an owner, is blocked), `Decisions` what a call may write for
  an entity, `BeginCall` and `CommitCall` a call over a batch. A batch is of one
  kind, but crm_sync writes the `Dictionaries` of the CRM together (`CallKinds`).
  `ever` is a history variable, and only grows: a target it has may be gone.
  The kinds share one action because their calls differ only in `RefKinds`,
  `ParentKinds` and the rows of `Decisions`.
- `UserPlane` holds the two descriptions of users together: `PlaneRow` and `PlaneCall` map
  the state of `UserMapping` to that of `DataPlane` (by whom a user was resolved is
  forgotten, users have no parent), and `ImplementsDataPlane` says that what its calls do
  is what `DataPlane` takes a call about users to do. `PlaneSpec` adds the history
  `ever` and nothing else. resolve_user_mapping of an ambiguous user writes no mapping row
  and is a step that changes nothing there.
- `PlanScope`: the scope of a plan from the request to what a run reads, through
  the order of the planner and the column with commas. A name is the sequence of
  its pieces between commas, of which there is at least one. `Ordered` is any
  permutation that leaves no name before a smaller one, which is all the code asks
  of `sorted`. `MCRunLifecycle` takes `ScopeLen` from it.
- `UserMatching` extends `UserMapping` with `Resolve`, the policy as a recursive
  function over the keys, and says what its outcomes mean (`BoundOnEvidence`). It
  reproduces that a key given as null is the text "none".
- `GraphRun` extends `DataPlane` with callers who follow the execution graph:
  `Dependencies` is the graph of `services/domains.py`, `finished` the steps done,
  and a call may be for a step whose dependencies are finished, over the kinds of a
  call that belong to the step. The code leaves
  the order to its callers, so `Workable`, `FinishStep` and `NextRound` are external.
- `ConfigService`: the configuration file, the environment over it, the running
  service, and the save route one step at a time (`BeginSave`, `OpenFile` truncates,
  `WriteFile` writes, `LoadService` builds the new service from the file, `SwapService`,
  `AnswerSave`). `Installer` extends it with the steps of `install.sh`, the volume's
  password and docker's health status; `UnsetPassword` and `UnsetSummary` are where `set -u`
  stops it over an `.env` that was left empty. `Deployment` composes the two: the process of
  systemd on a host, or the compose stack with its read-only file; `Restart` is the
  supervisor. `intact` is a history variable: nothing has damaged the file since a
  write that was completed.
- `SchemaSplit`: revision 0002 a statement at a time. `disk` is what is committed and
  `pending` what the migrating connection would lose; MySQL commits both with every DDL
  statement. `CreateMissing` is ensure_schema of an application that starts meanwhile, and
  `SavePlan` a plan it saves, under a new job or under any that is there, legacy ones too.
- `Cutover`: the rows in the order of their last update, cut off at `Limit`;
  `Inspect` and `Report` are the two transactions of cutover_readiness; `Write`
  stands for the commits of the data plane; `missed` is a history field of an
  answer that says what the answer overlooked. `Passed` is the verifier's loop over
  the rows, `Visit` its body. `Blank` are the entities whose source id is the empty text, one
  of each type at most: to `if prev` of the loop such a row is none (`verifier.py:134`).
- `MC*` modules give the constants; `*Proofs` modules hold the theorems, and
  `NumberInduction` what the proofs about loops share.

Operators called "faulty" in comments are deliberate mistakes in one definition.
They are used by nothing: each shows which mistake a property would find.

Abstractions common to all: a transaction's reads are one step and its commit
another (REPEATABLE READ); an insert of a key that exists is refused; run row
and checkpoint of one pass, stamped microseconds apart, have one time. Log and
audit rows are left out.

## 3. Runs

| Run | Instance | Shows |
|---|---|---|
| RunSnapshot | 2 sessions, 2 runs, 1 job, a lone blank name and two names as scopes, clock 0..1, 4 checkpoints, conflicts abort; scopes of 2 names of 2 pieces | types, references, checkpoint and run agree, passes counted once, refinement of the ledger; which scopes are read back as planned, and that none counts less than asked |
| RunOverwrite | the same, late writer overwrites | counts are never overstated, completed runs stay completed |
| RunLostUpdate | the same | two overlapping resumes counted as one (expected violation) |
| UserSnapshot | 2 sessions, 2 users, 1 target, 1 item each, conflicts abort; all lists of 2 candidates | types, ambiguous users are queued, whole rows, reviews take effect; user rows change as the data plane says; the policy binds on evidence |
| DataSnapshot | 2 sessions, two users, a deal, a comment on it; the deal has 2 possible targets | links, whole rows, order of binding |
| DataUnsettledUsers | the same | dependents bind while users are unsettled (expected violation) |
| DataStaleRefs | a user, a group, a task, a file reference | the task is blocked again and its file reference stays resolved (expected violation) |
| CutoverWindow | 3 users, one with an empty source id, a file, 3 targets, limit 3, 2 reports | a ready answer overlooks only what lay beyond the limit and the duplicates of an empty source id; all others are counted |
| CutoverBeyondLimit | the same | ready with an unresolved row beyond the limit (expected violation) |
| DataInOrder | 2 sessions, 9 entities: a user, a custom field, a stage, a contact, a deal with 2 possible targets, its comment, a comment on nothing, a group, a task | who follows the graph decides by final references and links to current targets, in every round |
| Deployment | 2 saving requests, 2 MySQL URLs and a local one, 3 environments, 2 passwords, files and a volume of earlier installs | which damage the file can take, what a lone save leaves running, restarts, the installer's end |
| SchemaSplit | 2 legacy plans and their jobs, 2 runs, 2 plans the application may save, 2 new jobs | no wrong link, no wrong revision, an undisturbed upgrade arrives |

The bounds: two sessions are enough for every race between a reader and a
writer of one row, the only kind of race the code has; a third session only repeats
one of the roles. Two runs let resume by plan choose between them, with equal
or different times. Four checkpoints allow an execute and three resumes, two of
them overlapping. A scope that is read back as no name exercises `max(len, 1)`. The cutover
instance has one row more than the limit, three bindings of one type (so that a
duplicate may be compared with the wrong row) and a second type with the same
targets; a limit of three keeps an empty source id, its duplicate and a third binding in
view together. `GraphRun` has both branches of the graph, every kind of edge between
steps of them, and a dictionary that is written next to another; categories,
companies and CRM files are left to the theorems, as their guards are those of stages,
contacts and comments. Two saves at a time give every overlap of truncation, write, load and
swap; a third URL outside MySQL makes configurations that production refuses;
two passwords make credentials that do not fit. Two legacy plans make a copy that is cut off
between them. Nothing but the constants bounds these three. Symmetry is used over sessions, runs, users and targets, which the
specifications never tell apart, and only with safety properties.

All runs check deadlock: `FailCall`, `Return`, a new call, an install or the next
attempt of a migration is always possible.

Fairness is stated where the code or its supervisor works on its own, and nowhere
else. `Deployment` has `WF_vars(Restart)`, for `Restart=always` of the systemd unit and
`restart: unless-stopped` of compose, and `WF_vars(InstallStep)`, as the script goes on
until it ends and its polls are bounded; `SchemaSplit` has `WF_vars(MigrationStep)`.
No request, crash, interruption or state of the database has to happen:
`WebComesBack` has what it needs of them as its premise. The calls of the service have no
background work, no retry loop and no queue worker, so nothing is promised to
happen unless a caller asks again, and their specifications state no fairness.

### What the properties exclude by definition

Some damage the code can do is in the models and is kept out of a property by the
property's own words, because nothing in the repository promises its absence. Such a
hazard is listed in `PROJECT.json` with a note and no property:

- `intact` (`FileIsWhole`, `WebComesBack`): a file truncated by a crash or mixed by two
  writers. The two say what a file has that was last written by a write of its own.
- `alone` (`SoleSaveIsServed`): saves that overlap, after which the service may be older
  than the file.
- `EnvironmentFits` (`WebComesBack`): a saved configuration that the environment turns into
  one that does not load.
- `disturbed` (`UpgradeArrives`): an upgrade that was cut off, or that met an application which
  created its tables first. `RevisionMeansSplit` still covers these.
- `ever` (`LinksWereTargets`, `BindsInOrder`): a link to a target its parent has lost since. Only
  `LinksAreCurrent` and `DecidedByFinalRefs` catch it, under callers who follow the graph;
  `FileRefsIntact` shows it happening under others.
- `Files` in `Settled` (`ReadyWithinLimit`): a migrated file always counts as not settled, as
  it does to the verifier, so a portal with files is never ready.
- `Agree` (`PolicyBindsOnEvidence`): a null key agrees with a null key.
- `Overlooked` and `Hidden` (`DuplicatesCounted`, `ReadyWithinLimit`): the duplicates of an empty
  source id, and no others.

### Disagreements found

1. *Lost resume* (RunLostUpdate): `runtime.py:180` reads, `:196` commits,
   unguarded.
2. *"Execution blocked" is display only* (DataUnsettledUsers): `ui.py:450`.
3. *Stale children* (DataStaleRefs): `data_plane.py:147` blocks a task, its file
   references stay resolved, and the report says integrity passed.
4. *Ready beyond 5000 rows* (CutoverBeyondLimit): `runtime.py:214` and `:450`.

Seen while modelling, without a run of their own:

- *Lost review.* With `ConflictAborts = FALSE` TLC finds `ReviewTakesEffect` violated:
  `repositories.py:329` assigns columns of which only the changed ones are written.
- *A save can stop the process from coming back.* The form is validated without the
  environment that overrides it later (`config.py:87`); `EnvironmentFits` in the premise
  of `WebComesBack` is needed. So is `intact`: overlapping or interrupted writes leave a file
  that does not load (`runtime.py:549`).
- *The installer is idempotent only after a run that was not cut off.* An empty `.env` or
  configuration is reused (`install.sh:57`, `:90`), and every later run fails.
- *An empty source id hides a duplicate.* Of two rows on one target the older replaces the
  newer one in the verifier's loop, when the newer's source id is empty
  (`verifier.py:134`): no conflict is counted and "ready" may follow.
- *Revision 0002 does not survive an interruption, nor an application started
  before it* (`runtime.py:63` creates the tables it wants to create), *and cannot be
  downgraded on InnoDB*: line 107 of the revision drops an index its foreign key needs.
  What holds is that the revision never lies about the tables.

## 4. Proofs

Theorems hold for any number of sessions, entities and identifiers, and any
reference graph that satisfies the modules' assumptions.

- `RunLifecycleProofs`. `TypeCorrect` and `ForeignKeysHold` for either kind of
  database; the latter is inductive with the rows that calls in flight are about to
  write (`RefInv`), since a commit relies on a plan read earlier. The
  properties of an aborting database rest on `SnapshotInv`: the run row equals a
  checkpoint that is last by id, by time and by count, time stamps do not lie
  ahead, and every pending result is one chunk above what its call saw. A commit
  that is let through saw the current row, hence its checkpoint exceeds all
  others of the run. `PassesAreCountedOnce`, `CheckpointsAgree` and
  `RunsImplementLedger` follow (`ASSUME ConflictAborts`). `CompletedRunsStay` needs
  no such assumption: a result written on top of a row seen is always
  completed, and a run id drawn by a call in flight is drawn by no other. Nor does
  `RunsNeverOvercount`: by `CountInv` a row, and what a call once read of a row, is a
  whole number of chunks, no more than passes were completed; a commit adds one chunk
  to what was read and one completed pass to all there are.
- `UserMappingProofs`. `TypeCorrect`; `AmbiguousUsersAreQueued` for either kind of
  database. Its invariant `QueueInv` says more: some open item of an ambiguous user is
  held, that is, only reviews that saw the row ambiguous are about to close it, and
  those write the status when they do. `RowsStayWhole` and `ReviewsTakeEffect` assume
  aborts and rest on `SeenCurrent`: a row that is not stale for a call is the row the call
  read, so the columns it leaves alone are its own decision's.
  The same module has the matching policy. The recursive function of `Resolve`
  runs over three keys and is unfolded (`ResolveIsFirstShared`): the strongest
  key anybody shares decides. `MatchingBindsOnEvidence` follows for candidate lists of
  every length; the run checks it for two candidates (`PolicyIsSound`).
  Of `UserPlane`, `UsersImplementDataPlane` is the refinement step by step, for either
  kind of database, and `UserChangesAreCommits` what of it the run checks. Its invariant
  `PlaneInv` adds to the ones above that `ever` has every target the table has, so
  that only a commit adds to it. With aborts, `SeenCurrent` makes the row a call read
  the one it finds, which is what `DataPlane` asks of a write; without, rows that are
  never deleted (`SeenStays`) are enough. The status of a user nobody matched and that of an
  ambiguous one are two rows of `Unsettled` because of this refinement: with one for both,
  TLC finds that a late writer of one status over the other is a step `DataPlane` lacks.
- `DataPlaneProofs`. From `HistoryInv`, that rows and pending rows hold only
  targets recorded in `ever`, come `TypeCorrect`, `LinksAreTargets` and
  `DependenciesFirst` (the refinement of `DependencyOrder`), for either kind of
  database. `RowsStayWhole` assumes aborts: with them an update writes the
  decision unchanged.
  Of `GraphRun` it proves that it implements `DataPlane` (`GraphRunsAreRuns`), and, for
  either kind of database, `OrderDoesNotMatter` and `LinksStayCurrent`. `GraphInv` says why:
  the steps finished are closed under dependencies, and the references an entity is
  checked for lie in finished steps (`RefsFinished`), whose rows no call in flight is
  about to write. So what a call decided is still right when it commits. No aborts are
  needed, as the columns of two decisions on the same references make a decision
  (`DecisionsMix`).
- `CutoverProofs`. `ReadyIsRightWithinLimit` needs that the listing has every row once
  (`EachRowOnce`): then a row that the report did not see has at least `Limit` rows before
  it, and of two rows in its view that share a target the newer has an empty source id,
  or they would have been counted (`NoConflictsBlankTwin`).
  `DuplicatesAreCounted` is a fact about the loop for lists of every length: after each row,
  every binding met so far is kept with its first source, or with its second where the
  first is empty and thereby lost (`KeepsFirst`; a type has one empty source at most, so
  nothing is lost twice), and kept, lost and counted together are the resolved rows
  (`CountOfPass`). The lost ones at the end are `Overlooked` (`LostIsOverlooked`).
- `PlanScopeProofs`. `ScopesSurvive`, for scopes of any number of names of any texts. A
  sorting permutation exists: the number of places ahead of a place is its rank,
  and ranks are a bijection (`SortingExists`). Sorting keeps how often each name
  occurs, and two sorted scopes that agree in that are equal, since where they first
  differ the smaller name is more frequent in one of them (`SortedUnique`). So the
  plan's id depends on the names only. `FlattenJoins` says what the column has.
- `NumberInduction`. The library's induction theorems take an operator as a parameter,
  which the provers cannot instantiate. Its two lemmas, from the well-foundedness of
  the numbers, speak of a set of numbers instead (`UpTo`) and of the values of a loop as a
  function (`RecursiveFunction`: a function with the loop's equations exists, so that the
  CHOOSE behind a recursive function has them). The loops of `Cutover` and `PlanScope` are
  proved with these.

- `DeploymentProofs`, of the composition, for any savers, environments and files
  that earlier installs left behind. The invariant `IInv` joins
  four parts. `SavesHold` and `Placed`: what a save is about to write is valid,
  and where the file is read-only (the compose stack) no save gets past opening it
  and the environment overrides nothing. `AloneRight`: a save that
  nothing overlapped has no other beside it, so from its write on, what loads is its
  own configuration. `StackRight`: in the stack the process runs what loads, a
  probe succeeds only on a URL the volume accepts, so
  "healthy" and "complete" imply that file and volume fit. From these follow
  `FilesAreWhole`, `SoleSavesAreServed` and `CompleteInstallsFit`.
- `SchemaSplitProofs`, for any plans, jobs, runs and portals. `Reached` says what each
  statement of the upgrade finds when it gets there, and what the revision implies;
  `PendingRight`, that the loop links no plan whose job it has not inserted in the
  same transaction; `JobsRight`, that a legacy job has the portals of its plan, as
  the ids of no two plans agree (`SplitAssumption`) and the application makes ids of
  its own. A crash only drops pending rows and the application only adds tables and
  linked plans, so each part survives both. `LinksAreGood` and
  `RevisionIsTrue` follow.

Assumptions. The theorems use the modules' named assumptions on constants, which TLC
evaluates on every run, and nothing else but `ConflictAborts` where it is said. The
strongest is `DefaultScope \in Seq(Seq(Pieces) \ {<<>>})`: splitting a text at its
commas gives one piece at least, and the configuration's default is a list.

Model-checked on smaller ground than it is proved: the whole of `ImplementsDataPlane`, with
its begins and failed calls, takes TLC too long on the instance of UserSnapshot, which
checks its part about the tables (`ChangesAsDataPlane`).

Only model-checked: liveness under fairness (`WebComesBack`, `InstallEnds`,
`UpgradeArrives`), which is beyond the prover, and the four expected violations. Every
invariant and action property of a passing run is stated by a theorem.

## 5. Not modelled, and the plan

The order of the work was: runs, the program's record of progress; users, on whom
every other kind depends; the data plane; cutover; then what surrounds them, the
policy, the scope, the graph, the configuration and its deployment, and the schema.
Left is:

1. `upsert_mapping` as an action next to the calls of the data plane, with the properties it
   breaks.

Left out of the model on purpose: the 50000-row limit of `_mapping_by_source` (a row
beyond it acts like a missing one); revisions 0001 and 0003, which move no data;
`docker-compose.db.yml`, which nothing uses.

Not modelled: pages, forms and CLI printing (no state), audit and log rows
(append-only, never read back), the Bitrix client (a stub nobody calls), the matrix
(constants), cleanup and delta (they compute a preview and write nothing).
