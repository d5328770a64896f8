------------------------------ MODULE DataPlane ------------------------------
(***************************************************************************)
(* The mapping rows of every kind and the calls that write them:           *)
(* users:map and users:review, groups:sync, projects:sync, tasks:migrate,  *)
(* comments, file references and the CRM calls of RuntimeService over      *)
(* DataPlaneMigrationService.                                              *)
(*                                                                         *)
(* A call is one transaction over a batch of entities of one kind, or of   *)
(* the three dictionaries of the CRM together.  It reads the targets of    *)
(* the kinds its entities refer to, decides for each entity whether it is  *)
(* bound or blocked, and writes the rows at its commit.  Its reads are of  *)
(* one snapshot (REPEATABLE READ), so a parent may have been rewritten by  *)
(* the time the child is committed.                                        *)
(*                                                                         *)
(* Sessions, ConflictAborts and the update of single columns are those of  *)
(* RunLifecycle and UserMapping.  Which references an entity has is data   *)
(* of the source portal: the constant Refs.  The limit of 50000 rows of    *)
(* _mapping_by_source is left out.                                         *)
(***************************************************************************)
EXTENDS Naturals

CONSTANTS Sessions,        \* concurrent callers
          Entities,        \* entities of the source portal
          KindOf,          \* [Entities -> Kinds]
          Refs,            \* [Entities -> SUBSET Entities]: what each refers to
          ParentOf,        \* its linked_parent, or None
          Targets,         \* identifiers on the target portal
          TargetsOf,       \* [Entities -> SUBSET Targets]: matched or created
          ConflictAborts,  \* a write to a row changed since it was read aborts
          NoRow,           \* there is no such row
          None             \* a column is NULL, or there is no parent

\* Which kinds the calls check the references of: the guards of
\* sync_groups_or_projects, _missing_task_refs, migrate_comments,
\* migrate_file_refs, _missing_crm_refs (contacts and companies are not held
\* to their stage and category), migrate_crm_deals, _comments and _file_refs.
RefKinds ==
  [users             |-> {},
   groups            |-> {"users"},
   projects          |-> {"users"},
   tasks             |-> {"users", "groups", "projects"},
   comments          |-> {"users", "tasks"},
   file_refs         |-> {"tasks"},
   crm_categories    |-> {},
   crm_stages        |-> {},
   crm_custom_fields |-> {},
   crm_contacts      |-> {"users", "crm_custom_fields"},
   crm_companies     |-> {"users", "crm_custom_fields"},
   crm_deals         |-> {"users", "crm_stages", "crm_categories",
                          "crm_custom_fields", "crm_companies", "crm_contacts"},
   crm_comments      |-> {"users", "crm_deals", "crm_companies", "crm_contacts"},
   crm_file_refs     |-> {"crm_deals", "crm_companies", "crm_contacts"}]

Kinds == DOMAIN RefKinds

\* The kinds whose rows keep a link to a parent.
ParentKinds ==
  [tasks         |-> {"groups", "projects"},
   comments      |-> {"tasks"},
   file_refs     |-> {"tasks"},
   crm_deals     |-> {"crm_companies"},
   crm_comments  |-> {"crm_deals", "crm_companies", "crm_contacts"},
   crm_file_refs |-> {"crm_deals", "crm_companies", "crm_contacts"}]

\* What an entity of the kind has to name, one of each of these sets: the guards
\* of migrate_comments, migrate_file_refs and of their two CRM counterparts look
\* a column up whether it is there or not.
MustRefer ==
  [comments      |-> {{"users"}, {"tasks"}},
   file_refs     |-> {{"tasks"}},
   crm_comments  |-> {{"users"}, {"crm_deals", "crm_companies", "crm_contacts"}},
   crm_file_refs |-> {{"crm_deals", "crm_companies", "crm_contacts"}}]

\* The columns the properties tell apart; link is linked_parent_target_id.  Only
\* users are ever "unmatched" or "ambiguous".
Row == [status : {"resolved", "unmatched", "ambiguous", "error"},
        target : Targets \cup {None},
        link   : Targets \cup {None}]

ASSUME DataAssumption ==
  /\ KindOf \in [Entities -> Kinds]
  /\ Refs \in [Entities -> SUBSET Entities]
  /\ \A e \in Entities : \A f \in Refs[e] : KindOf[f] \in RefKinds[KindOf[e]]
  /\ \A e \in Entities : ParentOf[e] # None =>
       /\ ParentOf[e] \in Refs[e]
       /\ KindOf[e] \in DOMAIN ParentKinds
       /\ KindOf[ParentOf[e]] \in ParentKinds[KindOf[e]]
  /\ \A e \in Entities : (ParentOf[e] = None /\ KindOf[e] \in DOMAIN ParentKinds) =>
       \A f \in Refs[e] : KindOf[f] \notin ParentKinds[KindOf[e]]
  /\ TargetsOf \in [Entities -> SUBSET Targets]
  /\ ConflictAborts \in BOOLEAN
  /\ NoRow \notin Row
  /\ None \notin Targets

VARIABLES rows,  \* migration_mappings: [Entities -> Row or NoRow]
          ever,  \* history: the targets each entity has ever been resolved to
          call   \* what each session is doing

vars == <<rows, ever, call>>

Idle == [step |-> "idle"]

\* new: the rows to write, NoRow outside the batch.
WriteCall == [step : {"write"},
              seen : [Entities -> Row \cup {NoRow}],
              new  : [Entities -> Row \cup {NoRow}]]

TypeOK ==
  /\ rows \in [Entities -> Row \cup {NoRow}]
  /\ ever \in [Entities -> SUBSET Targets]
  /\ call \in [Sessions -> {Idle} \cup WriteCall]

Init ==
  /\ rows = [e \in Entities |-> NoRow]
  /\ ever = [e \in Entities |-> {}]
  /\ call = [s \in Sessions |-> Idle]
-----------------------------------------------------------------------------
(* What a call decides *)

\* _mapping_by_source has a target for the entity.
Known(e) ==
  /\ rows[e] # NoRow
  /\ rows[e].status = "resolved"
  /\ rows[e].target # None

\* The entity names what its kind has to name.
Complete(e) ==
  KindOf[e] \in DOMAIN MustRefer =>
    \A kinds \in MustRefer[KindOf[e]] : \E f \in Refs[e] : KindOf[f] \in kinds

\* No reference is missing.
AllKnown(e) == Complete(e) /\ \A f \in Refs[e] : Known(f)

ParentTarget(e) ==
  IF ParentOf[e] # None /\ Known(ParentOf[e]) THEN rows[ParentOf[e]].target
  ELSE None

\* Faulty, for the mutation runs: a child is linked to its own target.
BoundLinksSelf(e) ==
  {[status |-> "resolved", target |-> t,
    link |-> IF ParentOf[e] = None THEN None ELSE t] : t \in TargetsOf[e]}

Bound(e) ==
  {[status |-> "resolved", target |-> t, link |-> ParentTarget(e)] :
     t \in TargetsOf[e]}

\* Some kinds store the parent's target with an entity they block.
Blocked(e) ==
  [status |-> "error", target |-> None,
   link   |-> IF KindOf[e] \in {"comments", "crm_deals", "crm_comments"}
              THEN ParentTarget(e) ELSE None]

\* A user whom nobody matches, or several do.
Unsettled ==
  {[status |-> st, target |-> None, link |-> None] : st \in {"unmatched", "ambiguous"}}

\* Faulty, for the mutation runs: only the parent is looked up; a blocked entity
\* is called resolved; a blocked row is saved without a status.
DecisionsByParent(e) ==
  IF KindOf[e] = "users" THEN Bound(e) \cup Unsettled
  ELSE IF ParentOf[e] = None \/ Known(ParentOf[e]) THEN Bound(e)
  ELSE {Blocked(e)}

DecisionsNoTarget(e) ==
  IF KindOf[e] = "users" THEN Bound(e) \cup Unsettled
  ELSE IF AllKnown(e) THEN Bound(e)
  ELSE {[Blocked(e) EXCEPT !.status = "resolved"]}

DecisionsBlank(e) ==
  IF KindOf[e] = "users" THEN Bound(e) \cup Unsettled
  ELSE IF AllKnown(e) THEN Bound(e)
  ELSE {[Blocked(e) EXCEPT !.status = None]}

\* The rows a call may write for an entity: a user as the resolution policy or
\* the reviewer says, a custom field by its type, and the others bound exactly
\* when they name what they have to and everything they name has a target.
Decisions(e) ==
  IF KindOf[e] = "users" THEN Bound(e) \cup Unsettled
  ELSE IF KindOf[e] = "crm_custom_fields" THEN Bound(e) \cup {Blocked(e)}
  ELSE IF AllKnown(e) THEN Bound(e)
  ELSE {Blocked(e)}
-----------------------------------------------------------------------------
(* The calls *)

\* A call reads the rows of its batch and of what they refer to, and decides.
BeginCall(s, batch) ==
  /\ call[s] = Idle
  /\ \E new \in [batch -> UNION {Decisions(e) : e \in batch}] :
       /\ \A e \in batch : new[e] \in Decisions(e)
       /\ call' = [call EXCEPT
                     ![s] = [step |-> "write",
                             seen |-> [e \in Entities |->
                                         IF e \in batch THEN rows[e] ELSE NoRow],
                             new  |-> [e \in Entities |->
                                         IF e \in batch THEN new[e] ELSE NoRow]]]
  /\ UNCHANGED <<rows, ever>>

Batch(c) == {e \in Entities : c.new[e] # NoRow}

\* MappingRepository.upsert and the flush: an insert, or an update of the
\* columns whose new value differs from the value read.
Upsert(row, seen, new) ==
  IF seen = NoRow THEN new
  ELSE [status |-> IF new.status = seen.status THEN row.status ELSE new.status,
        target |-> IF new.target = seen.target THEN row.target ELSE new.target,
        link   |-> IF new.link = seen.link THEN row.link ELSE new.link]

\* May the database take the write?  The unique key refuses a second insert.
\* A row rewritten meanwhile with the values it had is let through, which is
\* more than a database that aborts conflicting writers allows.
MayWrite(row, seen) ==
  IF ConflictAborts THEN row = seen ELSE seen = NoRow => row = NoRow

RowAfter(c, e) ==
  IF e \in Batch(c) THEN Upsert(rows[e], c.seen[e], c.new[e]) ELSE rows[e]

TargetOf(row) ==
  IF row # NoRow /\ row.status = "resolved" /\ row.target # None
  THEN {row.target} ELSE {}

CommitCall(s) ==
  LET c == call[s]
  IN /\ c.step = "write"
     /\ \A e \in Batch(c) : MayWrite(rows[e], c.seen[e])
     /\ rows' = [e \in Entities |-> RowAfter(c, e)]
     /\ ever' = [e \in Entities |-> ever[e] \cup TargetOf(RowAfter(c, e))]
     /\ call' = [call EXCEPT ![s] = Idle]

\* An exception (a malformed item, a refused write) or the death of the
\* process: the whole batch is rolled back.
FailCall(s) ==
  /\ call[s] # Idle
  /\ call' = [call EXCEPT ![s] = Idle]
  /\ UNCHANGED <<rows, ever>>
-----------------------------------------------------------------------------
OfKind(k) == {e \in Entities : KindOf[e] = k}

\* crm_sync writes the dictionaries in one transaction; every other call writes
\* rows of one kind.
Dictionaries == {"crm_categories", "crm_stages", "crm_custom_fields"}

CallKinds == {Dictionaries} \cup {{k} : k \in Kinds \ Dictionaries}

OfKinds(kinds) == UNION {OfKind(k) : k \in kinds}

Step(s) ==
  \/ \E kinds \in CallKinds :
       \E batch \in (SUBSET OfKinds(kinds)) \ {{}} : BeginCall(s, batch)
  \/ CommitCall(s)
  \/ FailCall(s)

Next == \E s \in Sessions : Step(s)

Spec == Init /\ [][Next]_vars
-----------------------------------------------------------------------------
(* Properties *)

\* "Dependency-aware execution safety": an entity gets its first target only
\* after everything it refers to has had one, however the calls overlap and
\* whichever columns a late writer overwrites.
Order == INSTANCE DependencyOrder WITH bound <- {e \in Entities : ever[e] # {}}

BindsInOrder == Order!Spec

\* The target stored as the link of a child is one its parent really had: no
\* link is made up, taken from another parent, or from a row that was blocked.
LinksWereTargets ==
  \A e \in Entities :
    (rows[e] # NoRow /\ rows[e].link # None) =>
      ParentOf[e] # None /\ rows[e].link \in ever[ParentOf[e]]

\* A row says what one call decided: it has a target exactly when it is
\* resolved, and a resolved child has the target of its parent.  verify:relations
\* then finds nothing in what the data plane itself wrote.
RowsAreWhole ==
  \A e \in Entities : rows[e] # NoRow =>
    /\ rows[e].status = "resolved" <=> rows[e].target # None
    /\ (rows[e].status = "resolved" /\ ParentOf[e] # None)
         => rows[e].link # None

\* The enterprise screen says while users are unresolved or ambiguous that
\* execution is blocked and that they have to be settled before the dependent
\* domains are started.  No call that binds anything else then begins.
DependentsWaitForUsers ==
  [][\A s \in Sessions :
       (call[s] = Idle /\ call'[s] # Idle /\
          \E e \in Batch(call'[s]) :
            KindOf[e] # "users" /\ call'[s].new[e].status = "resolved")
       => \A u \in OfKind("users") :
            rows[u] # NoRow => rows[u].status = "resolved"]_vars

\* verify:files reports "reference_integrity": "passed" whatever the rows say.
\* The file references that are resolved then belong to tasks that are.
FileRefsIntact ==
  \A e \in OfKind("file_refs") :
    (rows[e] # NoRow /\ rows[e].status = "resolved") => Known(ParentOf[e])
==============================================================================
