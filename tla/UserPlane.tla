------------------------------ MODULE UserPlane ------------------------------
(***************************************************************************)
(* UserMapping under DataPlane: the calls about users as the data plane    *)
(* takes them to be, calls over entities of one kind that refer to nothing.*)
(* What DataPlane lets users do is so held against what users_map,         *)
(* resolve_user_mapping and users_review do to their rows.                 *)
(***************************************************************************)
EXTENDS UserMapping

VARIABLE ever  \* history: the targets each user has ever been resolved to

planeVars == <<rows, queue, call, ever>>
-----------------------------------------------------------------------------
(* The mapping to the state of the data plane *)

\* It does not tell by whom a user was resolved, and links no users.
PlaneRow(row) ==
  IF row = NoRow THEN NoRow
  ELSE [status |-> row.status, target |-> row.target, link |-> NoTarget]

\* The users whose rows a call writes.  resolve_user_mapping of an ambiguous
\* user writes none, and is nothing to the data plane.
PlaneBatch(c) ==
  CASE c.step = "map"    -> Written(c)
    [] c.step = "review" -> {c.source}
    [] c.step = "idle"   -> {}

\* What it has read and what it writes of one of them.
SeenOf(c, x) == IF c.step = "map" THEN c.seen[x] ELSE c.seen

NewOf(c, x) == IF c.step = "map" THEN Decision(c.batch[x]) ELSE Reviewed(c.target)

PlaneCall(c) ==
  LET batch == PlaneBatch(c)
  IN IF batch = {} THEN Idle
     ELSE [step |-> "write",
           seen |-> [x \in Sources |->
                       IF x \in batch THEN PlaneRow(SeenOf(c, x)) ELSE NoRow],
           new  |-> [x \in Sources |->
                       IF x \in batch THEN PlaneRow(NewOf(c, x)) ELSE NoRow]]

Plane ==
  INSTANCE DataPlane
    WITH Entities  <- Sources,
         KindOf    <- [x \in Sources |-> "users"],
         Refs      <- [x \in Sources |-> {}],
         ParentOf  <- [x \in Sources |-> NoTarget],
         TargetsOf <- [x \in Sources |-> Targets],
         None      <- NoTarget,
         rows      <- [x \in Sources |-> PlaneRow(rows[x])],
         call      <- [s \in Sessions |-> PlaneCall(call[s])]

ASSUME PlaneAssumption == NoRow \notin Plane!Row
-----------------------------------------------------------------------------
(* UserMapping with the history of DataPlane *)

Remember ==
  ever' = [x \in Sources |-> ever[x] \cup Plane!TargetOf(PlaneRow(rows'[x]))]

PlaneInit == Init /\ ever = [x \in Sources |-> {}]

PlaneNext == Next /\ Remember

PlaneSpec == PlaneInit /\ [][PlaneNext]_planeVars
-----------------------------------------------------------------------------
(* Properties *)

\* The calls about users, one or many users at a time and over either kind of
\* database, are calls of the data plane: its dependents meet no row of a user,
\* and no change of one, that DataPlane leaves out.
ImplementsDataPlane == Plane!Spec

\* What of this concerns the tables: user rows only change as the commit of a
\* call of the data plane changes them, from what it read and what it decided.
ChangesAsDataPlane ==
  [][\E s \in Sessions : Plane!CommitCall(s)]_<<rows, ever>>
==============================================================================
