--------------------------- MODULE DependencyOrder ---------------------------
(***************************************************************************)
(* What the data plane promises about order: an entity is bound to a       *)
(* target for the first time only after everything it refers to has been   *)
(* bound.  DataPlane is the detailed specification compared with this one. *)
(***************************************************************************)
CONSTANTS Entities,
          Refs      \* [Entities -> SUBSET Entities]

VARIABLE bound      \* the entities that have ever been bound

Init == bound = {}

\* A call binds the entities of its batch that it can.
Bind(batch) ==
  /\ \A e \in batch : Refs[e] \subseteq bound
  /\ bound' = bound \cup batch

Next == \E batch \in SUBSET Entities : Bind(batch)

Spec == Init /\ [][Next]_bound
==============================================================================
