------------------------------ MODULE MCCutover ------------------------------
(* Cutover on a small instance. *)
EXTENDS Cutover

CONSTANTS user1, user2, user3, file1

MCTypeOf == [e \in Entities |-> IF e = file1 THEN "file_refs" ELSE "users"]

\* user3 is the one with a blank source id.
Symmetry == Permutations({user1, user2}) \cup Permutations(Targets)
==============================================================================
