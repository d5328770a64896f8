---------------------------- MODULE MCUserMapping ----------------------------
(* UserMapping and the policy behind it on a small instance. *)
EXTENDS UserMatching, UserPlane, TLC

Symmetry == Permutations(Sessions) \cup Permutations(Sources)
              \cup Permutations(Targets)

\* Two candidates: enough for one match, a tie, and a weaker key that would
\* settle a tie in a stronger one.  The policy reads no rows, so that it is
\* enough to ask before the first call.
PolicyBindsOnEvidence == Init => BoundOnEvidence(2)
==============================================================================
