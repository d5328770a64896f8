---------------------------- MODULE MCSchemaSplit ----------------------------
(* SchemaSplit on a small instance. *)
EXTENDS SchemaSplit, TLC

CONSTANTS p1, p2, q, q2, jp1, jp2, jq, jq2, here, there

MCLegacyJob == p1 :> jp1 @@ p2 :> jp2 @@ q :> jq @@ q2 :> jq2

MCPortalsOf == p1 :> here @@ p2 :> there @@ q :> here @@ q2 :> there
==============================================================================
