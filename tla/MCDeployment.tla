---------------------------- MODULE MCDeployment ----------------------------
(* Deployment on a small instance. *)
EXTENDS Deployment, TLC

CONSTANTS mysql1, mysql2, local, p1, p2

MCUrls == {mysql1, mysql2, local}
MCMySQL == {mysql1, mysql2}
MCPasswords == {p1, p2}
MCUrlOf == p1 :> mysql1 @@ p2 :> mysql2

MCEnvironments ==
  {NoEnvironment,
   [mode |-> "production", url |-> None],
   [mode |-> None, url |-> mysql2]}
==============================================================================
