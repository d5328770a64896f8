----------------------------- MODULE MCDataPlane -----------------------------
(* DataPlane on two small chains of entities. *)
EXTENDS DataPlane, TLC

CONSTANTS user, author, deal, comment, group, task, file, t1, t2

\* A deal in the care of one user, and a comment on it by another user.
DealChain == {user, author, deal, comment}

DealKinds == user :> "users" @@ author :> "users"
               @@ deal :> "crm_deals" @@ comment :> "crm_comments"

DealRefs == user :> {} @@ author :> {}
              @@ deal :> {user} @@ comment :> {author, deal}

DealParents == user :> None @@ author :> None
                 @@ deal :> None @@ comment :> deal

\* A group with one member, a task of the group, a file reference of the task.
TaskChain == {user, group, task, file}

TaskKinds == user :> "users" @@ group :> "groups"
               @@ task :> "tasks" @@ file :> "file_refs"

TaskRefs == user :> {} @@ group :> {user}
              @@ task :> {user, group} @@ file :> {task}

TaskParents == user :> None @@ group :> None
                 @@ task :> group @@ file :> task

\* The deal and the group may be matched or created; the rest have one target.
MCTargetsOf ==
  [e \in Entities |-> IF e \in {deal, group} THEN {t1, t2} ELSE {t1}]

Symmetry == Permutations(Sessions)
==============================================================================
