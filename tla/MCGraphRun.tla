----------------------------- MODULE MCGraphRun -----------------------------
(* GraphRun on a small portal. *)
EXTENDS GraphRun, TLC

CONSTANTS user, field, stage, contact, deal, note, stray, group, task, t1, t2

\* A contact with a custom field, a deal of the contact at a stage, a comment on
\* the deal and another on nothing, and a task of a group; one user is
\* responsible for all of them.
Portal == {user, field, stage, contact, deal, note, stray, group, task}

PortalKinds ==
  user :> "users" @@ field :> "crm_custom_fields" @@ stage :> "crm_stages"
    @@ contact :> "crm_contacts" @@ deal :> "crm_deals"
    @@ note :> "crm_comments" @@ stray :> "crm_comments"
    @@ group :> "groups" @@ task :> "tasks"

PortalRefs ==
  user :> {} @@ field :> {} @@ stage :> {} @@ contact :> {user, field}
    @@ deal :> {user, stage, contact} @@ note :> {user, deal} @@ stray :> {user}
    @@ group :> {user} @@ task :> {user, group}

PortalParents ==
  [e \in Portal |-> CASE e = note -> deal [] e = task -> group [] OTHER -> None]

\* The deal may be matched or created; the rest have one target.
PortalTargets == [e \in Entities |-> IF e = deal THEN {t1, t2} ELSE {t1}]

Symmetry == Permutations(Sessions)
==============================================================================
