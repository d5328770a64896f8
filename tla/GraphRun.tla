------------------------------ MODULE GraphRun ------------------------------
(***************************************************************************)
(* DataPlane under callers that follow the execution graph of              *)
(* DomainRegistryService, which the application shows and hands out        *)
(* (GET /enterprise, delta:plan) and never enforces: a step is worked on   *)
(* when the steps it names as dependencies are finished, by any number of  *)
(* sessions, in batches of any size, failed calls being repeated.  When    *)
(* all is done the graph may be gone through again, after reviews or       *)
(* changes of the source.                                                  *)
(*                                                                         *)
(* The question is whether the graph is a right order for what the calls   *)
(* check (RefKinds of DataPlane).  Its last steps, verification and        *)
(* delta/cutover, write no mapping and are left out.                       *)
(***************************************************************************)
EXTENDS DataPlane

\* The steps and the kinds of rows their calls write.
StepKinds ==
  [users              |-> {"users"},
   schemas            |-> {"crm_custom_fields", "crm_categories", "crm_stages"},
   contacts_companies |-> {"crm_contacts", "crm_companies"},
   deals              |-> {"crm_deals"},
   crm_comments       |-> {"crm_comments"},
   crm_file_refs      |-> {"crm_file_refs"},
   groups_projects    |-> {"groups", "projects"},
   tasks              |-> {"tasks"},
   comments           |-> {"comments"},
   file_refs          |-> {"file_refs"}]

GraphSteps == DOMAIN StepKinds

\* Faulty, for the mutation runs: deals do not wait for contacts and companies.
DependenciesShort ==
  [users              |-> {},
   schemas            |-> {"users"},
   contacts_companies |-> {"users", "schemas"},
   deals              |-> {"schemas"},
   crm_comments       |-> {"deals"},
   crm_file_refs      |-> {"crm_comments"},
   groups_projects    |-> {"users"},
   tasks              |-> {"users", "groups_projects"},
   comments           |-> {"tasks"},
   file_refs          |-> {"comments"}]

Dependencies ==
  [users              |-> {},
   schemas            |-> {"users"},
   contacts_companies |-> {"users", "schemas"},
   deals              |-> {"contacts_companies", "schemas"},
   crm_comments       |-> {"deals"},
   crm_file_refs      |-> {"crm_comments"},
   groups_projects    |-> {"users"},
   tasks              |-> {"users", "groups_projects"},
   comments           |-> {"tasks"},
   file_refs          |-> {"comments"}]

VARIABLES finished,  \* the steps finished in this round
          covered    \* the entities whose call was committed in this round

graphVars == <<rows, ever, call, finished, covered>>

GraphTypeOK ==
  /\ TypeOK
  /\ finished \subseteq GraphSteps
  /\ covered \subseteq Entities

GraphInit ==
  /\ Init
  /\ finished = {}
  /\ covered = {}
-----------------------------------------------------------------------------
OfStep(step) == {e \in Entities : KindOf[e] \in StepKinds[step]}

StepOf(e) == CHOOSE step \in GraphSteps : KindOf[e] \in StepKinds[step]

Workable(step) == step \notin finished /\ Dependencies[step] \subseteq finished

\* A call for entities of a step that may be worked on.
GraphBegin(s) ==
  /\ \E step \in GraphSteps : \E kinds \in CallKinds \cap SUBSET StepKinds[step] :
       \E batch \in (SUBSET (OfKinds(kinds) \ covered)) \ {{}} :
         Workable(step) /\ BeginCall(s, batch)
  /\ UNCHANGED <<finished, covered>>

GraphCommit(s) ==
  /\ CommitCall(s)
  /\ covered' = covered \cup Batch(call[s])
  /\ UNCHANGED finished

GraphFail(s) ==
  /\ FailCall(s)
  /\ UNCHANGED <<finished, covered>>

\* Every entity of the step has been through and no call of it is under way.
FinishStep(step) ==
  /\ Workable(step)
  /\ OfStep(step) \subseteq covered
  /\ \A s \in Sessions :
       call[s] # Idle => Batch(call[s]) \cap OfStep(step) = {}
  /\ finished' = finished \cup {step}
  /\ UNCHANGED <<rows, ever, call, covered>>

NextRound ==
  /\ finished = GraphSteps
  /\ finished' = {}
  /\ covered' = {}
  /\ UNCHANGED <<rows, ever, call>>

GraphNext ==
  \/ \E s \in Sessions : GraphBegin(s) \/ GraphCommit(s) \/ GraphFail(s)
  \/ \E step \in GraphSteps : FinishStep(step)
  \/ NextRound

GraphSpec == GraphInit /\ [][GraphNext]_graphVars
-----------------------------------------------------------------------------
(* Properties *)

\* To the callers that follow the graph, the order never matters: what a round
\* has finished with is resolved exactly when everything it has to name is there
\* and resolved, and blocked by the very references that are missing now, not by
\* ones that were migrated after it or taken back since.  Users and custom fields are settled
\* on their own.
DecidedByFinalRefs ==
  \A e \in Entities :
    (StepOf(e) \in finished /\ KindOf[e] \notin {"users", "crm_custom_fields"})
      => (Known(e) <=> Complete(e) /\ \A f \in Refs[e] : Known(f))

\* What is bound in a round is linked to the target its parent has, also where
\* the parent was bound anew in that round.
LinksAreCurrent ==
  \A e \in Entities :
    (StepOf(e) \in finished /\ Known(e) /\ ParentOf[e] # None)
      => rows[e].link = rows[ParentOf[e]].target
==============================================================================
