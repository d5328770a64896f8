--------------------------- MODULE MCRunLifecycle ---------------------------
(* RunLifecycle on a small instance, with PlanScope for its scopes. *)
EXTENDS RunLifecycle, PlanScope

\* A lone blank, which is read back as no name (a pass still counts 1), and two
\* names.
MCScopes == {<<Blank>>, <<<<1>>, <<2>>>>}

MCScopeLen == [scope \in MCScopes |-> Len(ReadBack(scope))]

MCDefaultScope == <<>>

Symmetry == Permutations(Sessions) \cup Permutations(Runs)

\* Scopes of at most two names, which have at most two pieces each.  What is
\* read back of a scope depends on nothing else, so that it is enough to ask
\* before the first call.
ScopeSurvivesCsv == Init => ScopeSurvives(ScopesOf(Names(2), 2))
==============================================================================
