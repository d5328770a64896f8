------------------------------ MODULE PlanScope ------------------------------
(***************************************************************************)
(* The scope of a plan: which one create_plan takes, how the planner       *)
(* orders and hashes it, and how PlanRepository keeps it in one column,    *)
(* with commas, and reads it back.  A run counts the names it reads.       *)
(*                                                                         *)
(* A name is the sequence of its pieces between commas: one, unless the    *)
(* name has commas.  A piece is a number, 0 for the blank text.  The web   *)
(* forms split and strip what they are given; --scope of the CLI and       *)
(* default_scope of the configuration file take any text.                  *)
(***************************************************************************)
EXTENDS Integers, SequencesExt

CONSTANTS Pieces,         \* the texts between commas: a set of naturals
          DefaultScope    \* the configuration's default_scope

Blank == <<0>>   \* the name ""

Names(n) == UNION {[1..m -> Pieces] : m \in 1..n}

ScopesOf(names, n) == UNION {[1..m -> names] : m \in 0..n}

ASSUME ScopeAssumption ==
  /\ Pieces \subseteq Nat
  /\ 0 \in Pieces
  /\ DefaultScope \in Seq(Seq(Pieces) \ {<<>>})

\* Names in the order of their pieces; for the planner any order will do.
Before(a, b) ==
  \/ Len(a) < Len(b)
  \/ /\ Len(a) = Len(b)
     /\ \E i \in DOMAIN a : a[i] < b[i] /\ \A j \in 1..i - 1 : a[j] = b[j]

\* final_scope of create_plan: an empty list stands for none.
FinalScope(scope) == IF scope = <<>> THEN DefaultScope ELSE scope

\* ordered_scope of the planner; with the job it determines the plan's id.
Ordered(scope) ==
  LET places == DOMAIN scope
      order  == CHOOSE p \in Bijection(places, places) :
                  \A i, j \in places : i < j => ~Before(scope[p[j]], scope[p[i]])
  IN [i \in places |-> scope[order[i]]]

\* scope_csv: the pieces of all the names.  No name and one blank name give the
\* same text.
Csv(scope) == FlattenSeq(IF scope = <<>> THEN <<Blank>> ELSE scope)

\* Faulty, for the mutation runs: the empty text is split as well.
SplitBare(csv) == [i \in DOMAIN csv |-> <<csv[i]>>]

\* PlanRepository.get.
Split(csv) == IF csv = Blank THEN <<>> ELSE [i \in DOMAIN csv |-> <<csv[i]>>]

\* The scope of a plan as a run reads it.
ReadBack(scope) == Split(Csv(Ordered(FinalScope(scope))))
-----------------------------------------------------------------------------
(* Properties *)

SameNames(a, b) ==
  \A name \in Range(a) \cup Range(b) :
    Cardinality({i \in DOMAIN a : a[i] = name})
      = Cardinality({i \in DOMAIN b : b[i] = name})

\* Two requests of a job get one plan exactly when they name the same things,
\* in whatever order and as often.  What a run reads is the planned scope
\* unless a name has a comma or is a lone blank; and whatever the names are, a
\* pass counts no fewer than were asked for, and at least one.
ScopeSurvives(requests) ==
  \A a \in requests :
    LET planned == Ordered(FinalScope(a))
        read    == ReadBack(a)
        count   == IF Len(read) > 1 THEN Len(read) ELSE 1
    IN /\ \A b \in requests :
            planned = Ordered(FinalScope(b)) <=> SameNames(FinalScope(a), FinalScope(b))
       /\ read = planned <=>
            (planned # <<Blank>> /\ \A i \in DOMAIN planned : Len(planned[i]) = 1)
       /\ count >= Len(FinalScope(a))
==============================================================================
