------------------------------ MODULE RunLedger ------------------------------
(***************************************************************************)
(* What the run tables promise an operator of the migrator, with calls     *)
(* that take effect one at a time: a run is opened by execute, dry or      *)
(* real, and every later pass over it (resume) advances its counter by     *)
(* exactly one chunk, the size of its plan's scope.  RunLifecycle is the   *)
(* detailed specification that is compared with this one.                  *)
(***************************************************************************)
EXTENDS Naturals

CONSTANTS Runs,         \* run identifiers
          Plans,        \* plan identifiers
          Chunk,        \* [Plans -> Nat]: the items one pass over a plan counts
          None          \* the run has no entry

VARIABLE ledger         \* [Runs -> Entry \cup {None}]

Entry == [plan : Plans, done : Nat, paused : BOOLEAN]

Init == ledger = [r \in Runs |-> None]

\* A dry run opens an entry that has done nothing and waits for a pass.
OpenDry(r, p) ==
  /\ ledger[r] = None
  /\ ledger' = [ledger EXCEPT ![r] = [plan |-> p, done |-> 0, paused |-> TRUE]]

\* A real execution opens an entry whose first pass is done.
OpenReal(r, p) ==
  /\ ledger[r] = None
  /\ ledger' = [ledger EXCEPT
                  ![r] = [plan |-> p, done |-> Chunk[p], paused |-> FALSE]]

\* One more pass over a run that exists: one chunk, neither less nor more.
Pass(r) ==
  /\ ledger[r] # None
  /\ ledger' = [ledger EXCEPT
                  ![r] = [plan   |-> ledger[r].plan,
                          done   |-> ledger[r].done + Chunk[ledger[r].plan],
                          paused |-> FALSE]]

Next ==
  \E r \in Runs :
    \/ \E p \in Plans : OpenDry(r, p) \/ OpenReal(r, p)
    \/ Pass(r)

Spec == Init /\ [][Next]_ledger
==============================================================================
