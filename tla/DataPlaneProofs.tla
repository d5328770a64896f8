--------------------------- MODULE DataPlaneProofs ---------------------------
(***************************************************************************)
(* Proofs about DataPlane, and then about GraphRun, for every number of    *)
(* callers, every portal and both kinds of database.                       *)
(***************************************************************************)
EXTENDS GraphRun, TLAPS

BoundSet == {e \in Entities : ever[e] # {}}

(* What holds of a row that a call has written or is about to write. *)
Sound(e, row) ==
  /\ row.target # None => Refs[e] \subseteq BoundSet
  /\ row.link # None =>
       ParentOf[e] # None /\ row.link \in ever[ParentOf[e]]

\* ever is the history of the targets.
KnownInHistory == \A e \in Entities : Known(e) => rows[e].target \in ever[e]

RowsSound == \A e \in Entities : rows[e] # NoRow => Sound(e, rows[e])

Writing(s) == call[s].step = "write"

CallsSound ==
  \A s \in Sessions : Writing(s) =>
    \A e \in Batch(call[s]) : Sound(e, call[s].new[e])

\* Rows are never deleted: a call that read a row finds one when it commits.
SeenStays ==
  \A s \in Sessions : Writing(s) =>
    \A e \in Entities : call[s].seen[e] # NoRow => rows[e] # NoRow

HistoryInv ==
  TypeOK /\ KnownInHistory /\ RowsSound /\ CallsSound /\ SeenStays
-----------------------------------------------------------------------------
(* The operators *)

LEMMA CallType ==
  ASSUME TypeOK, NEW s \in Sessions
  PROVE  /\ Writing(s) => call[s] \in WriteCall
         /\ call[s] # Idle => Writing(s)
  BY DEF TypeOK, Writing, WriteCall, Idle

\* Users and custom fields are bound or not whatever the other rows say.
LEMMA NoReferences ==
  ASSUME NEW e \in Entities, KindOf[e] \in {"users", "crm_custom_fields"}
  PROVE  Refs[e] = {}
  <1>1. RefKinds[KindOf[e]] = {}
    BY DEF RefKinds
  <1>2. Refs[e] \in SUBSET Entities /\ \A f \in Refs[e] : KindOf[f] \in {}
    BY <1>1, DataAssumption
  <1>3. QED
    BY <1>2

LEMMA ParentType ==
  ASSUME NEW e \in Entities, ParentOf[e] # None
  PROVE  ParentOf[e] \in Refs[e] /\ ParentOf[e] \in Entities
  BY DataAssumption

LEMMA ParentTargetSound ==
  ASSUME TypeOK, KnownInHistory, NEW e \in Entities
  PROVE  /\ ParentTarget(e) \in Targets \cup {None}
         /\ ParentTarget(e) # None =>
              ParentOf[e] # None /\ ParentTarget(e) \in ever[ParentOf[e]]
  <1>1. CASE ParentOf[e] # None /\ Known(ParentOf[e])
    <2>1. ParentTarget(e) = rows[ParentOf[e]].target
      BY <1>1 DEF ParentTarget
    <2>2. ParentOf[e] \in Entities
      BY <1>1, ParentType
    <2>3. ParentTarget(e) \in ever[ParentOf[e]]
      BY <1>1, <2>1, <2>2 DEF KnownInHistory
    <2>4. ever[ParentOf[e]] \subseteq Targets
      BY <2>2 DEF TypeOK
    <2>5. QED
      BY <1>1, <2>3, <2>4
  <1>2. CASE ~(ParentOf[e] # None /\ Known(ParentOf[e]))
    BY <1>2 DEF ParentTarget
  <1>3. QED
    BY <1>1, <1>2

LEMMA BoundType ==
  ASSUME TypeOK, KnownInHistory, NEW e \in Entities, NEW row \in Bound(e)
  PROVE  row \in Row /\ row.link = ParentTarget(e) /\ row.target \in Targets
         /\ row.status = "resolved"
  <1>1. ParentTarget(e) \in Targets \cup {None} /\ TargetsOf[e] \subseteq Targets
    BY ParentTargetSound, DataAssumption
  <1>2. QED
    BY <1>1 DEF Bound, Row

LEMMA BlockedType ==
  ASSUME TypeOK, KnownInHistory, NEW e \in Entities
  PROVE  /\ Blocked(e) \in Row
         /\ Blocked(e).status = "error" /\ Blocked(e).target = None
         /\ Blocked(e).link \in {None, ParentTarget(e)}
  BY ParentTargetSound DEF Blocked, Row

\* A decision binds an entity only when all it refers to has had a target.
LEMMA DecisionsSound ==
  ASSUME TypeOK, KnownInHistory, NEW e \in Entities, NEW row \in Decisions(e)
  PROVE  row \in Row /\ Sound(e, row)
  <1>1. CASE row \in Unsettled
    BY <1>1 DEF Unsettled, Row, Sound
  <1>2. CASE row = Blocked(e)
    BY <1>2, BlockedType, ParentTargetSound DEF Sound
  <1>3. CASE row \in Bound(e)
    <2>1. Refs[e] \subseteq BoundSet
      <3>1. CASE KindOf[e] \in {"users", "crm_custom_fields"}
        BY <3>1, NoReferences
      <3>2. CASE KindOf[e] \notin {"users", "crm_custom_fields"}
        <4>1. row.status # "error"
          BY <1>3, BoundType
        <4>2. \A f \in Refs[e] : Known(f)
          BY <3>2, <4>1, BlockedType DEF Decisions, AllKnown
        <4>3. Refs[e] \subseteq Entities
          BY DataAssumption
        <4>4. QED
          BY <4>2, <4>3 DEF KnownInHistory, BoundSet
      <3>3. QED
        BY <3>1, <3>2
    <2>2. QED
      BY <1>3, <2>1, BoundType, ParentTargetSound DEF Sound
  <1>4. QED
    BY <1>1, <1>2, <1>3 DEF Decisions

\* Each column of what is written is the new one or the one in the table.
LEMMA UpsertSound ==
  ASSUME NEW e \in Entities,
         NEW row \in Row \cup {NoRow}, NEW seen \in Row \cup {NoRow},
         NEW new \in Row, seen # NoRow => row # NoRow,
         Sound(e, new), row # NoRow => Sound(e, row)
  PROVE  Upsert(row, seen, new) \in Row /\ Sound(e, Upsert(row, seen, new))
  <1>1. CASE seen = NoRow
    BY <1>1 DEF Upsert
  <1>2. CASE seen # NoRow
    <2>1. row \in Row
      BY <1>2
    <2>2. PICK result : result = Upsert(row, seen, new)
      OBVIOUS
    <2>3. /\ result.status \in {row.status, new.status}
          /\ result.target \in {row.target, new.target}
          /\ result.link \in {row.link, new.link}
      BY <1>2, <2>2 DEF Upsert
    <2>4. result \in Row
      BY <1>2, <2>1, <2>2 DEF Upsert, Row
    <2>5. Sound(e, result)
      BY <1>2, <2>1, <2>3 DEF Sound
    <2>6. QED
      BY <2>2, <2>4, <2>5
  <1>3. QED
    BY <1>1, <1>2
-----------------------------------------------------------------------------
(* The steps *)

LEMMA HistoryInit == Init => HistoryInv
  BY DEF Init, HistoryInv, TypeOK, KnownInHistory, Known, RowsSound,
         CallsSound, SeenStays, Writing, Idle

\* A call begins: its decisions are sound, and the tables are as they were.
LEMMA BeginStep ==
  ASSUME HistoryInv, NEW s \in Sessions, NEW batch \in SUBSET Entities,
         BeginCall(s, batch)
  PROVE  HistoryInv'
  <1>1. PICK new \in [batch -> UNION {Decisions(e) : e \in batch}] :
          /\ \A e \in batch : new[e] \in Decisions(e)
          /\ call' = [call EXCEPT
                        ![s] = [step |-> "write",
                                seen |-> [e \in Entities |->
                                            IF e \in batch THEN rows[e] ELSE NoRow],
                                new  |-> [e \in Entities |->
                                            IF e \in batch THEN new[e] ELSE NoRow]]]
    BY DEF BeginCall
  <1> DEFINE seenAll == [e \in Entities |->
                           IF e \in batch THEN rows[e] ELSE NoRow]
             newAll == [e \in Entities |->
                          IF e \in batch THEN new[e] ELSE NoRow]
             c == [step |-> "write", seen |-> seenAll, new |-> newAll]
  <1>2. rows' = rows /\ ever' = ever
    BY DEF BeginCall
  <1>3. TypeOK /\ KnownInHistory
    BY DEF HistoryInv
  <1>4. \A e \in batch : new[e] \in Row /\ Sound(e, new[e])
    BY <1>1, <1>3, DecisionsSound
  <1>5. seenAll \in [Entities -> Row \cup {NoRow}]
    BY <1>3 DEF TypeOK
  <1>6. newAll \in [Entities -> Row \cup {NoRow}]
    BY <1>4
  <1>7. c \in WriteCall
    BY <1>5, <1>6 DEF WriteCall
  <1>8. /\ \A e \in Entities : c.seen[e] # NoRow => rows[e] # NoRow
        /\ \A e \in Batch(c) : e \in batch /\ c.new[e] = new[e]
    BY DEF Batch
  <1>9. call' = [call EXCEPT ![s] = c]
    BY <1>1
  <1> HIDE DEF c
  <1>10. TypeOK'
    BY <1>2, <1>3, <1>7, <1>9 DEF TypeOK
  <1>11. KnownInHistory' /\ RowsSound'
    BY <1>2 DEF HistoryInv, KnownInHistory, Known, RowsSound, Sound, BoundSet
  <1>12. call'[s] = c /\ \A t \in Sessions \ {s} : call'[t] = call[t]
    BY <1>3, <1>9 DEF TypeOK
  <1>13. \A e \in Batch(c) : Sound(e, c.new[e])
    BY <1>4, <1>8
  <1>14. ASSUME NEW t \in Sessions, Writing(t)'
         PROVE  /\ \A e \in Batch(call'[t]) : Sound(e, call'[t].new[e])
                /\ \A e \in Entities : call'[t].seen[e] # NoRow => rows[e] # NoRow
    <2>1. CASE t = s
      BY <1>8, <1>12, <1>13, <2>1
    <2>2. CASE t # s
      BY <1>12, <1>14, <2>2 DEF HistoryInv, CallsSound, SeenStays, Writing
    <2>3. QED
      BY <2>1, <2>2
  <1>15. CallsSound'
    BY <1>2, <1>14 DEF CallsSound, Sound, BoundSet, Batch
  <1>16. SeenStays'
    BY <1>2, <1>14 DEF SeenStays
  <1>17. QED
    BY <1>10, <1>11, <1>15, <1>16 DEF HistoryInv

\* What a commit writes.
LEMMA CommitEffect ==
  ASSUME HistoryInv, NEW s \in Sessions, CommitCall(s), NEW e \in Entities
  PROVE  /\ rows'[e] = RowAfter(call[s], e)
         /\ ever'[e] = ever[e] \cup TargetOf(rows'[e])
         /\ rows[e] # NoRow => rows'[e] # NoRow
         /\ rows'[e] \in Row \cup {NoRow}
         /\ rows'[e] # NoRow => Sound(e, rows'[e])
  <1> DEFINE c == call[s]
  <1>1. /\ Writing(s)
        /\ rows' = [f \in Entities |-> RowAfter(c, f)]
        /\ ever' = [f \in Entities |-> ever[f] \cup TargetOf(RowAfter(c, f))]
    BY DEF CommitCall, Writing
  <1>2. rows'[e] = RowAfter(c, e) /\ ever'[e] = ever[e] \cup TargetOf(rows'[e])
    BY <1>1
  <1>3. /\ c \in WriteCall
        /\ rows[e] \in Row \cup {NoRow}
        /\ rows[e] # NoRow => Sound(e, rows[e])
        /\ c.seen[e] # NoRow => rows[e] # NoRow
    BY <1>1, CallType DEF HistoryInv, TypeOK, RowsSound, SeenStays
  <1>4. CASE e \in Batch(c)
    <2>1. /\ c.new[e] \in Row /\ Sound(e, c.new[e])
          /\ c.seen[e] \in Row \cup {NoRow}
      BY <1>1, <1>3, <1>4 DEF HistoryInv, CallsSound, Batch, WriteCall
    <2>2. rows'[e] = Upsert(rows[e], c.seen[e], c.new[e])
      BY <1>2, <1>4 DEF RowAfter
    <2>3. PICK row \in Row \cup {NoRow} : row = rows[e]
      BY <1>3
    <2>4. PICK seen \in Row \cup {NoRow} : seen = c.seen[e]
      BY <2>1
    <2>5. PICK new \in Row : new = c.new[e]
      BY <2>1
    <2>6. PICK result : result = rows'[e]
      OBVIOUS
    <2>7. /\ seen # NoRow => row # NoRow
          /\ Sound(e, new)
          /\ row # NoRow => Sound(e, row)
      BY <1>3, <2>1, <2>3, <2>4, <2>5
    <2>8. result = Upsert(row, seen, new)
      BY <2>2, <2>3, <2>4, <2>5, <2>6
    <2>9. result \in Row /\ Sound(e, result)
      BY <2>7, <2>8, UpsertSound
    <2>10. QED
      BY <1>2, <2>6, <2>9, DataAssumption
  <1>5. CASE e \notin Batch(c)
    <2>1. rows'[e] = rows[e]
      BY <1>2, <1>5 DEF RowAfter
    <2>2. QED
      BY <1>2, <1>3, <2>1
  <1>6. QED
    BY <1>4, <1>5

\* A row that is sound stays so: the history only grows.
LEMMA SoundStays ==
  ASSUME NEW e \in Entities, NEW row, Sound(e, row),
         \A f \in Entities : ever[f] \subseteq ever'[f]
  PROVE  /\ row.target # None => Refs[e] \subseteq BoundSet'
         /\ row.link # None =>
              ParentOf[e] # None /\ row.link \in ever'[ParentOf[e]]
  <1>1. BoundSet \subseteq BoundSet'
    BY DEF BoundSet
  <1>2. ParentOf[e] # None => ever[ParentOf[e]] \subseteq ever'[ParentOf[e]]
    BY ParentType
  <1>3. QED
    BY <1>1, <1>2 DEF Sound

LEMMA CommitStep ==
  ASSUME HistoryInv, NEW s \in Sessions, CommitCall(s)
  PROVE  HistoryInv'
  <1>1. /\ call' = [call EXCEPT ![s] = Idle]
        /\ rows' = [e \in Entities |-> RowAfter(call[s], e)]
        /\ ever' = [e \in Entities |->
                      ever[e] \cup TargetOf(RowAfter(call[s], e))]
    BY DEF CommitCall
  <1>2. \A e \in Entities : ever[e] \subseteq ever'[e]
    BY CommitEffect
  <1>3. rows' \in [Entities -> Row \cup {NoRow}]
    BY <1>1, CommitEffect
  <1>4. ASSUME NEW e \in Entities
        PROVE  ever'[e] \in SUBSET Targets
    <2>1. rows'[e] \in Row \cup {NoRow} /\ ever[e] \subseteq Targets
      BY CommitEffect DEF HistoryInv, TypeOK
    <2>2. TargetOf(rows'[e]) \subseteq Targets
      BY <2>1 DEF TargetOf, Row
    <2>3. QED
      BY <2>1, <2>2, CommitEffect
  <1>5. ever' \in [Entities -> SUBSET Targets]
    BY <1>1, <1>4
  <1>6. TypeOK'
    BY <1>1, <1>3, <1>5 DEF HistoryInv, TypeOK
  <1>7. KnownInHistory'
    <2>1. ASSUME NEW e \in Entities, Known(e)'
          PROVE  rows'[e].target \in ever'[e]
      <3>1. TargetOf(rows'[e]) = {rows'[e].target}
        BY <2>1 DEF Known, TargetOf
      <3>2. QED
        BY <3>1, CommitEffect
    <2>2. QED
      BY <2>1 DEF KnownInHistory
  <1>8. RowsSound'
    <2>1. ASSUME NEW e \in Entities, rows'[e] # NoRow
          PROVE  Sound(e, rows[e])'
      <3>1. PICK row : row = rows'[e]
        OBVIOUS
      <3>2. Sound(e, row)
        BY <2>1, <3>1, CommitEffect
      <3>3. QED
        BY <1>2, <3>1, <3>2, SoundStays DEF Sound
    <2>2. QED
      BY <2>1 DEF RowsSound
  <1>9. ASSUME NEW t \in Sessions, Writing(t)'
        PROVE  Writing(t) /\ call'[t] = call[t]
    BY <1>1, <1>9 DEF HistoryInv, TypeOK, Writing, Idle
  <1>10. CallsSound'
    <2>1. ASSUME NEW t \in Sessions, Writing(t)', NEW e \in Batch(call'[t])
          PROVE  Sound(e, call[t].new[e])'
      <3>1. PICK row : row = call'[t].new[e]
        OBVIOUS
      <3>2. e \in Entities
        BY DEF Batch
      <3>3. e \in Batch(call[t]) /\ Writing(t) /\ row = call[t].new[e]
        BY <1>9, <2>1, <3>1
      <3>4. Sound(e, row)
        BY <3>3 DEF HistoryInv, CallsSound
      <3>5. QED
        BY <1>2, <3>1, <3>2, <3>4, SoundStays DEF Sound
    <2>2. QED
      BY <2>1 DEF CallsSound, Batch
  <1>11. SeenStays'
    BY <1>9, CommitEffect DEF HistoryInv, SeenStays
  <1>12. QED
    BY <1>6, <1>7, <1>8, <1>10, <1>11 DEF HistoryInv

LEMMA FailStep ==
  ASSUME HistoryInv, NEW s \in Sessions, FailCall(s)
  PROVE  HistoryInv'
  <1>1. rows' = rows /\ ever' = ever /\ call' = [call EXCEPT ![s] = Idle]
    BY DEF FailCall
  <1>2. ASSUME NEW t \in Sessions, Writing(t)'
        PROVE  Writing(t) /\ call'[t] = call[t]
    BY <1>1, <1>2 DEF HistoryInv, TypeOK, Writing, Idle
  <1>3. TypeOK'
    BY <1>1 DEF HistoryInv, TypeOK
  <1>4. KnownInHistory' /\ RowsSound'
    BY <1>1 DEF HistoryInv, KnownInHistory, Known, RowsSound, Sound, BoundSet
  <1>5. CallsSound' /\ SeenStays'
    BY <1>1, <1>2 DEF HistoryInv, CallsSound, SeenStays, Sound, BoundSet, Batch
  <1>6. QED
    BY <1>3, <1>4, <1>5 DEF HistoryInv

LEMMA OfKindsType ==
  ASSUME NEW kinds
  PROVE  OfKinds(kinds) = {e \in Entities : KindOf[e] \in kinds}
  BY DEF OfKinds, OfKind

LEMMA HistoryStep == HistoryInv /\ [Next]_vars => HistoryInv'
  <1> SUFFICES ASSUME HistoryInv, [Next]_vars
               PROVE  HistoryInv'
    OBVIOUS
  <1>1. ASSUME NEW s \in Sessions, Step(s)
        PROVE  HistoryInv'
    <2>1. CASE \E kinds \in CallKinds :
                 \E batch \in (SUBSET OfKinds(kinds)) \ {{}} : BeginCall(s, batch)
      BY <2>1, BeginStep, OfKindsType
    <2>2. CASE CommitCall(s)
      BY <2>2, CommitStep
    <2>3. CASE FailCall(s)
      BY <2>3, FailStep
    <2>4. QED
      BY <1>1, <2>1, <2>2, <2>3 DEF Step
  <1>2. CASE UNCHANGED vars
    BY <1>2 DEF vars, HistoryInv, TypeOK, KnownInHistory, Known, RowsSound,
                CallsSound, SeenStays, Sound, BoundSet, Writing, Batch
  <1>3. QED
    BY <1>1, <1>2 DEF Next
-----------------------------------------------------------------------------
(* The theorems *)

\* Committed rows and rows about to be committed hold only what the parents and
\* references have had.
THEOREM HistoryCorrect == Spec => []HistoryInv
  BY HistoryInit, HistoryStep, PTL DEF Spec

\* The rows and the calls keep their types.
THEOREM TypeCorrect == Spec => []TypeOK
  <1>1. HistoryInv => TypeOK
    BY DEF HistoryInv
  <1>2. QED
    BY <1>1, HistoryCorrect, PTL

\* Whatever the database does with late writers, a link in a row is a target the
\* parent of the entity has had.
THEOREM LinksAreTargets == Spec => []LinksWereTargets
  <1>1. HistoryInv => LinksWereTargets
    BY DEF HistoryInv, RowsSound, Sound, LinksWereTargets
  <1>2. QED
    BY <1>1, HistoryCorrect, PTL

\* Whatever the database does with late writers, entities get their first target
\* in the order of their references.
THEOREM DependenciesFirst == Spec => BindsInOrder
  <1>1. Init => Order!Init
    BY DEF Init, Order!Init
  <1>2. HistoryInv /\ [Next]_vars => [Order!Next]_BoundSet
    <2> SUFFICES ASSUME HistoryInv, [Next]_vars
                 PROVE  [Order!Next]_BoundSet
      OBVIOUS
    <2>1. CASE ever' = ever
      BY <2>1 DEF BoundSet
    <2>2. ASSUME NEW s \in Sessions, CommitCall(s)
          PROVE  Order!Next
      <3> DEFINE batch == {e \in Entities : TargetOf(rows'[e]) # {}}
      <3>1. BoundSet' = BoundSet \cup batch
        BY <2>2, CommitEffect DEF BoundSet
      <3>2. ASSUME NEW e \in batch
            PROVE  Refs[e] \subseteq BoundSet
        <4>1. rows'[e] # NoRow /\ rows'[e].target # None
          BY DEF TargetOf
        <4>2. Sound(e, rows'[e])
          BY <2>2, <4>1, CommitEffect
        <4>3. QED
          BY <4>1, <4>2 DEF Sound
      <3>3. batch \in SUBSET Entities
        OBVIOUS
      <3> HIDE DEF batch
      <3>4. \E b \in SUBSET Entities :
              (\A e \in b : Refs[e] \subseteq BoundSet)
                /\ BoundSet' = BoundSet \cup b
        BY <3>1, <3>2, <3>3
      <3>5. QED
        BY <3>4 DEF Order!Next, Order!Bind, BoundSet
    <2>3. QED
      BY <2>1, <2>2 DEF Next, Step, BeginCall, FailCall, vars
  <1>3. QED
    BY <1>1, <1>2, HistoryCorrect, PTL DEF Spec, BindsInOrder, Order!Spec, BoundSet
-----------------------------------------------------------------------------
(* Rows over a database that aborts conflicting writers.  What a call writes *)
(* is then all its own, so a row is as whole as the decision.                *)

Whole(e, row) ==
  /\ row.status = "resolved" <=> row.target # None
  /\ (row.status = "resolved" /\ ParentOf[e] # None) => row.link # None

CallsWhole ==
  \A s \in Sessions : Writing(s) =>
    \A e \in Batch(call[s]) : Whole(e, call[s].new[e])

WholeInv == HistoryInv /\ RowsAreWhole /\ CallsWhole

LEMMA DecisionsWhole ==
  ASSUME TypeOK, KnownInHistory, NEW e \in Entities, NEW row \in Decisions(e)
  PROVE  Whole(e, row)
  <1>1. CASE row \in Unsettled
    BY <1>1 DEF Unsettled, Whole
  <1>2. CASE row = Blocked(e)
    BY <1>2, BlockedType DEF Whole
  <1>3. CASE row \in Bound(e)
    <2>1. /\ row.status = "resolved" /\ row.target \in Targets
          /\ row.link = ParentTarget(e)
      BY <1>3, BoundType
    <2>2. ASSUME ParentOf[e] # None
          PROVE  row.link # None
      <3>1. ParentOf[e] \in Refs[e]
        BY <2>2, ParentType
      <3>2. KindOf[e] \notin {"users", "crm_custom_fields"}
        BY <3>1, NoReferences
      <3>3. Known(ParentOf[e])
        BY <2>1, <3>1, <3>2, BlockedType DEF Decisions, AllKnown
      <3>4. QED
        BY <2>1, <2>2, <3>3 DEF ParentTarget, Known
    <2>3. QED
      BY <2>1, <2>2, DataAssumption DEF Whole
  <1>4. QED
    BY <1>1, <1>2, <1>3 DEF Decisions

LEMMA WholeStep ==
  ASSUME ConflictAborts, WholeInv, [Next]_vars
  PROVE  WholeInv'
  <1>1. HistoryInv' /\ HistoryInv
    BY HistoryStep DEF WholeInv
  <1>2. ASSUME NEW s \in Sessions, NEW batch \in SUBSET Entities,
               BeginCall(s, batch)
        PROVE  RowsAreWhole' /\ CallsWhole'
    <2>1. PICK new \in [batch -> UNION {Decisions(e) : e \in batch}] :
            /\ \A e \in batch : new[e] \in Decisions(e)
            /\ call' = [call EXCEPT
                          ![s] = [step |-> "write",
                                  seen |-> [e \in Entities |->
                                              IF e \in batch THEN rows[e] ELSE NoRow],
                                  new  |-> [e \in Entities |->
                                              IF e \in batch THEN new[e] ELSE NoRow]]]
      BY <1>2 DEF BeginCall
    <2>2. /\ \A e \in Batch(call'[s]) : e \in batch /\ call'[s].new[e] = new[e]
          /\ \A t \in Sessions \ {s} : call'[t] = call[t]
      BY <1>1, <2>1 DEF HistoryInv, TypeOK, Batch
    <2>3. \A e \in batch : Whole(e, new[e])
      BY <1>1, <2>1, DecisionsWhole DEF HistoryInv
    <2>4. ASSUME NEW t \in Sessions, Writing(t)', NEW e \in Batch(call'[t])
          PROVE  Whole(e, call'[t].new[e])
      <3>1. CASE t = s
        BY <2>2, <2>3, <2>4, <3>1
      <3>2. CASE t # s
        BY <2>2, <2>4, <3>2 DEF WholeInv, CallsWhole, Writing
      <3>3. QED
        BY <3>1, <3>2
    <2>5. RowsAreWhole'
      BY <1>2 DEF BeginCall, WholeInv, RowsAreWhole
    <2>6. QED
      BY <2>4, <2>5 DEF CallsWhole, Whole, Batch
  <1>3. ASSUME NEW s \in Sessions, CommitCall(s)
        PROVE  RowsAreWhole'
    <2>1. ASSUME NEW e \in Entities, rows'[e] # NoRow
          PROVE  Whole(e, rows'[e])
      <3>1. CASE e \in Batch(call[s])
        <4>1. /\ rows'[e] = Upsert(rows[e], call[s].seen[e], call[s].new[e])
              /\ rows[e] = call[s].seen[e]
              /\ Writing(s)
          BY <1>1, <1>3, <3>1, CommitEffect
             DEF CommitCall, RowAfter, MayWrite, Writing
        <4>2. call[s].new[e] \in Row
          BY <1>1, <3>1, <4>1, CallType DEF HistoryInv, Batch, WriteCall
        <4>3. rows[e] \in Row \cup {NoRow}
          BY <1>1 DEF HistoryInv, TypeOK
        <4>4. rows'[e] = call[s].new[e]
          BY <4>1, <4>2, <4>3 DEF Upsert, Row
        <4>5. QED
          BY <3>1, <4>1, <4>4 DEF WholeInv, CallsWhole
      <3>2. CASE e \notin Batch(call[s])
        <4>1. rows'[e] = rows[e]
          BY <1>1, <1>3, <3>2, CommitEffect DEF RowAfter
        <4>2. QED
          BY <2>1, <4>1 DEF WholeInv, RowsAreWhole, Whole
      <3>3. QED
        BY <3>1, <3>2
    <2>2. QED
      BY <2>1 DEF RowsAreWhole, Whole
  <1>4. ASSUME NEW s \in Sessions, call' = [call EXCEPT ![s] = Idle]
        PROVE  CallsWhole'
    <2>1. ASSUME NEW t \in Sessions, Writing(t)'
          PROVE  Writing(t) /\ call'[t] = call[t]
      BY <1>1, <1>4, <2>1 DEF HistoryInv, TypeOK, Writing, Idle
    <2>2. QED
      BY <2>1 DEF WholeInv, CallsWhole, Whole, Batch
  <1>5. ASSUME NEW s \in Sessions, Step(s)
        PROVE  RowsAreWhole' /\ CallsWhole'
    <2>1. CASE \E kinds \in CallKinds :
                 \E batch \in (SUBSET OfKinds(kinds)) \ {{}} : BeginCall(s, batch)
      BY <1>2, <2>1, OfKindsType
    <2>2. CASE CommitCall(s)
      BY <1>3, <1>4, <2>2 DEF CommitCall
    <2>3. CASE FailCall(s)
      BY <1>4, <2>3 DEF FailCall, WholeInv, RowsAreWhole
    <2>4. QED
      BY <1>5, <2>1, <2>2, <2>3 DEF Step
  <1>6. ASSUME UNCHANGED vars
        PROVE  RowsAreWhole' /\ CallsWhole'
    BY <1>6 DEF vars, WholeInv, RowsAreWhole, CallsWhole, Whole, Writing, Batch
  <1>7. RowsAreWhole' /\ CallsWhole'
    BY <1>5, <1>6 DEF Next
  <1>8. QED
    BY <1>1, <1>7 DEF WholeInv

\* Over a database that aborts conflicting writers every row is what one call
\* decided, so verify:relations has nothing to report about the data plane.
THEOREM RowsStayWhole == ASSUME ConflictAborts PROVE Spec => []RowsAreWhole
  <1>1. Init => WholeInv
    BY HistoryInit DEF Init, WholeInv, RowsAreWhole, CallsWhole, Writing, Idle
  <1>2. WholeInv /\ [Next]_vars => WholeInv'
    BY WholeStep
  <1>3. WholeInv => RowsAreWhole
    BY DEF WholeInv
  <1>4. QED
    BY <1>1, <1>2, <1>3, PTL DEF Spec
-----------------------------------------------------------------------------
(* GraphRun: the graph *)

\* Every kind of row is written in one step.
LEMMA KindHasStep ==
  ASSUME NEW k \in Kinds
  PROVE  /\ \E step \in GraphSteps : k \in StepKinds[step]
         /\ \A step1, step2 \in GraphSteps :
              (k \in StepKinds[step1] /\ k \in StepKinds[step2]) => step1 = step2
  BY DEF Kinds, RefKinds, GraphSteps, StepKinds

LEMMA StepOfEntity ==
  ASSUME NEW e \in Entities
  PROVE  /\ StepOf(e) \in GraphSteps
         /\ KindOf[e] \in StepKinds[StepOf(e)]
         /\ \A step \in GraphSteps : KindOf[e] \in StepKinds[step] => step = StepOf(e)
  <1>1. KindOf[e] \in Kinds
    BY DataAssumption
  <1>2. \E step \in GraphSteps : KindOf[e] \in StepKinds[step]
    BY <1>1, KindHasStep
  <1>3. StepOf(e) \in GraphSteps /\ KindOf[e] \in StepKinds[StepOf(e)]
    BY <1>2 DEF StepOf
  <1>4. QED
    BY <1>1, <1>3, KindHasStep

\* Steps are finished after the steps they depend on.
FinishedClosed == \A step \in finished : Dependencies[step] \subseteq finished

\* The steps a call of this step may count on: what it checks is written in them.
LEMMA CheckedKindsFinished ==
  ASSUME FinishedClosed, NEW step \in GraphSteps, Dependencies[step] \subseteq finished,
         NEW k \in StepKinds[step], NEW l \in RefKinds[k]
  PROVE  \E before \in finished \cap GraphSteps : l \in StepKinds[before]
  BY DEF FinishedClosed, GraphSteps, StepKinds, Dependencies, RefKinds

Ready(e) == Dependencies[StepOf(e)] \subseteq finished

LEMMA RefsFinished ==
  ASSUME FinishedClosed, NEW e \in Entities, Ready(e), NEW f \in Refs[e]
  PROVE  f \in Entities /\ StepOf(f) \in finished
  <1>1. f \in Entities /\ KindOf[f] \in RefKinds[KindOf[e]]
    BY DataAssumption
  <1>2. PICK before \in finished \cap GraphSteps : KindOf[f] \in StepKinds[before]
    BY <1>1, StepOfEntity, CheckedKindsFinished DEF Ready
  <1>3. before = StepOf(f)
    BY <1>1, <1>2, StepOfEntity
  <1>4. QED
    BY <1>1, <1>2, <1>3
-----------------------------------------------------------------------------
(* Decisions *)

\* Users and custom fields are settled on their own; no row of theirs has a
\* parent.
Own(e) == KindOf[e] \in {"users", "crm_custom_fields"}

\* The row is one that the references of the entity lead to, as they are now.
Decided(e, row) == ~Own(e) => row \in Decisions(e)

\* A decision depends on nothing but the rows of the references.
LEMMA DecisionsStay ==
  ASSUME NEW e \in Entities, \A f \in Refs[e] : rows'[f] = rows[f]
  PROVE  Decisions(e)' = Decisions(e)
  <1>1. \A f \in Refs[e] : Known(f)' <=> Known(f)
    BY DEF Known
  <1>2. ParentTarget(e)' = ParentTarget(e)
    <2>1. CASE ParentOf[e] = None
      BY <2>1 DEF ParentTarget
    <2>2. CASE ParentOf[e] # None
      BY <1>1, <2>2, ParentType DEF ParentTarget
    <2>3. QED
      BY <2>1, <2>2
  <1>3. Bound(e)' = Bound(e) /\ Blocked(e)' = Blocked(e)
    BY <1>2 DEF Bound, Blocked
  <1>4. QED
    BY <1>1, <1>3 DEF Decisions, AllKnown, Complete, Unsettled

\* The columns of two decisions on the same references make a decision: the two
\* are equal but for the target.
LEMMA DecisionsMix ==
  ASSUME NEW e \in Entities, ~Own(e),
         NEW row \in Decisions(e), NEW new \in Decisions(e), NEW seen
  PROVE  Upsert(row, seen, new) \in Decisions(e)
  <1>1. CASE seen = NoRow
    BY <1>1 DEF Upsert
  <1>2. CASE seen # NoRow /\ AllKnown(e)
    <2>1. Decisions(e) = Bound(e)
      BY <1>2 DEF Decisions, Own
    <2>2. PICK t \in TargetsOf[e] :
            row = [status |-> "resolved", target |-> t, link |-> ParentTarget(e)]
      BY <2>1 DEF Bound
    <2>3. PICK u \in TargetsOf[e] :
            new = [status |-> "resolved", target |-> u, link |-> ParentTarget(e)]
      BY <2>1 DEF Bound
    <2>4. Upsert(row, seen, new) \in
            {[status |-> "resolved", target |-> v, link |-> ParentTarget(e)] :
               v \in TargetsOf[e]}
      BY <1>2, <2>2, <2>3 DEF Upsert
    <2>5. QED
      BY <2>1, <2>4 DEF Bound
  <1>3. CASE seen # NoRow /\ ~AllKnown(e)
    <2>1. row = Blocked(e) /\ new = Blocked(e)
      BY <1>3 DEF Decisions, Own
    <2>2. Upsert(row, seen, new) = Blocked(e)
      BY <1>3, <2>1 DEF Upsert, Blocked
    <2>3. QED
      BY <2>1, <2>2
  <1>4. QED
    BY <1>1, <1>2, <1>3

\* An update of the row that was read writes every column.
LEMMA UpsertSeen ==
  ASSUME NEW row \in Row \cup {NoRow}, NEW new \in Row
  PROVE  Upsert(row, row, new) = new
  BY DEF Upsert, Row
-----------------------------------------------------------------------------
(* The inductive invariant *)

CoveredDecided == \A e \in covered : Ready(e) /\ Decided(e, rows[e])

FinishedCovered == \A e \in Entities : StepOf(e) \in finished => e \in covered

\* What a call in flight holds: a step that is not finished, decisions that are
\* still right, and, unless another call went through the entity in this round,
\* the row as it is.
CallsCurrent ==
  \A s \in Sessions : Writing(s) =>
    \A e \in Batch(call[s]) :
      /\ StepOf(e) \notin finished /\ Ready(e)
      /\ Decided(e, call[s].new[e])
      /\ e \notin covered => call[s].seen[e] = rows[e]

GraphInv ==
  /\ HistoryInv
  /\ finished \subseteq GraphSteps
  /\ covered \subseteq Entities
  /\ FinishedClosed
  /\ CoveredDecided
  /\ FinishedCovered
  /\ CallsCurrent

LEMMA GraphInvInit == GraphInit => GraphInv
  BY HistoryInit
     DEF GraphInit, Init, GraphInv, FinishedClosed, CoveredDecided, FinishedCovered,
         CallsCurrent, Writing, Idle

\* The steps of the graph are steps of the data plane.
LEMMA PlaneStep == [GraphNext]_graphVars => [Next]_vars
  <1> SUFFICES ASSUME [GraphNext]_graphVars PROVE [Next]_vars
    OBVIOUS
  <1>1. ASSUME NEW s \in Sessions, GraphBegin(s) PROVE Next
    <2>1. PICK kinds \in CallKinds :
            \E batch \in (SUBSET (OfKinds(kinds) \ covered)) \ {{}} :
              BeginCall(s, batch)
      BY <1>1 DEF GraphBegin
    <2>2. \E batch \in (SUBSET OfKinds(kinds)) \ {{}} : BeginCall(s, batch)
      BY <2>1
    <2>3. QED
      BY <2>2 DEF Next, Step
  <1>2. ASSUME NEW s \in Sessions, GraphCommit(s) PROVE Next
    BY <1>2 DEF GraphCommit, Next, Step
  <1>3. ASSUME NEW s \in Sessions, GraphFail(s) PROVE Next
    BY <1>3 DEF GraphFail, Next, Step
  <1>4. CASE \/ \E step \in GraphSteps : FinishStep(step)
             \/ NextRound
             \/ UNCHANGED graphVars
    BY <1>4 DEF FinishStep, NextRound, graphVars, vars
  <1>5. QED
    BY <1>1, <1>2, <1>3, <1>4 DEF GraphNext

LEMMA GraphBeginStep ==
  ASSUME GraphInv, NEW s \in Sessions, GraphBegin(s)
  PROVE  CoveredDecided' /\ CallsCurrent'
  <1>a. PICK step \in GraphSteps :
          \E kinds \in SUBSET StepKinds[step] :
            \E batch \in (SUBSET (OfKinds(kinds) \ covered)) \ {{}} :
              Workable(step) /\ BeginCall(s, batch)
    BY DEF GraphBegin
  <1>b. PICK kinds \in SUBSET StepKinds[step] :
          \E batch \in (SUBSET (OfKinds(kinds) \ covered)) \ {{}} :
            Workable(step) /\ BeginCall(s, batch)
    BY <1>a
  <1>1. PICK batch \in (SUBSET (OfKinds(kinds) \ covered)) \ {{}} :
          Workable(step) /\ BeginCall(s, batch)
    BY <1>b
  <1>2. UNCHANGED <<rows, finished, covered>>
    BY <1>1 DEF GraphBegin, BeginCall
  <1>3. PICK new \in [batch -> UNION {Decisions(e) : e \in batch}] :
          /\ \A e \in batch : new[e] \in Decisions(e)
          /\ call' = [call EXCEPT
                        ![s] = [step |-> "write",
                                seen |-> [e \in Entities |->
                                            IF e \in batch THEN rows[e] ELSE NoRow],
                                new  |-> [e \in Entities |->
                                            IF e \in batch THEN new[e] ELSE NoRow]]]
    BY <1>1 DEF BeginCall
  <1>4. /\ \A t \in Sessions \ {s} : call'[t] = call[t]
        /\ call'[s].seen = [e \in Entities |->
                              IF e \in batch THEN rows[e] ELSE NoRow]
        /\ call'[s].new = [e \in Entities |->
                             IF e \in batch THEN new[e] ELSE NoRow]
    BY <1>3 DEF GraphInv, HistoryInv, TypeOK
  <1>5. \A e \in Entities : Decisions(e)' = Decisions(e)
    BY <1>2, DecisionsStay
  <1>6. CoveredDecided'
    BY <1>2, <1>5 DEF GraphInv, CoveredDecided, Ready, Decided
  <1>7. ASSUME NEW t \in Sessions, Writing(t)', NEW e \in Batch(call'[t])
        PROVE  /\ StepOf(e) \notin finished /\ Ready(e)
               /\ Decided(e, call'[t].new[e])
               /\ e \notin covered => call'[t].seen[e] = rows[e]
    <2>1. CASE t = s
      <3>1. e \in batch /\ e \in Entities
        BY <1>4, <1>7, <2>1 DEF Batch
      <3>2. KindOf[e] \in StepKinds[step]
        BY <3>1, OfKindsType
      <3>3. StepOf(e) = step
        BY <3>1, <3>2, StepOfEntity
      <3>4. StepOf(e) \notin finished /\ Ready(e)
        BY <1>1, <3>3 DEF Workable, Ready
      <3>5. call'[t].new[e] = new[e] /\ call'[t].seen[e] = rows[e]
        BY <1>4, <2>1, <3>1
      <3>6. QED
        BY <1>3, <3>1, <3>4, <3>5 DEF Decided
    <2>2. CASE t # s
      BY <1>4, <1>7, <2>2 DEF GraphInv, CallsCurrent, Writing
    <2>3. QED
      BY <2>1, <2>2
  <1>8. CallsCurrent'
    <2> SUFFICES ASSUME NEW t \in Sessions, Writing(t)', NEW e \in Batch(call'[t])
                 PROVE  /\ StepOf(e) \notin finished' /\ Ready(e)'
                        /\ ~Own(e) => call'[t].new[e] \in Decisions(e)'
                        /\ e \notin covered' => call'[t].seen[e] = rows'[e]
      BY DEF CallsCurrent, Decided, Own, Batch
    <2>1. e \in Entities
      BY DEF Batch
    <2>2. QED
      BY <1>2, <1>5, <1>7, <2>1 DEF Ready, Decided
  <1>9. QED
    BY <1>6, <1>8

LEMMA GraphCommitStep ==
  ASSUME GraphInv, NEW s \in Sessions, GraphCommit(s)
  PROVE  CoveredDecided' /\ FinishedCovered' /\ CallsCurrent'
  <1> DEFINE c == call[s]
  <1>1. /\ Writing(s) /\ HistoryInv /\ TypeOK
        /\ CommitCall(s)
        /\ call' = [call EXCEPT ![s] = Idle]
        /\ covered' = covered \cup Batch(c)
        /\ finished' = finished
    BY DEF GraphCommit, CommitCall, Writing, GraphInv, HistoryInv
  <1>2. \A e \in Entities : rows'[e] = RowAfter(c, e)
    BY <1>1, CommitEffect
  <1>3. Batch(c) \subseteq Entities
    BY DEF Batch
  <1>4. \A e \in Entities : StepOf(e) \in finished => rows'[e] = rows[e]
    BY <1>1, <1>2 DEF GraphInv, CallsCurrent, RowAfter
  <1>5. ASSUME NEW e \in Entities, Ready(e)
        PROVE  Decisions(e)' = Decisions(e)
    <2>1. \A f \in Refs[e] : rows'[f] = rows[f]
      BY <1>4, <1>5, RefsFinished DEF GraphInv
    <2>2. QED
      BY <2>1, DecisionsStay
  <1>6. ASSUME NEW e \in Batch(c)
        PROVE  Ready(e) /\ Decided(e, rows'[e])
    <2>1. /\ e \in Entities /\ Ready(e) /\ Decided(e, c.new[e])
          /\ e \notin covered => c.seen[e] = rows[e]
      BY <1>1, <1>3, <1>6 DEF GraphInv, CallsCurrent
    <2>2. rows'[e] = Upsert(rows[e], c.seen[e], c.new[e])
      BY <1>2, <1>6, <2>1 DEF RowAfter
    <2>3. CASE e \notin covered
      <3>1. rows[e] \in Row \cup {NoRow} /\ c.new[e] \in Row
        BY <1>1, <1>6, <2>1, CallType DEF TypeOK, WriteCall, Batch
      <3>2. rows'[e] = c.new[e]
        BY <2>1, <2>2, <2>3, <3>1, UpsertSeen
      <3>3. QED
        BY <2>1, <3>2
    <2>4. CASE e \in covered
      <3>1. Decided(e, rows[e])
        BY <2>4 DEF GraphInv, CoveredDecided
      <3>2. QED
        BY <2>1, <2>2, <3>1, DecisionsMix DEF Decided
    <2>5. QED
      BY <2>1, <2>3, <2>4
  <1>7. ASSUME NEW e \in covered'
        PROVE  e \in Entities /\ Ready(e) /\ Decided(e, rows'[e])
    <2>1. CASE e \in Batch(c)
      BY <1>3, <1>6, <2>1
    <2>2. CASE e \notin Batch(c)
      <3>1. e \in covered /\ e \in Entities
        BY <1>1, <1>7, <2>2 DEF GraphInv
      <3>2. rows'[e] = rows[e]
        BY <1>2, <2>2, <3>1 DEF RowAfter
      <3>3. QED
        BY <3>1, <3>2 DEF GraphInv, CoveredDecided
    <2>3. QED
      BY <2>1, <2>2
  <1>8. CoveredDecided'
    <2> SUFFICES ASSUME NEW e \in covered'
                 PROVE  Ready(e)' /\ (~Own(e) => rows'[e] \in Decisions(e)')
      BY DEF CoveredDecided, Decided, Own
    <2>1. QED
      BY <1>1, <1>5, <1>7 DEF Ready, Decided
  <1>9. FinishedCovered'
    BY <1>1 DEF GraphInv, FinishedCovered
  <1>10. CallsCurrent'
    <2> SUFFICES ASSUME NEW t \in Sessions, Writing(t)', NEW e \in Batch(call'[t])
                 PROVE  /\ StepOf(e) \notin finished' /\ Ready(e)'
                        /\ ~Own(e) => call'[t].new[e] \in Decisions(e)'
                        /\ e \notin covered' => call'[t].seen[e] = rows'[e]
      BY DEF CallsCurrent, Decided, Own, Batch
    <2>1. t # s /\ call'[t] = call[t] /\ Writing(t)
      BY <1>1 DEF TypeOK, Writing, Idle
    <2>2. e \in Entities /\ e \in Batch(call[t])
      BY <2>1 DEF Batch
    <2>3. /\ StepOf(e) \notin finished /\ Ready(e)
          /\ Decided(e, call[t].new[e])
          /\ e \notin covered => call[t].seen[e] = rows[e]
      BY <2>1, <2>2 DEF GraphInv, CallsCurrent
    <2>4. e \notin covered' => rows'[e] = rows[e]
      BY <1>1, <1>2, <2>2 DEF RowAfter
    <2>5. QED
      BY <1>1, <1>5, <2>1, <2>2, <2>3, <2>4 DEF Ready, Decided
  <1>11. QED
    BY <1>8, <1>9, <1>10

LEMMA GraphFailStep ==
  ASSUME GraphInv, NEW s \in Sessions, GraphFail(s)
  PROVE  CoveredDecided' /\ CallsCurrent'
  <1>1. /\ UNCHANGED <<rows, finished, covered>>
        /\ call' = [call EXCEPT ![s] = Idle]
    BY DEF GraphFail, FailCall
  <1>2. \A e \in Entities : Decisions(e)' = Decisions(e)
    BY <1>1, DecisionsStay
  <1>3. CoveredDecided'
    BY <1>1, <1>2 DEF GraphInv, CoveredDecided, Ready, Decided, Own
  <1>4. CallsCurrent'
    <2> SUFFICES ASSUME NEW t \in Sessions, Writing(t)', NEW e \in Batch(call'[t])
                 PROVE  /\ StepOf(e) \notin finished' /\ Ready(e)'
                        /\ ~Own(e) => call'[t].new[e] \in Decisions(e)'
                        /\ e \notin covered' => call'[t].seen[e] = rows'[e]
      BY DEF CallsCurrent, Decided, Own, Batch
    <2>1. call'[t] = call[t] /\ Writing(t)
      BY <1>1 DEF GraphInv, HistoryInv, TypeOK, Writing, Idle
    <2>2. e \in Entities /\ e \in Batch(call[t])
      BY <2>1 DEF Batch
    <2>3. QED
      BY <1>1, <1>2, <2>1, <2>2 DEF GraphInv, CallsCurrent, Ready, Decided
  <1>5. QED
    BY <1>3, <1>4

\* A step is finished when no call of it is under way and all of it is covered.
LEMMA FinishStepStep ==
  ASSUME GraphInv, NEW step \in GraphSteps, FinishStep(step)
  PROVE  FinishedClosed' /\ CoveredDecided' /\ FinishedCovered' /\ CallsCurrent'
  <1>1. /\ UNCHANGED <<rows, call, covered>>
        /\ finished' = finished \cup {step}
        /\ Dependencies[step] \subseteq finished
        /\ OfStep(step) \subseteq covered
        /\ \A s \in Sessions : call[s] # Idle => Batch(call[s]) \cap OfStep(step) = {}
    BY DEF FinishStep, Workable
  <1>2. FinishedClosed'
    BY <1>1 DEF GraphInv, FinishedClosed
  <1>3. \A e \in Entities : Decisions(e)' = Decisions(e)
    BY <1>1, DecisionsStay
  <1>4. \A e : Ready(e) => Ready(e)'
    BY <1>1 DEF Ready
  <1>5. \A e \in Entities : StepOf(e) = step => e \in OfStep(step)
    BY StepOfEntity DEF OfStep
  <1>6. CoveredDecided'
    BY <1>1, <1>3, <1>4 DEF GraphInv, CoveredDecided, Decided, Own
  <1>7. FinishedCovered'
    BY <1>1, <1>5 DEF GraphInv, FinishedCovered
  <1>8. CallsCurrent'
    <2> SUFFICES ASSUME NEW t \in Sessions, Writing(t)', NEW e \in Batch(call'[t])
                 PROVE  /\ StepOf(e) \notin finished' /\ Ready(e)'
                        /\ ~Own(e) => call'[t].new[e] \in Decisions(e)'
                        /\ e \notin covered' => call'[t].seen[e] = rows'[e]
      BY DEF CallsCurrent, Decided, Own, Batch
    <2>1. /\ call'[t] = call[t] /\ Writing(t) /\ call[t] # Idle
          /\ e \in Entities /\ e \in Batch(call[t])
      BY <1>1 DEF Writing, Idle, Batch
    <2>2. StepOf(e) # step
      BY <1>1, <1>5, <2>1
    <2>3. QED
      BY <1>1, <1>3, <1>4, <2>1, <2>2 DEF GraphInv, CallsCurrent, Decided
  <1>9. QED
    BY <1>2, <1>6, <1>7, <1>8

\* A round ends when every step is finished: no call is left with anything.
LEMMA NextRoundStep ==
  ASSUME GraphInv, NextRound
  PROVE  FinishedClosed' /\ CoveredDecided' /\ FinishedCovered' /\ CallsCurrent'
  <1>1. /\ finished = GraphSteps /\ finished' = {} /\ covered' = {}
        /\ UNCHANGED <<rows, call>>
    BY DEF NextRound
  <1>2. ASSUME NEW s \in Sessions, Writing(s) PROVE Batch(call[s]) = {}
    <2> SUFFICES ASSUME NEW e \in Batch(call[s]) PROVE FALSE
      OBVIOUS
    <2>1. StepOf(e) \notin finished
      BY <1>2 DEF GraphInv, CallsCurrent
    <2>2. e \in Entities
      BY DEF Batch
    <2>3. QED
      BY <1>1, <2>1, <2>2, StepOfEntity
  <1>3. CallsCurrent'
    BY <1>1, <1>2 DEF CallsCurrent, Writing, Batch
  <1>4. QED
    BY <1>1, <1>3 DEF FinishedClosed, CoveredDecided, FinishedCovered

LEMMA GraphInvStep == GraphInv /\ [GraphNext]_graphVars => GraphInv'
  <1> SUFFICES ASSUME GraphInv, [GraphNext]_graphVars PROVE GraphInv'
    OBVIOUS
  <1>1. HistoryInv'
    BY PlaneStep, HistoryStep DEF GraphInv
  <1>2. ASSUME NEW s \in Sessions, GraphBegin(s) PROVE GraphInv'
    BY <1>1, <1>2, GraphBeginStep
       DEF GraphBegin, GraphInv, FinishedClosed, FinishedCovered
  <1>3. ASSUME NEW s \in Sessions, GraphCommit(s) PROVE GraphInv'
    <2>1. finished' = finished /\ covered' = covered \cup Batch(call[s])
      BY <1>3 DEF GraphCommit
    <2>2. Batch(call[s]) \subseteq Entities
      BY DEF Batch
    <2>3. QED
      BY <1>1, <1>3, <2>1, <2>2, GraphCommitStep DEF GraphInv, FinishedClosed
  <1>4. ASSUME NEW s \in Sessions, GraphFail(s) PROVE GraphInv'
    BY <1>1, <1>4, GraphFailStep
       DEF GraphFail, GraphInv, FinishedClosed, FinishedCovered
  <1>5. ASSUME NEW step \in GraphSteps, FinishStep(step) PROVE GraphInv'
    BY <1>1, <1>5, FinishStepStep DEF FinishStep, GraphInv
  <1>6. CASE NextRound
    BY <1>1, <1>6, NextRoundStep DEF NextRound, GraphInv
  <1>7. CASE UNCHANGED graphVars
    <2>1. \A e \in Entities : Decisions(e)' = Decisions(e)
      BY <1>7, DecisionsStay DEF graphVars
    <2>2. \A s : Batch(call[s]) \subseteq Entities
      BY DEF Batch
    <2>3. CoveredDecided'
      BY <1>7, <2>1 DEF graphVars, GraphInv, CoveredDecided, Ready, Decided, Own
    <2>4. CallsCurrent'
      BY <1>7, <2>1, <2>2
         DEF graphVars, GraphInv, CallsCurrent, Ready, Decided, Own, Writing, Batch
    <2>5. QED
      BY <1>1, <1>7, <2>3, <2>4 DEF graphVars, GraphInv, FinishedClosed, FinishedCovered
  <1>8. QED
    BY <1>2, <1>3, <1>4, <1>5, <1>6, <1>7 DEF GraphNext
-----------------------------------------------------------------------------
(* The theorems about GraphRun *)

\* Calls, failures, finished steps and new rounds keep the invariant.
THEOREM GraphInvariance == GraphSpec => []GraphInv
  BY GraphInvInit, GraphInvStep, PTL DEF GraphSpec

\* Callers who follow the graph do nothing that the data plane does not allow:
\* what is proved of it holds under them.
THEOREM GraphRunsAreRuns == GraphSpec => Spec
  <1>1. GraphInit => Init
    BY DEF GraphInit
  <1>2. QED
    BY <1>1, PlaneStep, PTL DEF GraphSpec, Spec

\* The rows, the calls and the progress through the graph keep their types.
THEOREM GraphTypeCorrect == GraphSpec => []GraphTypeOK
  <1>1. GraphInv => GraphTypeOK
    BY DEF GraphInv, HistoryInv, GraphTypeOK
  <1>2. QED
    BY <1>1, GraphInvariance, PTL

\* What a decision on rows that are all there says of the entity.
LEMMA DecidedMeans ==
  ASSUME GraphInv, NEW e \in Entities, StepOf(e) \in finished, ~Own(e)
  PROVE  /\ Known(e) <=> AllKnown(e)
         /\ Known(e) => rows[e].link = ParentTarget(e)
  <1>1. rows[e] \in Decisions(e)
    BY DEF GraphInv, FinishedCovered, CoveredDecided, Decided
  <1>2. TypeOK /\ KnownInHistory
    BY DEF GraphInv, HistoryInv
  <1>3. CASE AllKnown(e)
    <2>1. rows[e] \in Bound(e)
      BY <1>1, <1>3 DEF Decisions, Own
    <2>2. /\ rows[e] \in Row /\ rows[e].link = ParentTarget(e)
          /\ rows[e].target \in Targets /\ rows[e].status = "resolved"
      BY <1>2, <2>1, BoundType
    <2>3. Known(e)
      BY <2>2, DataAssumption DEF Known
    <2>4. QED
      BY <1>3, <2>2, <2>3
  <1>4. CASE ~AllKnown(e)
    <2>1. rows[e] = Blocked(e)
      BY <1>1, <1>4 DEF Decisions, Own
    <2>2. ~Known(e)
      BY <1>2, <2>1, BlockedType DEF Known
    <2>3. QED
      BY <1>4, <2>2
  <1>5. QED
    BY <1>3, <1>4

\* Whoever follows the graph gets decisions by the references as they are in
\* the end, for any portal, however calls overlap, fail and are repeated, and
\* whatever the database does with late writers.
THEOREM OrderDoesNotMatter == GraphSpec => []DecidedByFinalRefs
  <1>1. GraphInv => DecidedByFinalRefs
    BY DecidedMeans DEF DecidedByFinalRefs, AllKnown, Own
  <1>2. QED
    BY <1>1, GraphInvariance, PTL

\* And the links of what is bound are the targets the parents have now, also
\* where a parent got another target in a later round.
THEOREM LinksStayCurrent == GraphSpec => []LinksAreCurrent
  <1>1. ASSUME GraphInv, NEW e \in Entities, StepOf(e) \in finished, Known(e),
               ParentOf[e] # None
        PROVE  rows[e].link = rows[ParentOf[e]].target
    <2>1. ~Own(e) /\ ParentOf[e] \in Refs[e]
      BY <1>1, ParentType, NoReferences DEF Own
    <2>2. Known(ParentOf[e]) /\ rows[e].link = ParentTarget(e)
      BY <1>1, <2>1, DecidedMeans DEF AllKnown
    <2>3. QED
      BY <1>1, <2>2 DEF ParentTarget
  <1>2. GraphInv => LinksAreCurrent
    BY <1>1 DEF LinksAreCurrent
  <1>3. QED
    BY <1>2, GraphInvariance, PTL
==============================================================================
