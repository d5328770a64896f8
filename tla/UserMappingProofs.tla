-------------------------- MODULE UserMappingProofs --------------------------
(***************************************************************************)
(* Proofs about UserMapping for every number of callers, users and         *)
(* targets, about UserMatching for every set of people and texts and every *)
(* length of the list of candidates, and that the calls about users are    *)
(* calls of DataPlane (UserPlane).                                         *)
(***************************************************************************)
EXTENDS MCUserMapping, TLAPS

(* The operators *)

LEMMA CallTypes ==
  ASSUME TypeOK, NEW s \in Sessions
  PROVE  /\ call[s].step = "map" => call[s] \in MapCall
         /\ call[s].step = "review" => call[s] \in ReviewCall
         /\ call[s] # Idle => call[s] \in MapCall \cup ReviewCall
  BY DEF TypeOK, Idle, MapCall, ReviewCall

\* A decision is a row, of the status that belongs to the outcome.
LEMMA DecisionType ==
  ASSUME NEW o \in Outcomes, o # Skip
  PROVE  /\ Decision(o) \in Row
         /\ Decision(o).status = "ambiguous" <=> o = Several
  <1>1. CASE o = Nobody
    BY <1>1 DEF Decision, Nobody, Several, Unmatched, Row
  <1>2. CASE o = Several
    BY <1>2 DEF Decision, Several, Ambiguous, Row
  <1>3. ASSUME NEW t \in Targets, o = Match(t)
        PROVE  /\ Decision(o) \in Row
               /\ Decision(o).status = "ambiguous" <=> o = Several
    BY <1>3 DEF Decision, Match, Several, Matched, Row
  <1>4. QED
    BY <1>1, <1>2, <1>3 DEF Outcomes

LEMMA ReviewedType ==
  ASSUME NEW t \in Targets
  PROVE  Reviewed(t) \in Row /\ Reviewed(t).status = "resolved"
  BY DEF Reviewed, Row

\* Each column of the result is the new value or the value in the table.
LEMMA UpsertType ==
  ASSUME NEW row \in Row \cup {NoRow}, NEW seen \in Row \cup {NoRow},
         NEW new \in Row, seen # NoRow => row # NoRow
  PROVE  /\ Upsert(row, seen, new) \in Row
         /\ Upsert(row, seen, new).status =
              IF seen # NoRow /\ seen.status = new.status
              THEN row.status ELSE new.status
  <1>1. CASE seen = NoRow
    BY <1>1 DEF Upsert
  <1>2. CASE seen # NoRow
    BY <1>2 DEF Upsert, Row
  <1>3. QED
    BY <1>1, <1>2

\* A status the call did not write is one it found, in the row it read.
LEMMA StatusKept ==
  ASSUME NEW row \in Row \cup {NoRow}, NEW seen \in Row \cup {NoRow},
         NEW new \in Row, seen # NoRow => row # NoRow,
         NEW result, result = Upsert(row, seen, new),
         result.status # new.status
  PROVE  row # NoRow /\ result.status = row.status
  <1>1. result.status = IF seen # NoRow /\ seen.status = new.status
                        THEN row.status ELSE new.status
    BY UpsertType
  <1>2. QED
    BY <1>1

\* An appended item disturbs none of the items before it.
LEMMA AppendKeeps ==
  ASSUME NEW q \in Seq(BOOLEAN)
  PROVE  /\ DOMAIN q \subseteq DOMAIN Append(q, TRUE)
         /\ \A i \in DOMAIN q : Append(q, TRUE)[i] = q[i]
  <1>1. Len(q) \in Nat /\ DOMAIN q = 1 .. Len(q)
    OBVIOUS
  <1>2. DOMAIN Append(q, TRUE) = 1 .. (Len(q) + 1)
    OBVIOUS
  <1>3. \A i \in 1 .. Len(q) : Append(q, TRUE)[i] = q[i]
    OBVIOUS
  <1>4. QED
    BY <1>1, <1>2, <1>3

\* Closing items leaves a list of items, of the same length.
LEMMA CloseType ==
  ASSUME NEW q \in Seq(BOOLEAN), NEW closing
  PROVE  /\ Close(q, closing) \in Seq(BOOLEAN)
         /\ DOMAIN Close(q, closing) = DOMAIN q
  <1>1. Len(q) \in Nat /\ DOMAIN q = 1 .. Len(q)
    OBVIOUS
  <1>2. [i \in 1 .. Len(q) |-> q[i] /\ i \notin closing] \in Seq(BOOLEAN)
    BY <1>1
  <1>3. QED
    BY <1>1, <1>2 DEF Close
-----------------------------------------------------------------------------
(* Rows are never deleted: a call that read a row finds one when it commits. *)

SeenStays ==
  \A s \in Sessions :
    /\ call[s].step = "map" =>
         \A x \in Sources : call[s].seen[x] # NoRow => rows[x] # NoRow
    /\ call[s].step = "review" =>
         (call[s].seen # NoRow => rows[call[s].source] # NoRow)

TypeInv == TypeOK /\ SeenStays

LEMMA TypeInit == Init => TypeInv
  BY DEF Init, TypeInv, TypeOK, SeenStays, Idle

\* What a commit does to the calls that go on: nothing but their stale sets.
LEMMA CallsAfterType ==
  ASSUME TypeOK, NEW s \in Sessions, NEW written \in SUBSET Sources
  PROVE  /\ CallsAfter(s, written)
              \in [Sessions -> {Idle} \cup MapCall \cup ReviewCall]
         /\ CallsAfter(s, written)[s] = Idle
         /\ \A t \in Sessions \ {s} :
              LET new == CallsAfter(s, written)[t]
              IN /\ new.step = call[t].step
                 /\ call[t].step = "map" =>
                      /\ new.seen = call[t].seen
                      /\ new.batch = call[t].batch
                      /\ new.alone = call[t].alone
                 /\ call[t].step = "review" =>
                      /\ new.seen = call[t].seen
                      /\ new.source = call[t].source
                      /\ new.target = call[t].target
                      /\ new.closing = call[t].closing
  <1> DEFINE f == CallsAfter(s, written)
  <1>1. f[s] = Idle
    BY DEF CallsAfter
  <1>2. ASSUME NEW t \in Sessions \ {s}
        PROVE  /\ f[t] \in {Idle} \cup MapCall \cup ReviewCall
               /\ f[t].step = call[t].step
               /\ call[t].step = "map" =>
                    /\ f[t].seen = call[t].seen
                    /\ f[t].batch = call[t].batch
                    /\ f[t].alone = call[t].alone
               /\ call[t].step = "review" =>
                    /\ f[t].seen = call[t].seen
                    /\ f[t].source = call[t].source
                    /\ f[t].target = call[t].target
                    /\ f[t].closing = call[t].closing
    <2>1. CASE call[t] = Idle \/ ~ConflictAborts
      BY <2>1 DEF CallsAfter, TypeOK
    <2>2. CASE call[t] # Idle /\ ConflictAborts
      <3>1. f[t] = [call[t] EXCEPT !.stale = @ \cup written]
        BY <2>2 DEF CallsAfter
      <3>2. CASE call[t] \in MapCall
        BY <3>1, <3>2 DEF MapCall
      <3>3. CASE call[t] \in ReviewCall
        BY <3>1, <3>3 DEF ReviewCall
      <3>4. QED
        BY <2>2, <3>2, <3>3, CallTypes
    <2>3. QED
      BY <2>1, <2>2
  <1>3. f \in [Sessions -> {Idle} \cup MapCall \cup ReviewCall]
    BY <1>1, <1>2 DEF CallsAfter
  <1>4. QED
    BY <1>1, <1>2, <1>3

\* A commit that deletes no row leaves what the other calls read in place.
LEMMA SeenAfterCommit ==
  ASSUME TypeOK, SeenStays, NEW s \in Sessions, NEW written \in SUBSET Sources,
         call' = CallsAfter(s, written),
         \A x \in Sources : rows[x] # NoRow => rows'[x] # NoRow
  PROVE  SeenStays'
  <1> SUFFICES ASSUME NEW t \in Sessions
               PROVE  /\ call'[t].step = "map" =>
                           \A x \in Sources :
                             call'[t].seen[x] # NoRow => rows'[x] # NoRow
                      /\ call'[t].step = "review" =>
                           (call'[t].seen # NoRow
                              => rows'[call'[t].source] # NoRow)
    BY DEF SeenStays
  <1>1. CASE t = s
    BY <1>1, CallsAfterType DEF Idle
  <1>2. CASE t # s /\ call[t].step = "map"
    <2>1. call'[t].step = "map" /\ call'[t].seen = call[t].seen
      BY <1>2, CallsAfterType
    <2>2. QED
      BY <1>2, <2>1 DEF SeenStays
  <1>3. CASE t # s /\ call[t].step = "review"
    <2>1. /\ call'[t].step = "review" /\ call'[t].seen = call[t].seen
          /\ call'[t].source = call[t].source
      BY <1>3, CallsAfterType
    <2>2. call[t].source \in Sources
      BY <1>3, CallTypes DEF ReviewCall
    <2>3. QED
      BY <1>3, <2>1, <2>2 DEF SeenStays
  <1>4. CASE t # s /\ call[t].step \notin {"map", "review"}
    <2>1. call'[t].step = call[t].step
      BY <1>4, CallsAfterType
    <2>2. QED
      BY <1>4, <2>1
  <1>5. QED
    BY <1>1, <1>2, <1>3, <1>4

LEMMA WrittenType ==
  ASSUME TypeOK, NEW s \in Sessions, call[s].step = "map"
  PROVE  /\ Written(call[s]) \in SUBSET Sources
         /\ Queued(call[s]) \in SUBSET Sources
         /\ \A x \in Written(call[s]) :
              /\ call[s].batch[x] \in Outcomes /\ call[s].batch[x] # Skip
              /\ call[s].seen[x] \in Row \cup {NoRow}
  BY CallTypes DEF Written, Queued, MapCall

\* What the commit of users_map or resolve_user_mapping does to the tables.
LEMMA CommitMapEffect ==
  ASSUME TypeInv, NEW s \in Sessions, CommitMap(s)
  PROVE  LET c == call[s]
         IN /\ \A x \in Sources :
                 rows'[x] = IF x \in Written(c)
                            THEN Upsert(rows[x], c.seen[x], Decision(c.batch[x]))
                            ELSE rows[x]
            /\ \A x \in Written(c) :
                 /\ Decision(c.batch[x]) \in Row
                 /\ rows'[x] \in Row
            /\ rows' \in [Sources -> Row \cup {NoRow}]
            /\ \A x \in Sources :
                 queue'[x] = IF x \in Queued(c) THEN Append(queue[x], TRUE)
                             ELSE queue[x]
            /\ queue' \in [Sources -> Seq(BOOLEAN)]
            /\ call' = CallsAfter(s, Written(c))
  <1> DEFINE c == call[s]
  <1>1. /\ c.step = "map"
        /\ rows' = [x \in Sources |->
                      IF x \in Written(c)
                      THEN Upsert(rows[x], c.seen[x], Decision(c.batch[x]))
                      ELSE rows[x]]
        /\ queue' = [x \in Sources |->
                       IF x \in Queued(c) THEN Append(queue[x], TRUE)
                       ELSE queue[x]]
        /\ call' = CallsAfter(s, Written(c))
    BY DEF CommitMap
  <1>2. ASSUME NEW x \in Written(c)
        PROVE  /\ Decision(c.batch[x]) \in Row
               /\ Upsert(rows[x], c.seen[x], Decision(c.batch[x])) \in Row
    <2>1. /\ x \in Sources
          /\ c.batch[x] \in Outcomes /\ c.batch[x] # Skip
          /\ c.seen[x] \in Row \cup {NoRow}
      BY <1>1, <1>2, WrittenType DEF TypeInv
    <2>2. Decision(c.batch[x]) \in Row
      BY <2>1, DecisionType
    <2>3. rows[x] \in Row \cup {NoRow} /\ (c.seen[x] # NoRow => rows[x] # NoRow)
      BY <1>1, <2>1 DEF TypeInv, TypeOK, SeenStays
    <2>4. QED
      BY <2>1, <2>2, <2>3, UpsertType
  <1>3. rows' \in [Sources -> Row \cup {NoRow}]
    BY <1>1, <1>2 DEF TypeInv, TypeOK
  <1>4. \A x \in Sources : Append(queue[x], TRUE) \in Seq(BOOLEAN)
    BY DEF TypeInv, TypeOK
  <1>5. queue' \in [Sources -> Seq(BOOLEAN)]
    BY <1>1, <1>4 DEF TypeInv, TypeOK
  <1>6. \A x \in Written(c) : x \in Sources
    BY DEF Written
  <1>7. QED
    BY <1>1, <1>2, <1>3, <1>5, <1>6

\* What the commit of users_review does to the tables.
LEMMA CommitReviewEffect ==
  ASSUME TypeInv, NEW s \in Sessions, CommitReview(s)
  PROVE  LET c == call[s]
             x == c.source
         IN /\ c \in ReviewCall
            /\ rows' = [rows EXCEPT
                          ![x] = Upsert(rows[x], c.seen, Reviewed(c.target))]
            /\ rows'[x] \in Row
            /\ rows'[x].status = IF c.seen # NoRow /\ c.seen.status = "resolved"
                                 THEN rows[x].status ELSE "resolved"
            /\ queue' = [queue EXCEPT
                           ![x] = Close(queue[x], c.closing)]
            /\ queue'[x] \in Seq(BOOLEAN) /\ DOMAIN queue'[x] = DOMAIN queue[x]
            /\ call' = CallsAfter(s, {x})
  <1> DEFINE c == call[s]
             x == c.source
  <1>1. c \in ReviewCall
    BY CallTypes DEF CommitReview, TypeInv
  <1>2. /\ rows' = [rows EXCEPT
                      ![x] = Upsert(rows[x], c.seen, Reviewed(c.target))]
        /\ queue' = [queue EXCEPT
                       ![x] = Close(queue[x], c.closing)]
        /\ call' = CallsAfter(s, {x})
    BY DEF CommitReview
  <1>3. /\ x \in Sources /\ c.target \in Targets
        /\ c.seen \in Row \cup {NoRow} /\ rows[x] \in Row \cup {NoRow}
        /\ c.seen # NoRow => rows[x] # NoRow
    BY <1>1 DEF ReviewCall, TypeInv, TypeOK, SeenStays
  <1>4. /\ Upsert(rows[x], c.seen, Reviewed(c.target)) \in Row
        /\ Upsert(rows[x], c.seen, Reviewed(c.target)).status =
             IF c.seen # NoRow /\ c.seen.status = "resolved"
             THEN rows[x].status ELSE "resolved"
    <2>1. Reviewed(c.target) \in Row /\ Reviewed(c.target).status = "resolved"
      BY <1>3, ReviewedType
    <2> HIDE DEF c, x
    <2>2. QED
      BY <1>3, <2>1, UpsertType
  <1>5. rows'[x] = Upsert(rows[x], c.seen, Reviewed(c.target))
    BY <1>2, <1>3 DEF TypeInv, TypeOK
  <1>6. /\ queue'[x] = Close(queue[x], c.closing)
        /\ queue[x] \in Seq(BOOLEAN)
    BY <1>2, <1>3 DEF TypeInv, TypeOK
  <1>7. queue'[x] \in Seq(BOOLEAN) /\ DOMAIN queue'[x] = DOMAIN queue[x]
    BY <1>6, CloseType
  <1>8. QED
    BY <1>1, <1>2, <1>4, <1>5, <1>7

LEMMA BeginTypes ==
  ASSUME TypeOK, NEW s \in Sessions
  PROVE  /\ \A batch \in [Sources -> Outcomes], alone \in BOOLEAN :
              BeginMap(s, batch, alone) =>
                /\ call'[s] \in MapCall
                /\ \A x \in Sources : call'[s].seen[x] # NoRow
                                          => rows[x] # NoRow
                /\ call' = [call EXCEPT ![s] = call'[s]]
         /\ \A x \in Sources, t \in Targets :
              BeginReview(s, x, t) =>
                /\ call'[s] \in ReviewCall
                /\ call'[s].source = x /\ call'[s].seen = rows[x]
                /\ call'[s].closing = Open(x)
                /\ call' = [call EXCEPT ![s] = call'[s]]
  <1>1. ASSUME NEW batch \in [Sources -> Outcomes], NEW alone \in BOOLEAN,
               BeginMap(s, batch, alone)
        PROVE  /\ call'[s] \in MapCall
               /\ \A x \in Sources : call'[s].seen[x] # NoRow
                                         => rows[x] # NoRow
               /\ call' = [call EXCEPT ![s] = call'[s]]
    <2> DEFINE new == [step  |-> "map", batch |-> batch, alone |-> alone,
                       seen  |-> [x \in Sources |->
                                    IF batch[x] = Skip THEN NoRow ELSE rows[x]],
                       stale |-> {}]
    <2>1. call' = [call EXCEPT ![s] = new] /\ call'[s] = new
      BY <1>1 DEF BeginMap, TypeOK
    <2>2. new \in MapCall
      BY DEF MapCall, TypeOK
    <2>3. \A x \in Sources : new.seen[x] # NoRow => rows[x] # NoRow
      OBVIOUS
    <2> HIDE DEF new
    <2>4. QED
      BY <2>1, <2>2, <2>3
  <1>2. ASSUME NEW x \in Sources, NEW t \in Targets, BeginReview(s, x, t)
        PROVE  /\ call'[s] \in ReviewCall
               /\ call'[s].source = x /\ call'[s].seen = rows[x]
               /\ call'[s].closing = Open(x)
               /\ call' = [call EXCEPT ![s] = call'[s]]
    <2>1. Open(x) \in SUBSET Nat
      BY DEF Open, TypeOK
    <2>2. QED
      BY <1>2, <2>1 DEF BeginReview, ReviewCall, TypeOK
  <1>3. QED
    BY <1>1, <1>2

\* The calls that begin, as the two cases of BeginTypes.
LEMMA StepCases ==
  ASSUME NEW s \in Sessions, Step(s)
  PROVE  \/ \E batch \in [Sources -> Outcomes], alone \in BOOLEAN :
              BeginMap(s, batch, alone)
         \/ \E x \in Sources, t \in Targets : BeginReview(s, x, t)
         \/ CommitMap(s)
         \/ CommitReview(s)
         \/ FailCall(s)
  <1>1. ASSUME ResolveUser(s)
        PROVE  \E batch \in [Sources -> Outcomes], alone \in BOOLEAN :
                 BeginMap(s, batch, alone)
    <2>1. PICK x \in Sources, o \in Outcomes \ {Skip} :
            BeginMap(s, [y \in Sources |-> IF y = x THEN o ELSE Skip], TRUE)
      BY <1>1 DEF ResolveUser
    <2>2. [y \in Sources |-> IF y = x THEN o ELSE Skip] \in [Sources -> Outcomes]
      BY DEF Outcomes
    <2>3. QED
      BY <2>1, <2>2
  <1>2. QED
    BY <1>1 DEF Step, UsersMap

LEMMA TypeStep == TypeInv /\ [Next]_vars => TypeInv'
  <1> SUFFICES ASSUME TypeInv, [Next]_vars PROVE TypeOK' /\ SeenStays'
    BY DEF TypeInv
  <1>1. ASSUME NEW s \in Sessions, Step(s) PROVE TypeOK' /\ SeenStays'
    <2>1. ASSUME NEW batch \in [Sources -> Outcomes], NEW alone \in BOOLEAN,
                 BeginMap(s, batch, alone)
          PROVE  TypeOK' /\ SeenStays'
      <3>1. UNCHANGED <<rows, queue>>
        BY <2>1 DEF BeginMap
      <3>2. /\ call'[s] \in MapCall
            /\ \A x \in Sources : call'[s].seen[x] # NoRow => rows[x] # NoRow
            /\ call' = [call EXCEPT ![s] = call'[s]]
        BY <2>1, BeginTypes DEF TypeInv
      <3>3. call'[s].step = "map"
        BY <3>2 DEF MapCall
      <3>4. QED
        BY <3>1, <3>2, <3>3 DEF TypeInv, TypeOK, SeenStays
    <2>2. ASSUME NEW x \in Sources, NEW t \in Targets, BeginReview(s, x, t)
          PROVE  TypeOK' /\ SeenStays'
      <3>1. UNCHANGED <<rows, queue>>
        BY <2>2 DEF BeginReview
      <3>2. /\ call'[s] \in ReviewCall
            /\ call'[s].source = x /\ call'[s].seen = rows[x]
            /\ call' = [call EXCEPT ![s] = call'[s]]
        BY <2>2, BeginTypes DEF TypeInv
      <3>3. call'[s].step = "review"
        BY <3>2 DEF ReviewCall
      <3>4. QED
        BY <3>1, <3>2, <3>3 DEF TypeInv, TypeOK, SeenStays
    <2>3. CASE CommitMap(s)
      <3>1. /\ rows' \in [Sources -> Row \cup {NoRow}]
            /\ queue' \in [Sources -> Seq(BOOLEAN)]
            /\ call' = CallsAfter(s, Written(call[s]))
        BY <2>3, CommitMapEffect
      <3>2. \A x \in Sources : rows[x] # NoRow => rows'[x] # NoRow
        BY <2>3, CommitMapEffect, UserAssumption
      <3>3. Written(call[s]) \in SUBSET Sources
        BY <2>3, WrittenType DEF CommitMap, TypeInv
      <3>4. TypeOK'
        BY <3>1, <3>3, CallsAfterType DEF TypeInv, TypeOK
      <3>5. SeenStays'
        BY <3>1, <3>2, <3>3, SeenAfterCommit DEF TypeInv
      <3>6. QED
        BY <3>4, <3>5
    <2>4. CASE CommitReview(s)
      <3>1. /\ call[s] \in ReviewCall
            /\ rows' = [rows EXCEPT ![call[s].source] =
                          Upsert(rows[call[s].source], call[s].seen,
                                 Reviewed(call[s].target))]
            /\ rows'[call[s].source] \in Row
            /\ queue' = [queue EXCEPT ![call[s].source] =
                           Close(queue[call[s].source], call[s].closing)]
            /\ queue'[call[s].source] \in Seq(BOOLEAN)
            /\ call' = CallsAfter(s, {call[s].source})
        BY <2>4, CommitReviewEffect
      <3>2. call[s].source \in Sources
        BY <3>1 DEF ReviewCall
      <3>3. rows' \in [Sources -> Row \cup {NoRow}]
        BY <3>1, <3>2 DEF TypeInv, TypeOK
      <3>4. queue' \in [Sources -> Seq(BOOLEAN)]
        BY <3>1, <3>2 DEF TypeInv, TypeOK
      <3>5. \A x \in Sources : rows[x] # NoRow => rows'[x] # NoRow
        BY <3>1, <3>2, UserAssumption DEF TypeInv, TypeOK
      <3>6. TypeOK'
        <4>1. {call[s].source} \in SUBSET Sources
          BY <3>2
        <4>2. call' \in [Sessions -> {Idle} \cup MapCall \cup ReviewCall]
          BY <3>1, <4>1, CallsAfterType DEF TypeInv
        <4>3. QED
          BY <3>3, <3>4, <4>2 DEF TypeOK
      <3>7. SeenStays'
        BY <3>1, <3>2, <3>5, SeenAfterCommit DEF TypeInv
      <3>8. QED
        BY <3>6, <3>7
    <2>5. CASE FailCall(s)
      BY <2>5 DEF FailCall, TypeInv, TypeOK, SeenStays, Idle
    <2>6. QED
      BY <1>1, <2>1, <2>2, <2>3, <2>4, <2>5, StepCases
  <1>2. CASE UNCHANGED vars
    BY <1>2 DEF vars, TypeInv, TypeOK, SeenStays
  <1>3. QED
    BY <1>1, <1>2 DEF Next

\* Rows, queue and calls keep their types, torn rows included: each column
\* holds a value that column may have.
THEOREM TypeCorrect == Spec => []TypeOK
  <1>1. TypeInv => TypeOK
    BY DEF TypeInv
  <1>2. QED
    BY TypeInit, TypeStep, <1>1, PTL DEF Spec
-----------------------------------------------------------------------------
(* Ambiguous rows and open items, whatever the database does with conflicts *)

\* An open item of a source that no review in flight is about to close, unless
\* that review read the row as ambiguous and will so write its status.
Held(x, i) ==
  /\ i \in Open(x)
  /\ \A s \in Sessions :
       (call[s].step = "review" /\ call[s].source = x /\ i \in call[s].closing)
         => (call[s].seen # NoRow /\ call[s].seen.status = "ambiguous")

AmbiguousHeld ==
  \A x \in Sources :
    (rows[x] # NoRow /\ rows[x].status = "ambiguous") => \E i : Held(x, i)

\* A review closes items that exist.
ClosingKnown ==
  \A s \in Sessions :
    call[s].step = "review" => call[s].closing \subseteq DOMAIN queue[call[s].source]

QueueInv == TypeInv /\ ClosingKnown /\ AmbiguousHeld

LEMMA QueueInit == Init => QueueInv
  BY TypeInit, UserAssumption DEF Init, QueueInv, ClosingKnown, AmbiguousHeld, Idle

\* Items are only added and closed, so those a call read are still there.
LEMMA ClosingAfterCommit ==
  ASSUME TypeOK, ClosingKnown, NEW s \in Sessions, NEW written \in SUBSET Sources,
         call' = CallsAfter(s, written),
         \A x \in Sources : DOMAIN queue[x] \subseteq DOMAIN queue'[x]
  PROVE  ClosingKnown'
  <1> SUFFICES ASSUME NEW t \in Sessions, call'[t].step = "review"
               PROVE  call'[t].closing \subseteq DOMAIN queue'[call'[t].source]
    BY DEF ClosingKnown
  <1>1. t # s
    BY CallsAfterType DEF Idle
  <1>2. /\ call[t].step = "review"
        /\ call'[t].closing = call[t].closing
        /\ call'[t].source = call[t].source
    BY <1>1, CallsAfterType
  <1>3. call[t].source \in Sources
    BY <1>2, CallTypes DEF ReviewCall
  <1>4. QED
    BY <1>2, <1>3 DEF ClosingKnown

\* A commit keeps a held item held, if it stays open.
LEMMA HeldAfterCommit ==
  ASSUME TypeOK, NEW s \in Sessions, NEW written \in SUBSET Sources,
         call' = CallsAfter(s, written),
         NEW x \in Sources, NEW i, Held(x, i), i \in Open(x)'
  PROVE  Held(x, i)'
  <1> SUFFICES ASSUME NEW t \in Sessions,
                      call'[t].step = "review", call'[t].source = x,
                      i \in call'[t].closing
               PROVE  call'[t].seen # NoRow /\ call'[t].seen.status = "ambiguous"
    BY DEF Held
  <1>1. t # s
    BY CallsAfterType DEF Idle
  <1>2. /\ call[t].step = "review"
        /\ call'[t].closing = call[t].closing
        /\ call'[t].source = call[t].source
        /\ call'[t].seen = call[t].seen
    BY <1>1, CallsAfterType
  <1>3. QED
    BY <1>2 DEF Held

\* A new item is held: no review has read it.
LEMMA NewItemHeld ==
  ASSUME QueueInv, NEW s \in Sessions, CommitMap(s), NEW x \in Queued(call[s])
  PROVE  \E i : Held(x, i)'
  <1>1. x \in Sources
    BY DEF Queued
  <1>2. queue[x] \in Seq(BOOLEAN) /\ queue'[x] = Append(queue[x], TRUE)
    BY <1>1, CommitMapEffect DEF QueueInv, TypeInv, TypeOK
  <1> PICK n \in Nat : n = Len(queue[x]) + 1
    BY <1>2
  <1>3. n \in Open(x)'
    BY <1>2 DEF Open
  <1>4. n \notin DOMAIN queue[x]
    BY <1>2
  <1>5. call' = CallsAfter(s, Written(call[s])) /\ Written(call[s]) \in SUBSET Sources
    BY CommitMapEffect, WrittenType DEF QueueInv, TypeInv, CommitMap
  <1>6. ASSUME NEW t \in Sessions, call'[t].step = "review", call'[t].source = x
        PROVE  n \notin call'[t].closing
    <2>1. t # s
      BY <1>5, <1>6, CallsAfterType DEF Idle, QueueInv, TypeInv
    <2>2. /\ call[t].step = "review"
          /\ call'[t].closing = call[t].closing
          /\ call'[t].source = call[t].source
      BY <1>5, <1>6, <2>1, CallsAfterType DEF QueueInv, TypeInv
    <2>3. QED
      BY <1>4, <1>6, <2>2 DEF QueueInv, ClosingKnown
  <1>7. QED
    BY <1>3, <1>6 DEF Held

LEMMA HeldMapStep ==
  ASSUME QueueInv, NEW s \in Sessions, CommitMap(s)
  PROVE  ClosingKnown' /\ AmbiguousHeld'
  <1> DEFINE c == call[s]
  <1>1. /\ call' = CallsAfter(s, Written(c))
        /\ Written(c) \in SUBSET Sources
        /\ \A x \in Sources :
             queue'[x] = IF x \in Queued(c) THEN Append(queue[x], TRUE)
                         ELSE queue[x]
    BY CommitMapEffect, WrittenType DEF QueueInv, TypeInv, CommitMap
  <1>2. \A x \in Sources :
          /\ DOMAIN queue[x] \subseteq DOMAIN queue'[x]
          /\ \A i \in Open(x) : i \in Open(x)'
    <2> TAKE x \in Sources
    <2>1. queue[x] \in Seq(BOOLEAN)
      BY DEF QueueInv, TypeInv, TypeOK
    <2>2. CASE x \in Queued(c)
      <3>1. queue'[x] = Append(queue[x], TRUE)
        BY <1>1, <2>2
      <3>2. /\ DOMAIN queue[x] \subseteq DOMAIN queue'[x]
            /\ \A i \in DOMAIN queue[x] : queue'[x][i] = queue[x][i]
        BY <2>1, <3>1, AppendKeeps
      <3>3. QED
        BY <3>2 DEF Open
    <2>3. CASE x \notin Queued(c)
      <3>1. queue'[x] = queue[x]
        BY <1>1, <2>3
      <3>2. QED
        BY <3>1 DEF Open
    <2>4. QED
      BY <2>2, <2>3
  <1>3. ClosingKnown'
    BY <1>1, <1>2, ClosingAfterCommit DEF QueueInv, TypeInv
  <1>4. ASSUME NEW x \in Sources, rows'[x] # NoRow, rows'[x].status = "ambiguous"
        PROVE  \E i : Held(x, i)'
    <2>1. CASE x \in Queued(c)
      BY <2>1, NewItemHeld
    <2>2. CASE x \notin Queued(c)
      <3>1. rows[x] # NoRow /\ rows[x].status = "ambiguous"
        <4>1. CASE x \in Written(c)
          <5>1. /\ c.batch[x] \in Outcomes /\ c.batch[x] # Skip
                /\ c.seen[x] \in Row \cup {NoRow}
                /\ c.seen[x] # NoRow => rows[x] # NoRow
                /\ rows[x] \in Row \cup {NoRow}
            BY <4>1, WrittenType DEF QueueInv, TypeInv, TypeOK, SeenStays, CommitMap
          <5>2. /\ Decision(c.batch[x]) \in Row
                /\ Decision(c.batch[x]).status # "ambiguous"
            BY <2>2, <5>1, DecisionType DEF Queued
          <5>3. rows'[x] = Upsert(rows[x], c.seen[x], Decision(c.batch[x]))
            BY <4>1, CommitMapEffect DEF QueueInv
          <5>4. rows'[x].status # Decision(c.batch[x]).status
            BY <1>4, <5>2
          <5> PICK row : row = rows[x]
            OBVIOUS
          <5> PICK seen : seen = c.seen[x]
            OBVIOUS
          <5> PICK new : new = Decision(c.batch[x])
            OBVIOUS
          <5> PICK result : result = rows'[x]
            OBVIOUS
          <5> HIDE DEF c
          <5>5. /\ row \in Row \cup {NoRow} /\ seen \in Row \cup {NoRow}
                /\ new \in Row /\ (seen # NoRow => row # NoRow)
            BY <5>1, <5>2
          <5>6. result = Upsert(row, seen, new) /\ result.status # new.status
            BY <5>3, <5>4
          <5>7. row # NoRow /\ result.status = row.status
            BY <5>5, <5>6, StatusKept
          <5>8. QED
            BY <1>4, <5>7
        <4>2. CASE x \notin Written(c)
          BY <1>4, <4>2, CommitMapEffect DEF QueueInv
        <4>3. QED
          BY <4>1, <4>2
      <3>2. PICK i : Held(x, i)
        BY <3>1 DEF QueueInv, AmbiguousHeld
      <3>3. i \in Open(x)'
        BY <1>2, <3>2 DEF Held
      <3>4. QED
        BY <1>1, <3>2, <3>3, HeldAfterCommit DEF QueueInv, TypeInv
    <2>3. QED
      BY <2>1, <2>2
  <1>5. QED
    BY <1>3, <1>4 DEF AmbiguousHeld

LEMMA HeldReviewStep ==
  ASSUME QueueInv, NEW s \in Sessions, CommitReview(s)
  PROVE  ClosingKnown' /\ AmbiguousHeld'
  <1> DEFINE c == call[s]
  <1>1. /\ c \in ReviewCall
        /\ c.source \in Sources
        /\ c.step = "review"
        /\ rows' = [rows EXCEPT ![c.source] =
                      Upsert(rows[c.source], c.seen, Reviewed(c.target))]
        /\ rows'[c.source].status =
             IF c.seen # NoRow /\ c.seen.status = "resolved"
             THEN rows[c.source].status ELSE "resolved"
        /\ queue' = [queue EXCEPT
                       ![c.source] = Close(queue[c.source], c.closing)]
        /\ DOMAIN queue'[c.source] = DOMAIN queue[c.source]
        /\ call' = CallsAfter(s, {c.source})
    BY CommitReviewEffect DEF QueueInv, ReviewCall
  <1>2. {c.source} \in SUBSET Sources
    BY <1>1
  <1>3. \A x \in Sources : DOMAIN queue[x] \subseteq DOMAIN queue'[x]
    BY <1>1 DEF QueueInv, TypeInv, TypeOK
  <1>4. ClosingKnown'
    BY <1>1, <1>2, <1>3, ClosingAfterCommit DEF QueueInv, TypeInv
  <1>5. ASSUME NEW x \in Sources, rows'[x] # NoRow, rows'[x].status = "ambiguous"
        PROVE  \E i : Held(x, i)'
    <2>1. CASE x # c.source
      <3>1. rows[x] = rows'[x] /\ queue'[x] = queue[x]
        BY <1>1, <2>1 DEF QueueInv, TypeInv, TypeOK
      <3>2. PICK i : Held(x, i)
        BY <1>5, <3>1 DEF QueueInv, AmbiguousHeld
      <3>3. i \in Open(x)'
        BY <3>1, <3>2 DEF Held, Open
      <3>4. QED
        BY <1>1, <1>2, <3>2, <3>3, HeldAfterCommit DEF QueueInv, TypeInv
    <2>2. CASE x = c.source
      <3>1. /\ c.seen # NoRow /\ c.seen.status = "resolved"
            /\ rows[x].status = "ambiguous"
        BY <1>1, <1>5, <2>2
      <3>2. rows[x] # NoRow
        BY <1>1, <2>2, <3>1 DEF QueueInv, TypeInv, SeenStays
      <3>3. PICK i : Held(x, i)
        BY <3>1, <3>2 DEF QueueInv, AmbiguousHeld
      <3>4. i \notin c.closing
        BY <1>1, <2>2, <3>1, <3>3 DEF Held
      <3>5. queue'[x] = Close(queue[x], c.closing)
        BY <1>1, <2>2 DEF QueueInv, TypeInv, TypeOK
      <3>6. i \in Open(x)'
        BY <3>3, <3>4, <3>5 DEF Held, Open, Close
      <3>7. QED
        BY <1>1, <1>2, <3>3, <3>6, HeldAfterCommit DEF QueueInv, TypeInv
    <2>3. QED
      BY <2>1, <2>2
  <1>6. QED
    BY <1>4, <1>5 DEF AmbiguousHeld

LEMMA QueueStep == QueueInv /\ [Next]_vars => QueueInv'
  <1> SUFFICES ASSUME QueueInv, [Next]_vars PROVE ClosingKnown' /\ AmbiguousHeld'
    BY TypeStep DEF QueueInv
  <1>1. ASSUME NEW s \in Sessions, Step(s) PROVE ClosingKnown' /\ AmbiguousHeld'
    <2>1. ASSUME NEW batch \in [Sources -> Outcomes], NEW alone \in BOOLEAN,
                 BeginMap(s, batch, alone)
          PROVE  ClosingKnown' /\ AmbiguousHeld'
      <3>1. UNCHANGED <<rows, queue>>
        BY <2>1 DEF BeginMap
      <3>2. call'[s] \in MapCall /\ call' = [call EXCEPT ![s] = call'[s]]
        BY <2>1, BeginTypes DEF QueueInv, TypeInv
      <3>3. call'[s].step # "review" /\ \A t \in Sessions \ {s} : call'[t] = call[t]
        BY <3>2 DEF MapCall, QueueInv, TypeInv, TypeOK
      <3>4. QED
        BY <3>1, <3>3 DEF QueueInv, ClosingKnown, AmbiguousHeld, Held, Open
    <2>2. ASSUME NEW x \in Sources, NEW t \in Targets, BeginReview(s, x, t)
          PROVE  ClosingKnown' /\ AmbiguousHeld'
      <3>1. UNCHANGED <<rows, queue>>
        BY <2>2 DEF BeginReview
      <3>2. /\ call'[s].source = x /\ call'[s].seen = rows[x]
            /\ call'[s].closing = Open(x)
            /\ call' = [call EXCEPT ![s] = call'[s]]
        BY <2>2, BeginTypes DEF QueueInv, TypeInv
      <3>3. \A u \in Sessions \ {s} : call'[u] = call[u]
        BY <3>2 DEF QueueInv, TypeInv, TypeOK
      <3>4. ClosingKnown'
        BY <3>1, <3>2, <3>3 DEF QueueInv, ClosingKnown, Open
      <3>5. AmbiguousHeld'
        BY <3>1, <3>2, <3>3 DEF QueueInv, AmbiguousHeld, Held, Open
      <3>6. QED
        BY <3>4, <3>5
    <2>3. CASE CommitMap(s)
      BY <2>3, HeldMapStep
    <2>4. CASE CommitReview(s)
      BY <2>4, HeldReviewStep
    <2>5. CASE FailCall(s)
      BY <2>5 DEF FailCall, QueueInv, TypeInv, TypeOK, ClosingKnown, AmbiguousHeld,
                  Held, Open, Idle
    <2>6. QED
      BY <1>1, <2>1, <2>2, <2>3, <2>4, <2>5, StepCases
  <1>2. CASE UNCHANGED vars
    BY <1>2 DEF vars, QueueInv, ClosingKnown, AmbiguousHeld, Held, Open
  <1>3. QED
    BY <1>1, <1>2 DEF Next

\* Every ambiguous user can be found in the review queue, however calls
\* overlap, fail or overwrite each other: a review that would close the last
\* item also read the row as ambiguous, and so writes its status.
THEOREM AmbiguousUsersAreQueued == Spec => []AmbiguousHasOpenReview
  <1>1. QueueInv => AmbiguousHasOpenReview
    BY DEF QueueInv, AmbiguousHeld, AmbiguousHasOpenReview, Held
  <1>2. QED
    BY QueueInit, QueueStep, <1>1, PTL DEF Spec
-----------------------------------------------------------------------------
(* Whole rows and effective reviews, where conflicting writers are aborted *)

\* A row not written since a call read it is the row that the call read.
SeenCurrent ==
  \A s \in Sessions :
    /\ call[s].step = "map" =>
         \A x \in Sources \ call[s].stale :
           call[s].batch[x] # Skip => call[s].seen[x] = rows[x]
    /\ call[s].step = "review" =>
         (call[s].source \notin call[s].stale => call[s].seen = rows[call[s].source])

WholeInv == TypeInv /\ SeenCurrent /\ RowsAreWhole

LEMMA WholeInit == Init => WholeInv
  BY TypeInit DEF Init, WholeInv, SeenCurrent, RowsAreWhole, Idle

\* An update of the row that was read writes every column.
LEMMA UpsertCurrent ==
  ASSUME NEW row \in Row \cup {NoRow}, NEW new \in Row
  PROVE  Upsert(row, row, new) = new
  BY DEF Upsert, Row

LEMMA DecisionIsWhole ==
  ASSUME NEW o \in Outcomes, o # Skip
  PROVE  Decision(o) \in {Unmatched, Ambiguous} \cup {Matched(t) : t \in Targets}
  <1>1. CASE o = Nobody
    BY <1>1 DEF Decision, Nobody
  <1>2. CASE o = Several
    BY <1>2 DEF Decision, Several
  <1>3. ASSUME NEW t \in Targets, o = Match(t)
        PROVE  Decision(o) = Matched(t)
    BY <1>3 DEF Decision, Match
  <1>4. QED
    BY <1>1, <1>2, <1>3 DEF Outcomes

\* What is committed becomes stale in every other call.
LEMMA CallsAfterStale ==
  ASSUME ConflictAborts, TypeOK, NEW s \in Sessions, NEW written \in SUBSET Sources,
         NEW t \in Sessions \ {s}, call[t] # Idle
  PROVE  CallsAfter(s, written)[t].stale = call[t].stale \cup written
  <1>1. CallsAfter(s, written)[t] = [call[t] EXCEPT !.stale = @ \cup written]
    BY DEF CallsAfter
  <1>2. CASE call[t] \in MapCall
    BY <1>1, <1>2 DEF MapCall
  <1>3. CASE call[t] \in ReviewCall
    BY <1>1, <1>3 DEF ReviewCall
  <1>4. QED
    BY <1>2, <1>3, CallTypes

\* A commit leaves the rows it does not write as the others read them.
LEMMA SeenCurrentAfterCommit ==
  ASSUME ConflictAborts, TypeOK, SeenCurrent,
         NEW s \in Sessions, NEW written \in SUBSET Sources,
         call' = CallsAfter(s, written),
         \A x \in Sources \ written : rows'[x] = rows[x]
  PROVE  SeenCurrent'
  <1> SUFFICES ASSUME NEW t \in Sessions
               PROVE  /\ call'[t].step = "map" =>
                           \A x \in Sources \ call'[t].stale :
                             call'[t].batch[x] # Skip => call'[t].seen[x] = rows'[x]
                      /\ call'[t].step = "review" =>
                           (call'[t].source \notin call'[t].stale
                              => call'[t].seen = rows'[call'[t].source])
    BY DEF SeenCurrent
  <1>1. CASE t = s
    BY <1>1, CallsAfterType DEF Idle
  <1>2. CASE t # s /\ call[t].step = "map"
    <2>1. /\ call'[t].step = "map" /\ call'[t].seen = call[t].seen
          /\ call'[t].batch = call[t].batch
      BY <1>2, CallsAfterType
    <2>2. call'[t].stale = call[t].stale \cup written
      BY <1>2, CallsAfterStale DEF Idle
    <2>3. QED
      BY <1>2, <2>1, <2>2 DEF SeenCurrent
  <1>3. CASE t # s /\ call[t].step = "review"
    <2>1. /\ call'[t].step = "review" /\ call'[t].seen = call[t].seen
          /\ call'[t].source = call[t].source
      BY <1>3, CallsAfterType
    <2>2. call'[t].stale = call[t].stale \cup written
      BY <1>3, CallsAfterStale DEF Idle
    <2>3. call[t].source \in Sources
      BY <1>3, CallTypes DEF ReviewCall
    <2>4. QED
      BY <1>3, <2>1, <2>2, <2>3 DEF SeenCurrent
  <1>4. CASE t # s /\ call[t].step \notin {"map", "review"}
    <2>1. call'[t].step = call[t].step
      BY <1>4, CallsAfterType
    <2>2. QED
      BY <1>4, <2>1
  <1>5. QED
    BY <1>1, <1>2, <1>3, <1>4

LEMMA WholeMapStep ==
  ASSUME ConflictAborts, WholeInv, NEW s \in Sessions, CommitMap(s)
  PROVE  SeenCurrent' /\ RowsAreWhole'
  <1> DEFINE c == call[s]
  <1>1. /\ TypeInv /\ TypeOK /\ SeenCurrent /\ c.step = "map"
        /\ Written(c) \in SUBSET Sources
        /\ Written(c) \cap c.stale = {}
    BY WrittenType DEF WholeInv, TypeInv, CommitMap, MayWrite
  <1>2. ASSUME NEW x \in Written(c)
        PROVE  rows'[x] \in {Unmatched, Ambiguous} \cup {Matched(t) : t \in Targets}
    <2>1. /\ x \in Sources /\ c.batch[x] \in Outcomes /\ c.batch[x] # Skip
      BY <1>1, <1>2, WrittenType
    <2>2. c.seen[x] = rows[x] /\ rows[x] \in Row \cup {NoRow}
      BY <1>1, <1>2, <2>1 DEF SeenCurrent, TypeOK
    <2>3. /\ rows'[x] = Upsert(rows[x], c.seen[x], Decision(c.batch[x]))
          /\ Decision(c.batch[x]) \in Row
      BY <1>1, <1>2, <2>1, CommitMapEffect
    <2>4. rows'[x] = Decision(c.batch[x])
      BY <2>2, <2>3, UpsertCurrent
    <2>5. QED
      BY <2>1, <2>4, DecisionIsWhole
  <1>3. \A x \in Sources \ Written(c) : rows'[x] = rows[x]
    BY <1>1, CommitMapEffect
  <1>4. call' = CallsAfter(s, Written(c))
    BY <1>1, CommitMapEffect
  <1>5. SeenCurrent'
    BY <1>1, <1>3, <1>4, SeenCurrentAfterCommit
  <1>6. RowsAreWhole'
    BY <1>2, <1>3 DEF WholeInv, RowsAreWhole
  <1>7. QED
    BY <1>5, <1>6

\* The row a review leaves is its decision, whole.
LEMMA ReviewWritesDecision ==
  ASSUME ConflictAborts, TypeInv, SeenCurrent, NEW s \in Sessions, CommitReview(s)
  PROVE  rows'[call[s].source] = Reviewed(call[s].target)
  <1> DEFINE c == call[s]
             x == c.source
  <1>1. /\ c \in ReviewCall /\ c.step = "review"
        /\ x \in Sources /\ c.target \in Targets /\ x \notin c.stale
    BY CommitReviewEffect DEF CommitReview, MayWrite, ReviewCall
  <1>2. c.seen = rows[x] /\ rows[x] \in Row \cup {NoRow}
    BY <1>1 DEF SeenCurrent, TypeInv, TypeOK
  <1>3. rows'[x] = Upsert(rows[x], c.seen, Reviewed(c.target))
    BY <1>1 DEF CommitReview, TypeInv, TypeOK
  <1>4. QED
    BY <1>1, <1>2, <1>3, UpsertCurrent, ReviewedType

LEMMA WholeReviewStep ==
  ASSUME ConflictAborts, WholeInv, NEW s \in Sessions, CommitReview(s)
  PROVE  SeenCurrent' /\ RowsAreWhole'
  <1> DEFINE x == call[s].source
  <1>1. /\ TypeInv /\ TypeOK /\ SeenCurrent
        /\ x \in Sources /\ call[s].target \in Targets
        /\ call' = CallsAfter(s, {x})
    BY CommitReviewEffect DEF WholeInv, TypeInv, ReviewCall
  <1>2. \A y \in Sources \ {x} : rows'[y] = rows[y]
    BY <1>1 DEF CommitReview, TypeOK
  <1>3. rows'[x] = Reviewed(call[s].target)
    BY <1>1, ReviewWritesDecision
  <1>4. {x} \in SUBSET Sources
    BY <1>1
  <1>5. SeenCurrent'
    BY <1>1, <1>2, <1>4, SeenCurrentAfterCommit
  <1>6. RowsAreWhole'
    BY <1>1, <1>2, <1>3 DEF WholeInv, RowsAreWhole
  <1>7. QED
    BY <1>5, <1>6

LEMMA WholeStep ==
  ASSUME ConflictAborts
  PROVE  WholeInv /\ [Next]_vars => WholeInv'
  <1> SUFFICES ASSUME WholeInv, [Next]_vars PROVE SeenCurrent' /\ RowsAreWhole'
    BY TypeStep DEF WholeInv
  <1>1. ASSUME NEW s \in Sessions, Step(s) PROVE SeenCurrent' /\ RowsAreWhole'
    <2>1. ASSUME NEW batch \in [Sources -> Outcomes], NEW alone \in BOOLEAN,
                 BeginMap(s, batch, alone)
          PROVE  SeenCurrent' /\ RowsAreWhole'
      <3>1. UNCHANGED <<rows, queue>>
        BY <2>1 DEF BeginMap
      <3>2. \A t \in Sessions \ {s} : call'[t] = call[t]
        BY <2>1 DEF BeginMap, WholeInv, TypeInv, TypeOK
      <3>3. /\ call'[s].step = "map" /\ call'[s].batch = batch
            /\ \A x \in Sources : batch[x] # Skip => call'[s].seen[x] = rows[x]
        BY <2>1 DEF BeginMap, WholeInv, TypeInv, TypeOK
      <3>4. QED
        BY <3>1, <3>2, <3>3 DEF WholeInv, SeenCurrent, RowsAreWhole
    <2>2. ASSUME NEW x \in Sources, NEW t \in Targets, BeginReview(s, x, t)
          PROVE  SeenCurrent' /\ RowsAreWhole'
      <3>1. UNCHANGED <<rows, queue>>
        BY <2>2 DEF BeginReview
      <3>2. \A u \in Sessions \ {s} : call'[u] = call[u]
        BY <2>2 DEF BeginReview, WholeInv, TypeInv, TypeOK
      <3>3. call'[s].step = "review" /\ call'[s].source = x /\ call'[s].seen = rows[x]
        BY <2>2 DEF BeginReview, WholeInv, TypeInv, TypeOK
      <3>4. QED
        BY <3>1, <3>2, <3>3 DEF WholeInv, SeenCurrent, RowsAreWhole
    <2>3. CASE CommitMap(s)
      BY <2>3, WholeMapStep
    <2>4. CASE CommitReview(s)
      BY <2>4, WholeReviewStep
    <2>5. CASE FailCall(s)
      BY <2>5 DEF FailCall, WholeInv, TypeInv, TypeOK, SeenCurrent, RowsAreWhole, Idle
    <2>6. QED
      BY <1>1, <2>1, <2>2, <2>3, <2>4, <2>5, StepCases
  <1>2. CASE UNCHANGED vars
    BY <1>2 DEF vars, WholeInv, SeenCurrent, RowsAreWhole
  <1>3. QED
    BY <1>1, <1>2 DEF Next

\* Where the database aborts the writer that lost a race, every row holds what
\* one call decided, for any number of callers.
THEOREM RowsStayWhole ==
  ASSUME ConflictAborts
  PROVE  Spec => []RowsAreWhole
  <1>1. WholeInv => RowsAreWhole
    BY DEF WholeInv
  <1>2. QED
    BY WholeInit, WholeStep, <1>1, PTL DEF Spec

\* There, a review that commits has resolved the user to the target chosen: no
\* column of it is kept from a row that was written in between.
THEOREM ReviewsTakeEffect ==
  ASSUME ConflictAborts
  PROVE  Spec => ReviewTakesEffect
  <1>1. WholeInv /\ [Next]_vars =>
          [\A s \in Sessions :
             (call[s].step = "review" /\ CommitReview(s)) =>
               rows'[call[s].source] = Reviewed(call[s].target)]_vars
    BY ReviewWritesDecision DEF WholeInv
  <1>2. QED
    BY WholeInit, WholeStep, <1>1, PTL DEF Spec, ReviewTakesEffect
-----------------------------------------------------------------------------
(* The matching policy *)

LEMMA KeysAre == Len(matching_priority) = 3 /\ Keys = {1, 2, 3}
  BY DEF matching_priority, Keys

\* What a key decides that somebody shares.
Decide(user, candidates, k) ==
  IF One(Matches(user, candidates, k))
  THEN Match(candidates[CHOOSE i \in Matches(user, candidates, k) : TRUE].id)
  ELSE Several

\* The loop over the keys: the first one that somebody shares decides.
LEMMA ResolveIsFirstShared ==
  ASSUME NEW user, NEW candidates
  PROVE  Resolve(user, candidates) =
           IF Matches(user, candidates, 1) # {} THEN Decide(user, candidates, 1)
           ELSE IF Matches(user, candidates, 2) # {} THEN Decide(user, candidates, 2)
           ELSE IF Matches(user, candidates, 3) # {} THEN Decide(user, candidates, 3)
           ELSE Nobody
  <1> DEFINE found(k) == Matches(user, candidates, k)
             decided(k) == Decide(user, candidates, k)
             Loop(f) ==
               f = [k \in 1 .. Len(matching_priority) + 1 |->
                      IF k \notin Keys THEN Nobody
                      ELSE LET some == Matches(user, candidates, k)
                           IN IF some = {} THEN f[k + 1]
                              ELSE IF One(some)
                                   THEN Match(candidates[CHOOSE i \in some : TRUE].id)
                                   ELSE Several]
             from3 == IF found(3) # {} THEN decided(3) ELSE Nobody
             from2 == IF found(2) # {} THEN decided(2) ELSE from3
             from1 == IF found(1) # {} THEN decided(1) ELSE from2
             try == [k \in 1 .. 4 |-> IF k = 1 THEN from1 ELSE IF k = 2 THEN from2
                                      ELSE IF k = 3 THEN from3 ELSE Nobody]
  <1>1. \A f : Loop(f) <=>
          f = [k \in 1 .. 4 |-> IF k = 4 THEN Nobody
                                ELSE IF found(k) = {} THEN f[k + 1] ELSE decided(k)]
    <2>1. Len(matching_priority) + 1 = 4 /\ \A k \in 1 .. 4 : k \notin Keys <=> k = 4
      BY KeysAre
    <2>2. QED
      BY <2>1 DEF Decide
  <1> HIDE DEF Loop, found, decided
  <1>2. Loop(try)
    <2> SUFFICES try = [k \in 1 .. 4 |->
                          IF k = 4 THEN Nobody
                          ELSE IF found(k) = {} THEN try[k + 1] ELSE decided(k)]
      BY <1>1
    <2> SUFFICES ASSUME NEW k \in 1 .. 4
                 PROVE  try[k] = IF k = 4 THEN Nobody
                                 ELSE IF found(k) = {} THEN try[k + 1] ELSE decided(k)
      OBVIOUS
    <2>1. k \in {1, 2, 3, 4}
      OBVIOUS
    <2>2. QED
      BY <2>1
  <1>3. PICK f : Loop(f) /\ Resolve(user, candidates) = f[1]
    <2>1. Resolve(user, candidates) = (CHOOSE f : Loop(f))[1]
      BY DEF Resolve, Loop
    <2> HIDE DEF try
    <2>2. QED
      BY <1>2, <2>1
  <1>4. f[1] = from1
    <2>1. /\ f[4] = Nobody
          /\ \A k \in 1 .. 3 : f[k] = IF found(k) = {} THEN f[k + 1] ELSE decided(k)
      BY <1>1, <1>3
    <2>2. f[3] = from3 /\ f[2] = from2 /\ f[1] = from1
      BY <2>1
    <2>3. QED
      BY <2>2
  <1>5. QED
    BY <1>3, <1>4 DEF found, decided

\* Comparing the texts as the code normalises them is agreeing in the key.
LEMMA MatchesAgree ==
  ASSUME NEW user \in Profile, NEW n \in Nat, NEW candidates \in [1 .. n -> Candidate],
         NEW k \in Keys
  PROVE  Matches(user, candidates, k) =
           {i \in 1 .. n : Agree(user, candidates[i].has, k)}
  <1> SUFFICES ASSUME NEW i \in 1 .. n
               PROVE  (/\ Normal(user, k) # Missing
                       /\ Normal(candidates[i].has, k) = Normal(user, k))
                        <=> Agree(user, candidates[i].has, k)
    BY DEF Matches
  <1>1. candidates[i].has \in Profile
    BY DEF Candidate
  <1>2. /\ user[k] \in Texts \cup {Null, Missing}
        /\ candidates[i].has[k] \in Texts \cup {Null, Missing}
    BY <1>1 DEF Profile
  <1>3. NullText \in Texts /\ Null \notin Texts /\ Missing \notin Texts /\ Missing # Null
    BY MatchingAssumption
  <1>4. QED
    BY <1>2, <1>3 DEF Normal, Agree

LEMMA OutcomesDiffer ==
  /\ Several # Nobody
  /\ \A t : Match(t) # Nobody /\ Match(t).kind = "match"
  /\ Nobody.kind # "match" /\ Several.kind # "match"
  <1>1. /\ Several.kind = "several" /\ Nobody.kind = "nobody"
        /\ \A t : Match(t).kind = "match"
    BY DEF Several, Nobody, Match
  <1>2. QED
    BY <1>1

\* The place is the only one that shares its key, and none shares a stronger.
SoleAt(user, candidates, k, i) ==
  /\ Matches(user, candidates, k) = {i}
  /\ \A l \in 1 .. k - 1 : Matches(user, candidates, l) = {}

\* resolve_user binds on the first key that is shared, if one alone shares it.
LEMMA ResolveBindsSole ==
  ASSUME NEW user, NEW candidates
  PROVE  /\ Resolve(user, candidates) = Nobody
              <=> \A k \in Keys : Matches(user, candidates, k) = {}
         /\ Resolve(user, candidates).kind = "match"
              <=> \E k \in Keys : \E i : SoleAt(user, candidates, k, i)
         /\ \A k \in Keys : \A i : SoleAt(user, candidates, k, i)
              => Resolve(user, candidates) = Match(candidates[i].id)
  <1> DEFINE M(k) == Matches(user, candidates, k)
             outcome == Resolve(user, candidates)
  <1>1. ASSUME NEW k \in Keys, M(k) # {}, \A l \in 1 .. k - 1 : M(l) = {}
        PROVE  outcome = Decide(user, candidates, k)
    <2>1. k \in {1, 2, 3}
      BY KeysAre
    <2>2. CASE k = 1
      BY <1>1, <2>2, ResolveIsFirstShared
    <2>3. CASE k = 2
      <3>1. M(1) = {}
        BY <1>1, <2>3
      <3>2. QED
        BY <1>1, <2>3, <3>1, ResolveIsFirstShared
    <2>4. CASE k = 3
      <3>1. M(1) = {} /\ M(2) = {}
        BY <1>1, <2>4
      <3>2. QED
        BY <1>1, <2>4, <3>1, ResolveIsFirstShared
    <2>5. QED
      BY <2>1, <2>2, <2>3, <2>4
  <1>2. ASSUME NEW k \in Keys, NEW i, SoleAt(user, candidates, k, i)
        PROVE  outcome = Match(candidates[i].id)
    <2>1. M(k) = {i} /\ \A l \in 1 .. k - 1 : M(l) = {}
      BY <1>2 DEF SoleAt
    <2>2. outcome = Decide(user, candidates, k)
      BY <1>1, <2>1
    <2>3. One(M(k)) /\ (CHOOSE j \in M(k) : TRUE) = i
      BY <2>1 DEF One
    <2>4. QED
      BY <2>2, <2>3 DEF Decide
  <1>3. CASE \A k \in Keys : M(k) = {}
    <2>1. M(1) = {} /\ M(2) = {} /\ M(3) = {}
      BY <1>3, KeysAre
    <2>2. outcome = Nobody
      BY <2>1, ResolveIsFirstShared
    <2>3. \A k \in Keys : \A i : ~SoleAt(user, candidates, k, i)
      BY <1>3 DEF SoleAt
    <2>4. QED
      BY <1>3, <2>2, <2>3, OutcomesDiffer
  <1>4. ASSUME NEW k \in Keys, M(k) # {}, \A l \in 1 .. k - 1 : M(l) = {}
        PROVE  /\ outcome # Nobody
               /\ outcome.kind = "match"
                    <=> \E l \in Keys : \E i : SoleAt(user, candidates, l, i)
    <2>1. outcome = Decide(user, candidates, k)
      BY <1>1, <1>4
    <2>2. CASE One(M(k))
      <3>1. PICK i : M(k) = {i}
        BY <2>2 DEF One
      <3>2. SoleAt(user, candidates, k, i)
        BY <1>4, <3>1 DEF SoleAt
      <3>3. outcome = Match(candidates[i].id)
        BY <1>2, <3>2
      <3>4. QED
        BY <3>2, <3>3, OutcomesDiffer
    <2>3. CASE ~One(M(k))
      <3>1. outcome = Several
        BY <2>1, <2>3 DEF Decide
      <3>2. ASSUME NEW l \in Keys, NEW i, SoleAt(user, candidates, l, i) PROVE FALSE
        BY <1>2, <3>1, <3>2, OutcomesDiffer
      <3>3. QED
        BY <3>1, <3>2, OutcomesDiffer
    <2>4. QED
      BY <2>2, <2>3
  <1>5. (\E k \in Keys : M(k) # {}) =>
          \E k \in Keys : M(k) # {} /\ \A l \in 1 .. k - 1 : M(l) = {}
    <2>1. CASE M(1) # {}
      BY <2>1, KeysAre
    <2>2. CASE M(1) = {} /\ M(2) # {}
      <3>1. \A l \in 1 .. 2 - 1 : M(l) = {}
        BY <2>2
      <3>2. QED
        BY <2>2, <3>1, KeysAre
    <2>3. CASE M(1) = {} /\ M(2) = {}
      <3>1. \A l \in 1 .. 3 - 1 : M(l) = {}
        <4>1. \A l \in 1 .. 3 - 1 : l = 1 \/ l = 2
          OBVIOUS
        <4>2. QED
          BY <2>3, <4>1
      <3>2. (\E k \in Keys : M(k) # {}) => M(3) # {}
        BY <2>3, KeysAre
      <3>3. QED
        BY <3>1, <3>2, KeysAre
    <2>4. QED
      BY <2>1, <2>2, <2>3
  <1>6. CASE \E k \in Keys : M(k) # {}
    <2>1. PICK k \in Keys : M(k) # {} /\ \A l \in 1 .. k - 1 : M(l) = {}
      BY <1>5, <1>6
    <2>2. QED
      BY <1>2, <1>4, <1>6, <2>1
  <1>7. QED
    BY <1>3, <1>6
-----------------------------------------------------------------------------
(* The theorems *)

\* resolve_user binds a user without a review only on evidence that nothing in
\* the list contradicts, and calls a user unmatched only if nobody agrees in any
\* key: whatever the keys hold, and for lists of any length.
THEOREM MatchingBindsOnEvidence == \A n \in Nat : BoundOnEvidence(n)
  <1> SUFFICES ASSUME NEW n \in Nat, NEW user \in Profile,
                      NEW candidates \in CandidateLists(n)
               PROVE
      LET places == DOMAIN candidates
          Sole(i) ==
            \E k \in Keys :
              /\ Agree(user, candidates[i].has, k)
              /\ \A j \in places \ {i} : ~Agree(user, candidates[j].has, k)
              /\ \A l \in 1..k - 1, j \in places : ~Agree(user, candidates[j].has, l)
          Strangers ==
            \A k \in Keys, j \in places : ~Agree(user, candidates[j].has, k)
          outcome == Resolve(user, candidates)
      IN /\ outcome = Nobody <=> Strangers
         /\ outcome.kind = "match" <=> \E i \in places : Sole(i)
         /\ \A i \in places : Sole(i) => outcome = Match(candidates[i].id)
    BY DEF BoundOnEvidence
  <1> DEFINE M(k) == Matches(user, candidates, k)
             Sole(i) ==
               \E k \in Keys :
                 /\ Agree(user, candidates[i].has, k)
                 /\ \A j \in DOMAIN candidates \ {i} :
                      ~Agree(user, candidates[j].has, k)
                 /\ \A l \in 1..k - 1, j \in DOMAIN candidates :
                      ~Agree(user, candidates[j].has, l)
  <1>1. PICK m \in Nat : candidates \in [1 .. m -> Candidate]
    BY DEF CandidateLists
  <1>2. \A k \in Keys : M(k) = {i \in 1 .. m : Agree(user, candidates[i].has, k)}
    BY <1>1, MatchesAgree
  <1>3. DOMAIN candidates = 1 .. m
    BY <1>1
  <1>4. \A k \in Keys : \A l \in 1 .. k - 1 : l \in Keys
    BY KeysAre
  <1> HIDE DEF M
  <1>5. \A k \in Keys :
          M(k) = {} <=> \A j \in 1 .. m : ~Agree(user, candidates[j].has, k)
    BY <1>2
  <1>6. \A i \in 1 .. m : Sole(i) <=> \E k \in Keys : SoleAt(user, candidates, k, i)
    <2> SUFFICES ASSUME NEW i \in 1 .. m, NEW k \in Keys
                 PROVE
        (/\ Agree(user, candidates[i].has, k)
         /\ \A j \in 1 .. m \ {i} : ~Agree(user, candidates[j].has, k)
         /\ \A l \in 1..k - 1, j \in 1 .. m : ~Agree(user, candidates[j].has, l))
          <=> (M(k) = {i} /\ \A l \in 1 .. k - 1 : M(l) = {})
      BY <1>3 DEF SoleAt, M
    <2>1. (/\ Agree(user, candidates[i].has, k)
           /\ \A j \in 1 .. m \ {i} : ~Agree(user, candidates[j].has, k))
            <=> M(k) = {i}
      BY <1>2
    <2>2. (\A l \in 1..k - 1, j \in 1 .. m : ~Agree(user, candidates[j].has, l))
            <=> \A l \in 1 .. k - 1 : M(l) = {}
      BY <1>4, <1>5
    <2>3. QED
      BY <2>1, <2>2
  <1>7. \A k \in Keys : \A i : SoleAt(user, candidates, k, i) => i \in 1 .. m
    <2> SUFFICES ASSUME NEW k \in Keys, NEW i, M(k) = {i} PROVE i \in 1 .. m
      BY DEF SoleAt, M
    <2>1. i \in M(k)
      OBVIOUS
    <2>2. QED
      BY <1>2, <2>1
  <1>8. Resolve(user, candidates) = Nobody
          <=> \A k \in Keys, j \in 1 .. m : ~Agree(user, candidates[j].has, k)
    <2>1. Resolve(user, candidates) = Nobody <=> \A k \in Keys : M(k) = {}
      BY ResolveBindsSole DEF M
    <2>2. QED
      BY <1>5, <2>1
  <1>9. Resolve(user, candidates).kind = "match" <=> \E i \in 1 .. m : Sole(i)
    <2> HIDE DEF Sole
    <2>1. Resolve(user, candidates).kind = "match"
            <=> \E k \in Keys : \E i : SoleAt(user, candidates, k, i)
      BY ResolveBindsSole
    <2>2. QED
      BY <1>6, <1>7, <2>1
  <1>10. \A i \in 1 .. m : Sole(i) => Resolve(user, candidates) = Match(candidates[i].id)
    <2> HIDE DEF Sole
    <2>1. QED
      BY <1>6, ResolveBindsSole
  <1>11. QED
    BY <1>3, <1>8, <1>9, <1>10

\* In particular for the lists of the run.
THEOREM PolicyIsSound == Spec => []PolicyBindsOnEvidence
  <1>1. PolicyBindsOnEvidence
    BY MatchingBindsOnEvidence DEF PolicyBindsOnEvidence
  <1>2. QED
    BY <1>1, PTL
-----------------------------------------------------------------------------
(* UserPlane: the calls about users are calls of the data plane *)

LEMMA PlaneRowType ==
  ASSUME NEW row \in Row
  PROVE  /\ PlaneRow(row) = [status |-> row.status, target |-> row.target,
                             link |-> NoTarget]
         /\ PlaneRow(row) \in Plane!Row
         /\ PlaneRow(row) # NoRow
  <1>1. PlaneRow(row) = [status |-> row.status, target |-> row.target,
                         link |-> NoTarget]
    BY UserAssumption DEF PlaneRow
  <1>2. PlaneRow(row) \in Plane!Row
    BY <1>1 DEF Row, Plane!Row
  <1>3. QED
    BY <1>1, <1>2, PlaneAssumption

\* The data plane may decide so about a user.
LEMMA PlaneDecides ==
  ASSUME NEW x \in Sources
  PROVE  /\ \A o \in Outcomes \ {Skip} : PlaneRow(Decision(o)) \in Plane!Decisions(x)
         /\ \A t \in Targets : PlaneRow(Reviewed(t)) \in Plane!Decisions(x)
  <1>1. Plane!Decisions(x) = Plane!Bound(x) \cup Plane!Unsettled
    BY DEF Plane!Decisions
  <1>2. \A t \in Targets :
          [status |-> "resolved", target |-> t, link |-> NoTarget] \in Plane!Bound(x)
    <2>1. Plane!ParentTarget(x) = NoTarget
      BY DEF Plane!ParentTarget
    <2>2. QED
      BY <2>1 DEF Plane!Bound
  <1>3. \A t \in Targets : PlaneRow(Reviewed(t)) \in Plane!Decisions(x)
    BY <1>1, <1>2, ReviewedType, PlaneRowType DEF Reviewed
  <1>4. ASSUME NEW o \in Outcomes, o # Skip
        PROVE  PlaneRow(Decision(o)) \in Plane!Decisions(x)
    <2>1. Decision(o) \in Row
      BY <1>4, DecisionType
    <2>2. PlaneRow(Decision(o)) = [status |-> Decision(o).status,
                                   target |-> Decision(o).target, link |-> NoTarget]
      BY <2>1, PlaneRowType
    <2>3. CASE Decision(o) \in {Unmatched, Ambiguous}
      BY <1>1, <2>2, <2>3 DEF Unmatched, Ambiguous, Plane!Unsettled
    <2>4. CASE \E t \in Targets : Decision(o) = Matched(t)
      BY <1>1, <1>2, <2>2, <2>4 DEF Matched
    <2>5. QED
      BY <1>4, <2>3, <2>4, DecisionIsWhole
  <1>5. QED
    BY <1>3, <1>4

\* Columns are written one by one, so leaving one out of the row changes nothing
\* about the others.
LEMMA PlaneUpsert ==
  ASSUME NEW row \in Row \cup {NoRow}, NEW seen \in Row \cup {NoRow}, NEW new \in Row,
         seen # NoRow => row # NoRow
  PROVE  PlaneRow(Upsert(row, seen, new))
           = Plane!Upsert(PlaneRow(row), PlaneRow(seen), PlaneRow(new))
  <1>1. Upsert(row, seen, new) \in Row
    BY UpsertType
  <1>2. CASE seen = NoRow
    BY <1>2 DEF Upsert, Plane!Upsert, PlaneRow
  <1>3. CASE seen # NoRow
    <2>1. seen \in Row /\ row \in Row
      BY <1>3
    <2>2. PlaneRow(seen) # NoRow
      BY <2>1, PlaneRowType
    <2>3. /\ Upsert(row, seen, new).status =
               IF new.status = seen.status THEN row.status ELSE new.status
          /\ Upsert(row, seen, new).target =
               IF new.target = seen.target THEN row.target ELSE new.target
      BY <1>3 DEF Upsert
    <2>4. QED
      BY <1>1, <2>1, <2>2, <2>3, PlaneRowType DEF Plane!Upsert
  <1>4. QED
    BY <1>2, <1>3

LEMMA PlaneCallIs ==
  ASSUME NEW c
  PROVE  /\ PlaneBatch(c) = {} => PlaneCall(c) = Idle
         /\ PlaneBatch(c) # {} =>
              /\ PlaneCall(c).step = "write"
              /\ PlaneCall(c).seen =
                   [x \in Sources |->
                      IF x \in PlaneBatch(c) THEN PlaneRow(SeenOf(c, x)) ELSE NoRow]
              /\ PlaneCall(c).new =
                   [x \in Sources |->
                      IF x \in PlaneBatch(c) THEN PlaneRow(NewOf(c, x)) ELSE NoRow]
              /\ PlaneCall(c) # Idle
  BY DEF PlaneCall, Idle

LEMMA IdleWritesNothing == PlaneBatch(Idle) = {} /\ PlaneCall(Idle) = Idle
  BY DEF PlaneBatch, PlaneCall, Idle


\* What a call writes has the types of the tables.
LEMMA PlaneBatchType ==
  ASSUME NEW c \in {Idle} \cup MapCall \cup ReviewCall
  PROVE  /\ PlaneBatch(c) \in SUBSET Sources
         /\ \A x \in PlaneBatch(c) :
              /\ SeenOf(c, x) \in Row \cup {NoRow}
              /\ NewOf(c, x) \in Row
              /\ PlaneRow(NewOf(c, x)) \in Plane!Decisions(x)
  <1>1. CASE c \in MapCall
    <2>1. c.step = "map"
      BY <1>1 DEF MapCall
    <2>2. PlaneBatch(c) = Written(c)
      BY <2>1 DEF PlaneBatch
    <2>3. ASSUME NEW x \in Written(c)
          PROVE  /\ x \in Sources /\ c.seen[x] \in Row \cup {NoRow}
                 /\ c.batch[x] \in Outcomes \ {Skip}
      BY <1>1 DEF Written, MapCall
    <2>4. QED
      BY <2>1, <2>2, <2>3, DecisionType, PlaneDecides DEF SeenOf, NewOf
  <1>2. CASE c \in ReviewCall
    <2>1. /\ c.step = "review" /\ c.source \in Sources /\ c.target \in Targets
          /\ c.seen \in Row \cup {NoRow}
      BY <1>2 DEF ReviewCall
    <2>2. PlaneBatch(c) = {c.source}
      BY <2>1 DEF PlaneBatch
    <2>3. QED
      BY <2>1, <2>2, ReviewedType, PlaneDecides DEF SeenOf, NewOf
  <1>3. CASE c = Idle
    BY <1>3, IdleWritesNothing
  <1>4. QED
    BY <1>1, <1>2, <1>3

\* A call that begins, whatever it is called, has read its rows and decided.
LEMMA PlaneBegins ==
  ASSUME TypeOK, NEW s \in Sessions, call[s] = Idle,
         NEW c \in MapCall \cup ReviewCall, call' = [call EXCEPT ![s] = c],
         UNCHANGED <<rows, ever>>,
         \A x \in PlaneBatch(c) : SeenOf(c, x) = rows[x]
  PROVE  Plane!Next \/ UNCHANGED Plane!vars
  <1> DEFINE batch == PlaneBatch(c)
             calls == [t \in Sessions |-> PlaneCall(call[t])]
             new == [x \in batch |-> PlaneRow(NewOf(c, x))]
  <1>1. calls' = [calls EXCEPT ![s] = PlaneCall(c)]
    BY DEF TypeOK
  <1>2. calls[s] = Idle
    BY IdleWritesNothing
  <1>3. /\ batch \in SUBSET Sources
        /\ \A x \in batch : PlaneRow(NewOf(c, x)) \in Plane!Decisions(x)
    BY PlaneBatchType
  <1>4. CASE batch = {}
    <2>1. PlaneCall(c) = Idle
      BY <1>4, PlaneCallIs
    <2>2. calls' = calls
      BY <1>1, <1>2, <2>1
    <2>3. QED
      BY <2>2 DEF Plane!vars
  <1>5. CASE batch # {}
    <2>1. /\ new \in [batch -> UNION {Plane!Decisions(e) : e \in batch}]
          /\ \A e \in batch : new[e] \in Plane!Decisions(e)
      BY <1>3
    <2>2. PlaneCall(c) =
            [step |-> "write",
             seen |-> [e \in Sources |->
                         IF e \in batch THEN [x \in Sources |-> PlaneRow(rows[x])][e]
                         ELSE NoRow],
             new  |-> [e \in Sources |-> IF e \in batch THEN new[e] ELSE NoRow]]
      BY <1>3, <1>5 DEF PlaneCall
    <2>3. Plane!OfKind("users") = Sources
      BY DEF Plane!OfKind
    <2> HIDE DEF batch, new
    <2>4. Plane!BeginCall(s, batch)
      BY <1>1, <1>2, <2>1, <2>2 DEF Plane!BeginCall, Plane!Idle, Idle
    <2>5. batch \in (SUBSET Plane!OfKinds({"users"})) \ {{}}
      BY <1>3, <1>5, <2>3 DEF Plane!OfKinds
    <2>6. {"users"} \in Plane!CallKinds
      BY DEF Plane!CallKinds, Plane!Dictionaries, Plane!Kinds, Plane!RefKinds
    <2>7. QED
      BY <2>4, <2>5, <2>6 DEF Plane!Next, Plane!Step
  <1>6. QED
    BY <1>4, <1>5

LEMMA SameCall ==
  ASSUME NEW c, NEW d, PlaneBatch(d) = PlaneBatch(c),
         \A x \in Sources : SeenOf(d, x) = SeenOf(c, x) /\ NewOf(d, x) = NewOf(c, x)
  PROVE  PlaneCall(d) = PlaneCall(c)
  <1> DEFINE seen(e) == [x \in Sources |->
                           IF x \in PlaneBatch(e) THEN PlaneRow(SeenOf(e, x)) ELSE NoRow]
             new(e) == [x \in Sources |->
                          IF x \in PlaneBatch(e) THEN PlaneRow(NewOf(e, x)) ELSE NoRow]
  <1>1. seen(d) = seen(c) /\ new(d) = new(c)
    OBVIOUS
  <1>2. /\ PlaneCall(c) = IF PlaneBatch(c) = {} THEN Idle
                          ELSE [step |-> "write", seen |-> seen(c), new |-> new(c)]
        /\ PlaneCall(d) = IF PlaneBatch(d) = {} THEN Idle
                          ELSE [step |-> "write", seen |-> seen(d), new |-> new(d)]
    BY DEF PlaneCall
  <1>3. QED
    BY <1>1, <1>2

\* Calls that differ in nothing but what has become stale are one call here.
LEMMA PlaneCallKept ==
  ASSUME TypeOK, NEW s \in Sessions, NEW written \in SUBSET Sources,
         NEW t \in Sessions \ {s}
  PROVE  PlaneCall(CallsAfter(s, written)[t]) = PlaneCall(call[t])
  <1> DEFINE c == call[t]
             d == CallsAfter(s, written)[t]
  <1>1. CASE c.step = "map"
    <2>1. /\ d.step = "map" /\ d.seen = c.seen
          /\ d.batch = c.batch /\ d.alone = c.alone
      BY <1>1, CallsAfterType
    <2> HIDE DEF c, d
    <2>2. Written(d) = Written(c)
      BY <2>1 DEF Written, Queued
    <2>3. PlaneBatch(d) = PlaneBatch(c)
      BY <1>1, <2>1, <2>2 DEF PlaneBatch
    <2>4. \A x \in Sources : SeenOf(d, x) = SeenOf(c, x) /\ NewOf(d, x) = NewOf(c, x)
      BY <1>1, <2>1 DEF SeenOf, NewOf
    <2>5. PlaneCall(d) = PlaneCall(c)
      BY <2>3, <2>4, SameCall
    <2>6. QED
      BY <2>5 DEF c, d
  <1>2. CASE c.step = "review"
    <2>1. /\ d.step = "review" /\ d.seen = c.seen
          /\ d.source = c.source /\ d.target = c.target
      BY <1>2, CallsAfterType
    <2> HIDE DEF c, d
    <2>2. PlaneBatch(d) = PlaneBatch(c)
      BY <1>2, <2>1 DEF PlaneBatch
    <2>3. \A x \in Sources : SeenOf(d, x) = SeenOf(c, x) /\ NewOf(d, x) = NewOf(c, x)
      BY <1>2, <2>1 DEF SeenOf, NewOf
    <2>4. PlaneCall(d) = PlaneCall(c)
      BY <2>2, <2>3, SameCall
    <2>5. QED
      BY <2>4 DEF c, d
  <1>3. CASE c = Idle
    BY <1>3 DEF CallsAfter
  <1>4. QED
    BY <1>1, <1>2, <1>3 DEF TypeOK, MapCall, ReviewCall
-----------------------------------------------------------------------------
(* The history holds what the table holds, so that only a commit adds to it. *)

Remembered ==
  /\ ever \in [Sources -> SUBSET Targets]
  /\ \A x \in Sources : Plane!TargetOf(PlaneRow(rows[x])) \subseteq ever[x]

PlaneInv == TypeInv /\ (ConflictAborts => WholeInv) /\ Remembered

LEMMA RowsKeptEverKept ==
  ASSUME Remembered, Remember, UNCHANGED rows
  PROVE  UNCHANGED ever
  BY DEF Remembered, Remember

LEMMA PlaneTargetType ==
  ASSUME NEW row \in Row \cup {NoRow}
  PROVE  Plane!TargetOf(PlaneRow(row)) \in SUBSET Targets
  <1>1. CASE row = NoRow
    BY <1>1 DEF Plane!TargetOf, PlaneRow
  <1>2. CASE row \in Row
    BY <1>2, PlaneRowType DEF Plane!TargetOf, Row
  <1>3. QED
    BY <1>1, <1>2

LEMMA PlaneInvInit == PlaneInit => PlaneInv
  <1> SUFFICES ASSUME Init, ever = [x \in Sources |-> {}] PROVE PlaneInv
    BY DEF PlaneInit
  <1>1. TypeInv /\ WholeInv
    BY TypeInit, WholeInit
  <1>2. Remembered
    BY DEF Init, Remembered, Plane!TargetOf, PlaneRow
  <1>3. QED
    BY <1>1, <1>2 DEF PlaneInv

\* A commit that writes the rows of a call from what it read and decided is the
\* commit of the data plane, and nothing when there are none.
LEMMA PlaneCommits ==
  ASSUME PlaneInv, Remember, NEW s \in Sessions, NEW c, c = call[s], c # Idle,
         rows' = [x \in Sources |->
                    IF x \in PlaneBatch(c)
                    THEN Upsert(rows[x], SeenOf(c, x), NewOf(c, x)) ELSE rows[x]],
         \A x \in PlaneBatch(c) :
           /\ SeenOf(c, x) = NoRow <=> rows[x] = NoRow
           /\ ConflictAborts => rows[x] = SeenOf(c, x),
         call' = CallsAfter(s, PlaneBatch(c))
  PROVE  Plane!CommitCall(s) \/ UNCHANGED <<rows, ever, Plane!vars>>
  <1> DEFINE batch == PlaneBatch(c)
             calls == [t \in Sessions |-> PlaneCall(call[t])]
             table == [x \in Sources |-> PlaneRow(rows[x])]
             d == PlaneCall(c)
  <1>1. /\ TypeOK /\ Remembered
        /\ c \in {Idle} \cup MapCall \cup ReviewCall
    BY DEF PlaneInv, TypeInv, TypeOK
  <1>2. /\ batch \in SUBSET Sources
        /\ \A x \in batch : /\ SeenOf(c, x) \in Row \cup {NoRow}
                            /\ NewOf(c, x) \in Row
                            /\ rows[x] \in Row \cup {NoRow}
    BY <1>1, PlaneBatchType DEF TypeOK
  <1>3. calls' = [calls EXCEPT ![s] = Idle]
    <2>1. \A t \in Sessions \ {s} : PlaneCall(call'[t]) = PlaneCall(call[t])
      BY <1>1, <1>2, PlaneCallKept
    <2>2. call'[s] = Idle
      BY <1>1, <1>2, CallsAfterType
    <2>3. QED
      BY <2>1, <2>2, IdleWritesNothing
  <1>4. CASE batch = {}
    <2>1. rows' = rows
      BY <1>1, <1>4 DEF TypeOK
    <2>2. ever' = ever
      BY <1>1, <2>1, RowsKeptEverKept
    <2>3. calls[s] = Idle
      BY <1>4, PlaneCallIs
    <2>4. calls' = calls
      BY <1>3, <2>3
    <2>5. QED
      BY <2>1, <2>2, <2>4 DEF Plane!vars
  <1>5. CASE batch # {}
    <2>1. /\ d.step = "write" /\ calls[s] = d
          /\ \A x \in Sources :
               /\ d.seen[x] = IF x \in batch THEN PlaneRow(SeenOf(c, x)) ELSE NoRow
               /\ d.new[x] = IF x \in batch THEN PlaneRow(NewOf(c, x)) ELSE NoRow
      BY <1>5, PlaneCallIs
    <2>2. Plane!Batch(d) = batch
      BY <1>2, <2>1, PlaneRowType DEF Plane!Batch
    <2>3. \A x \in batch : Plane!MayWrite(table[x], d.seen[x])
      <3> TAKE x \in batch
      <3>1. /\ table[x] = PlaneRow(rows[x])
            /\ d.seen[x] = PlaneRow(SeenOf(c, x))
        BY <1>2, <2>1
      <3>2. d.seen[x] = NoRow => table[x] = NoRow
        BY <1>2, <3>1, PlaneRowType
      <3>3. ConflictAborts => table[x] = d.seen[x]
        BY <3>1
      <3>4. QED
        BY <3>2, <3>3 DEF Plane!MayWrite
    <2>4. \A x \in Sources : Plane!RowAfter(d, x) = PlaneRow(rows'[x])
      <3> TAKE x \in Sources
      <3>1. CASE x \in batch
        <4>1. rows'[x] = Upsert(rows[x], SeenOf(c, x), NewOf(c, x))
          BY <3>1
        <4>2. PlaneRow(rows'[x]) =
                Plane!Upsert(PlaneRow(rows[x]), PlaneRow(SeenOf(c, x)),
                             PlaneRow(NewOf(c, x)))
          BY <1>2, <3>1, <4>1, PlaneUpsert
        <4>3. Plane!RowAfter(d, x) = Plane!Upsert(table[x], d.seen[x], d.new[x])
          BY <2>2, <3>1 DEF Plane!RowAfter
        <4>4. QED
          BY <2>1, <3>1, <4>2, <4>3
      <3>2. CASE x \notin batch
        <4>1. rows'[x] = rows[x]
          BY <3>2
        <4>2. Plane!RowAfter(d, x) = table[x]
          BY <2>2, <3>2 DEF Plane!RowAfter
        <4>3. QED
          BY <4>1, <4>2
      <3>3. QED
        BY <3>1, <3>2
    <2>5. table' = [x \in Sources |-> Plane!RowAfter(d, x)]
      BY <2>4
    <2>6. ever' = [x \in Sources |->
                     ever[x] \cup Plane!TargetOf(Plane!RowAfter(d, x))]
      BY <2>4 DEF Remember
    <2>7. Plane!CommitCall(s)
      BY <1>3, <2>1, <2>2, <2>3, <2>5, <2>6 DEF Plane!CommitCall, Plane!Idle, Idle
    <2>8. QED
      BY <2>7
  <1>6. QED
    BY <1>4, <1>5

\* Step by step: a commit of the data plane, or a step that writes nothing and
\* is one of the data plane too.
PlaneStep ==
  \/ \E s \in Sessions : Plane!CommitCall(s)
  \/ UNCHANGED <<rows, ever>> /\ (Plane!Next \/ UNCHANGED Plane!vars)

LEMMA PlaneMapStep ==
  ASSUME PlaneInv, Remember, NEW s \in Sessions, CommitMap(s)
  PROVE  PlaneStep
  <1> DEFINE c == call[s]
  <1>1. /\ TypeInv /\ TypeOK /\ c.step = "map" /\ c # Idle
        /\ MayWrite(Written(c), c.seen, c.stale)
        /\ rows' = [x \in Sources |->
                      IF x \in Written(c)
                      THEN Upsert(rows[x], c.seen[x], Decision(c.batch[x]))
                      ELSE rows[x]]
        /\ call' = CallsAfter(s, Written(c))
    BY DEF PlaneInv, TypeInv, CommitMap, Idle
  <1>2. /\ PlaneBatch(c) = Written(c)
        /\ \A x : SeenOf(c, x) = c.seen[x] /\ NewOf(c, x) = Decision(c.batch[x])
    BY <1>1 DEF PlaneBatch, SeenOf, NewOf
  <1>3. ASSUME NEW x \in Written(c)
        PROVE  /\ c.seen[x] = NoRow <=> rows[x] = NoRow
               /\ ConflictAborts => rows[x] = c.seen[x]
    <2>1. x \in Sources /\ c.batch[x] # Skip
      BY <1>1, <1>3, WrittenType
    <2>2. c.seen[x] = NoRow => rows[x] = NoRow
      BY <1>1 DEF MayWrite
    <2>3. c.seen[x] # NoRow => rows[x] # NoRow
      BY <1>1, <2>1 DEF TypeInv, SeenStays
    <2>4. ASSUME ConflictAborts PROVE rows[x] = c.seen[x]
      <3>1. SeenCurrent /\ x \notin c.stale
        BY <1>1, <2>4 DEF PlaneInv, WholeInv, MayWrite
      <3>2. QED
        BY <1>1, <2>1, <3>1 DEF SeenCurrent
    <2>5. QED
      BY <2>2, <2>3, <2>4
  <1> HIDE DEF c
  <1>4. c = call[s]
    BY DEF c
  <1>5. Plane!CommitCall(s) \/ UNCHANGED <<rows, ever, Plane!vars>>
    <2>1. rows' = [x \in Sources |->
                     IF x \in PlaneBatch(c)
                     THEN Upsert(rows[x], SeenOf(c, x), NewOf(c, x)) ELSE rows[x]]
      BY <1>1, <1>2
    <2>2. \A x \in PlaneBatch(c) :
            /\ SeenOf(c, x) = NoRow <=> rows[x] = NoRow
            /\ ConflictAborts => rows[x] = SeenOf(c, x)
      BY <1>2, <1>3
    <2>3. call' = CallsAfter(s, PlaneBatch(c))
      BY <1>1, <1>2
    <2>4. QED
      BY <1>1, <1>4, <2>1, <2>2, <2>3, PlaneCommits
  <1>6. QED
    BY <1>5 DEF PlaneStep

LEMMA PlaneReviewStep ==
  ASSUME PlaneInv, Remember, NEW s \in Sessions, CommitReview(s)
  PROVE  PlaneStep
  <1> DEFINE c == call[s]
  <1>1. /\ TypeInv /\ TypeOK /\ c.step = "review" /\ c # Idle
        /\ c \in ReviewCall /\ c.source \in Sources
        /\ MayWrite({c.source}, [y \in {c.source} |-> c.seen], c.stale)
        /\ rows' = [rows EXCEPT
                      ![c.source] = Upsert(rows[c.source], c.seen, Reviewed(c.target))]
        /\ call' = CallsAfter(s, {c.source})
    BY CallTypes DEF PlaneInv, TypeInv, CommitReview, Idle, ReviewCall
  <1>2. /\ PlaneBatch(c) = {c.source}
        /\ \A x : SeenOf(c, x) = c.seen /\ NewOf(c, x) = Reviewed(c.target)
    BY <1>1 DEF PlaneBatch, SeenOf, NewOf
  <1>3. /\ c.seen = NoRow <=> rows[c.source] = NoRow
        /\ ConflictAborts => rows[c.source] = c.seen
    <2>1. c.seen = NoRow => rows[c.source] = NoRow
      BY <1>1 DEF MayWrite
    <2>2. c.seen # NoRow => rows[c.source] # NoRow
      BY <1>1 DEF TypeInv, SeenStays
    <2>3. ASSUME ConflictAborts PROVE rows[c.source] = c.seen
      <3>1. SeenCurrent /\ c.source \notin c.stale
        BY <1>1, <2>3 DEF PlaneInv, WholeInv, MayWrite
      <3>2. QED
        BY <1>1, <3>1 DEF SeenCurrent
    <2>4. QED
      BY <2>1, <2>2, <2>3
  <1> HIDE DEF c
  <1>4. c = call[s]
    BY DEF c
  <1>5. Plane!CommitCall(s) \/ UNCHANGED <<rows, ever, Plane!vars>>
    <2>1. rows' = [x \in Sources |->
                     IF x \in PlaneBatch(c)
                     THEN Upsert(rows[x], SeenOf(c, x), NewOf(c, x)) ELSE rows[x]]
      BY <1>1, <1>2 DEF TypeOK
    <2>2. \A x \in PlaneBatch(c) :
            /\ SeenOf(c, x) = NoRow <=> rows[x] = NoRow
            /\ ConflictAborts => rows[x] = SeenOf(c, x)
      BY <1>2, <1>3
    <2>3. call' = CallsAfter(s, PlaneBatch(c))
      BY <1>1, <1>2
    <2>4. QED
      BY <1>1, <1>4, <2>1, <2>2, <2>3, PlaneCommits
  <1>6. QED
    BY <1>5 DEF PlaneStep

LEMMA PlaneFailStep ==
  ASSUME PlaneInv, Remember, NEW s \in Sessions, FailCall(s)
  PROVE  PlaneStep
  <1> DEFINE calls == [t \in Sessions |-> PlaneCall(call[t])]
  <1>1. /\ UNCHANGED <<rows, ever>>
        /\ call' = [call EXCEPT ![s] = Idle]
    BY RowsKeptEverKept DEF FailCall, PlaneInv
  <1>2. calls' = [calls EXCEPT ![s] = Idle]
    BY <1>1, IdleWritesNothing DEF PlaneInv, TypeInv, TypeOK
  <1>3. CASE calls[s] = Idle
    <2>1. calls' = calls
      BY <1>2, <1>3
    <2>2. QED
      BY <1>1, <2>1 DEF PlaneStep, Plane!vars
  <1>4. CASE calls[s] # Idle
    <2>1. Plane!FailCall(s)
      BY <1>1, <1>2, <1>4 DEF Plane!FailCall, Plane!Idle, Idle
    <2>2. QED
      BY <1>1, <2>1 DEF PlaneStep, Plane!Next, Plane!Step
  <1>5. QED
    BY <1>3, <1>4

LEMMA PlaneStepIs ==
  ASSUME PlaneInv, Remember, NEW s \in Sessions, Step(s)
  PROVE  PlaneStep
  <1>1. TypeOK
    BY DEF PlaneInv, TypeInv
  <1>2. ASSUME NEW batch \in [Sources -> Outcomes], NEW alone \in BOOLEAN,
               BeginMap(s, batch, alone)
        PROVE  PlaneStep
    <2> DEFINE c == [step  |-> "map", batch |-> batch, alone |-> alone,
                     seen  |-> [x \in Sources |->
                                  IF batch[x] = Skip THEN NoRow ELSE rows[x]],
                     stale |-> {}]
    <2>1. /\ call[s] = Idle /\ call' = [call EXCEPT ![s] = c]
          /\ UNCHANGED rows
      BY <1>2 DEF BeginMap
    <2>2. c \in MapCall
      BY <1>1 DEF MapCall, TypeOK
    <2>3. PlaneBatch(c) = Written(c)
      BY DEF PlaneBatch
    <2>4. \A x \in Written(c) : x \in Sources /\ batch[x] # Skip
      BY DEF Written
    <2>5. \A x \in PlaneBatch(c) : SeenOf(c, x) = rows[x]
      BY <2>3, <2>4 DEF SeenOf
    <2>6. UNCHANGED <<rows, ever>>
      BY <2>1, RowsKeptEverKept DEF PlaneInv
    <2> HIDE DEF c
    <2>7. Plane!Next \/ UNCHANGED Plane!vars
      BY <1>1, <2>1, <2>2, <2>5, <2>6, PlaneBegins
    <2>8. QED
      BY <2>6, <2>7 DEF PlaneStep
  <1>3. ASSUME NEW x \in Sources, NEW t \in Targets, BeginReview(s, x, t)
        PROVE  PlaneStep
    <2> DEFINE c == [step |-> "review", source |-> x, target |-> t,
                     seen |-> rows[x], closing |-> Open(x), stale |-> {}]
    <2>1. /\ call[s] = Idle /\ call' = [call EXCEPT ![s] = c]
          /\ UNCHANGED rows
      BY <1>3 DEF BeginReview
    <2>2. c \in ReviewCall
      BY <1>1 DEF ReviewCall, TypeOK, Open
    <2>3. PlaneBatch(c) = {x}
      BY DEF PlaneBatch
    <2>4. \A y \in PlaneBatch(c) : SeenOf(c, y) = rows[y]
      BY <2>3 DEF SeenOf
    <2>5. UNCHANGED <<rows, ever>>
      BY <2>1, RowsKeptEverKept DEF PlaneInv
    <2> HIDE DEF c
    <2>6. Plane!Next \/ UNCHANGED Plane!vars
      BY <1>1, <2>1, <2>2, <2>4, <2>5, PlaneBegins
    <2>7. QED
      BY <2>5, <2>6 DEF PlaneStep
  <1>4. QED
    BY <1>2, <1>3, StepCases, PlaneMapStep, PlaneReviewStep, PlaneFailStep

LEMMA PlaneInvStep == PlaneInv /\ [PlaneNext]_planeVars => PlaneInv'
  <1> SUFFICES ASSUME PlaneInv, [PlaneNext]_planeVars PROVE PlaneInv'
    OBVIOUS
  <1>1. TypeInv /\ [Next]_vars
    BY DEF PlaneInv, PlaneNext, planeVars, vars
  <1>2. TypeInv' /\ (ConflictAborts => WholeInv')
    BY <1>1, TypeStep, WholeStep DEF PlaneInv
  <1>3. Remembered'
    <2>1. CASE PlaneNext
      <3>1. ASSUME NEW x \in Sources
            PROVE  Plane!TargetOf(PlaneRow(rows'[x])) \in SUBSET Targets
        BY <1>2, PlaneTargetType DEF TypeInv, TypeOK
      <3>2. QED
        BY <2>1, <3>1 DEF PlaneNext, Remember, PlaneInv, Remembered
    <2>2. CASE UNCHANGED planeVars
      BY <2>2 DEF planeVars, PlaneInv, Remembered
    <2>3. QED
      BY <2>1, <2>2
  <1>4. QED
    BY <1>2, <1>3 DEF PlaneInv

LEMMA PlaneStepCases ==
  PlaneInv /\ [PlaneNext]_planeVars => PlaneStep
  <1> SUFFICES ASSUME PlaneInv, [PlaneNext]_planeVars PROVE PlaneStep
    OBVIOUS
  <1>1. CASE PlaneNext
    BY <1>1, PlaneStepIs DEF PlaneNext, Next
  <1>2. CASE UNCHANGED planeVars
    BY <1>2 DEF planeVars, PlaneStep, Plane!vars
  <1>3. QED
    BY <1>1, <1>2

\* The history adds nothing: what is proved of UserMapping holds with it.
LEMMA HistoryIsHistory == PlaneSpec => Spec
  <1>1. PlaneInit => Init
    BY DEF PlaneInit
  <1>2. [PlaneNext]_planeVars => [Next]_vars
    BY DEF PlaneNext, planeVars, vars
  <1>3. QED
    BY <1>1, <1>2, PTL DEF PlaneSpec, Spec

\* users_map, resolve_user_mapping and users_review, any number at a time and
\* over either kind of database, do to the user rows only what the data plane
\* takes a call about users to do.
THEOREM UsersImplementDataPlane == PlaneSpec => ImplementsDataPlane
  <1>1. PlaneInit => Plane!Init
    BY IdleWritesNothing DEF PlaneInit, Init, Plane!Init, Plane!Idle, Idle, PlaneRow
  <1>2. PlaneInv /\ [PlaneNext]_planeVars => [Plane!Next]_Plane!vars
    BY PlaneStepCases DEF PlaneStep, Plane!Next, Plane!Step
  <1>3. QED
    BY <1>1, <1>2, PlaneInvInit, PlaneInvStep, PTL
       DEF PlaneSpec, ImplementsDataPlane, Plane!Spec

\* In particular a user row only changes from what the call that writes it has
\* read and decided.
THEOREM UserChangesAreCommits == PlaneSpec => ChangesAsDataPlane
  <1>1. PlaneInv /\ [PlaneNext]_planeVars =>
          [\E s \in Sessions : Plane!CommitCall(s)]_<<rows, ever>>
    BY PlaneStepCases DEF PlaneStep
  <1>2. QED
    BY <1>1, PlaneInvInit, PlaneInvStep, PTL DEF PlaneSpec, ChangesAsDataPlane
==============================================================================
