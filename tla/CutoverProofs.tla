---------------------------- MODULE CutoverProofs ----------------------------
(***************************************************************************)
(* Proofs about Cutover for every portal, every limit of the listing and   *)
(* every number of callers.                                                *)
(***************************************************************************)
EXTENDS Cutover, NumberInduction, FiniteSetTheorems, SequenceTheorems

(* The pass over a list *)

Start == [seen |-> {}, conflicts |-> 0]

Accs == [seen : SUBSET Entities, conflicts : Nat]

LEMMA VisitType ==
  ASSUME NEW acc \in Accs, NEW e \in Entities
  PROVE  Visit(acc, e) \in Accs
  BY DEF Visit, Accs

\* The pass is what its definition says, for a list of any length.
LEMMA PassedDef ==
  ASSUME NEW list \in Seq(Entities)
  PROVE  /\ Passed(list)[0] = Start
         /\ \A i \in 1 .. Len(list) :
              Passed(list)[i] = Visit(Passed(list)[i - 1], list[i])
  <1> DEFINE Rows == [i \in 1 .. Len(list) |-> [acc \in Accs |-> Visit(acc, list[i])]]
             Defines(f) == f = [i \in 0 .. Len(list) |->
                                  IF i = 0 THEN [seen |-> {}, conflicts |-> 0]
                                  ELSE Visit(f[i - 1], list[i])]
  <1>1. Len(list) \in Nat /\ Start \in Accs
    BY DEF Start, Accs
  <1>2. Rows \in [1 .. Len(list) -> [Accs -> Accs]]
    BY VisitType
  <1>3. \E f : Steps(f, Accs, Start, Len(list), Rows)
    <2> HIDE DEF Rows
    <2>1. QED
      BY <1>1, <1>2, RecursiveFunction
  <1>4. PICK f : /\ f \in [0 .. Len(list) -> Accs]
                 /\ f[0] = Start
                 /\ \A i \in 1 .. Len(list) : f[i] = Rows[i][f[i - 1]]
    BY <1>3 DEF Steps
  <1>5. \A i \in 1 .. Len(list) : f[i] = Visit(f[i - 1], list[i])
    <2> SUFFICES ASSUME NEW i \in 1 .. Len(list) PROVE f[i] = Visit(f[i - 1], list[i])
      OBVIOUS
    <2>1. f[i - 1] \in Accs
      BY <1>1, <1>4
    <2>2. QED
      BY <1>4, <2>1
  <1>6. Defines(f)
    BY <1>1, <1>4, <1>5 DEF Start
  <1>7. Defines(Passed(list))
    <2>1. Passed(list) = CHOOSE g : Defines(g)
      BY DEF Passed
    <2> HIDE DEF Defines
    <2>2. QED
      BY <1>6, <2>1
  <1>8. Passed(list)[0] = Start
    <2>1. 0 \in 0 .. Len(list)
      BY <1>1
    <2>2. QED
      BY <1>7, <2>1 DEF Start
  <1>9. ASSUME NEW i \in 1 .. Len(list)
        PROVE  Passed(list)[i] = Visit(Passed(list)[i - 1], list[i])
    <2>1. i \in 0 .. Len(list) /\ i # 0
      BY <1>1
    <2>2. QED
      BY <1>7, <2>1
  <1>10. QED
    BY <1>8, <1>9
-----------------------------------------------------------------------------
(* What the pass keeps and counts *)

Distinct(list) == \A i, j \in DOMAIN list : list[i] = list[j] => i = j

\* The bound rows among the first n of the list, by their place and by source.
BoundAt(list, n) == {i \in 1 .. n : rows[list[i]].status = "resolved"}

BoundIn(list, n) == {list[i] : i \in BoundAt(list, n)}

\* Those of them that Overlooked counts in the whole list.
LostAt(list, n) ==
  {j \in BoundAt(list, n) :
     /\ list[j] \in Blank
     /\ ~\E k \in BoundAt(list, n) : k < j /\ SameBinding(list[k], list[j])
     /\ \E k \in BoundAt(list, n) : k > j /\ SameBinding(list[k], list[j])}

LostIn(list, n) == {list[i] : i \in LostAt(list, n)}

\* Of the bound sources, one is kept for every type and target, a blank one as
\* long as it is alone there; the others are the conflicts and the lost ones.
KeepsFirst(acc, bound, lost) ==
  /\ acc \in Accs
  /\ IsFiniteSet(bound)
  /\ acc.seen \subseteq bound /\ lost \subseteq bound
  /\ acc.seen \cap lost = {}
  /\ \A e \in bound : \E f \in acc.seen : SameBinding(e, f)
  /\ \A e, f \in acc.seen : SameBinding(e, f) => e = f
  /\ \A e \in acc.seen \cap Blank : \A f \in bound : SameBinding(e, f) => e = f
  /\ acc.conflicts + Cardinality(acc.seen) + Cardinality(lost) = Cardinality(bound)

LEMMA SameBindingIsEquality ==
  /\ \A e : SameBinding(e, e)
  /\ \A e, f : SameBinding(e, f) => SameBinding(f, e)
  /\ \A e, f, g : SameBinding(e, f) /\ SameBinding(f, g) => SameBinding(e, g)
  BY DEF SameBinding

LEMMA VisitKeepsFirst ==
  ASSUME NEW acc, NEW bound, NEW lost, KeepsFirst(acc, bound, lost),
         NEW e \in Entities, e \notin bound, rows[e].status = "resolved"
  PROVE  /\ \A f \in acc.seen \cap Blank : SameBinding(e, f) =>
              KeepsFirst(Visit(acc, e), bound \cup {e}, lost \cup {f})
         /\ (~\E f \in acc.seen \cap Blank : SameBinding(e, f)) =>
              KeepsFirst(Visit(acc, e), bound \cup {e}, lost)
  <1>1. /\ acc \in Accs /\ IsFiniteSet(bound)
        /\ acc.seen \subseteq bound /\ lost \subseteq bound
        /\ acc.conflicts \in Nat
        /\ acc.conflicts + Cardinality(acc.seen) + Cardinality(lost)
             = Cardinality(bound)
    BY DEF KeepsFirst, Accs
  <1>2. /\ IsFiniteSet(acc.seen) /\ Cardinality(acc.seen) \in Nat /\ e \notin acc.seen
        /\ IsFiniteSet(lost) /\ Cardinality(lost) \in Nat /\ e \notin lost
    BY <1>1, FS_Subset, FS_CardinalityType
  <1>3. /\ IsFiniteSet(bound \cup {e})
        /\ Cardinality(bound \cup {e}) = Cardinality(bound) + 1
    BY <1>1, FS_AddElement
  <1>4. Visit(acc, e) \in Accs
    BY <1>1, VisitType
  <1>5. ASSUME NEW f \in acc.seen \ Blank, SameBinding(e, f)
        PROVE  /\ KeepsFirst(Visit(acc, e), bound \cup {e}, lost)
               /\ ~\E g \in acc.seen \cap Blank : SameBinding(e, g)
    <2>1. /\ Visit(acc, e).seen = acc.seen
          /\ Visit(acc, e).conflicts = acc.conflicts + 1
      BY <1>1, <1>2, <1>5 DEF Visit, Accs
    <2>2. ~\E g \in acc.seen \cap Blank : SameBinding(e, g)
      BY <1>5, SameBindingIsEquality DEF KeepsFirst
    <2>3. \A d \in bound \cup {e} : \E g \in acc.seen : SameBinding(d, g)
      BY <1>5 DEF KeepsFirst
    <2>4. \A g \in acc.seen \cap Blank : \A d \in bound \cup {e} :
            SameBinding(g, d) => g = d
      BY <2>2, SameBindingIsEquality DEF KeepsFirst
    <2>5. (acc.conflicts + 1) + Cardinality(acc.seen) + Cardinality(lost)
            = Cardinality(bound) + 1
      BY <1>1, <1>2
    <2>6. QED
      BY <1>1, <1>3, <1>4, <2>1, <2>2, <2>3, <2>4, <2>5 DEF KeepsFirst
  <1>6. ASSUME NEW f \in acc.seen \cap Blank, SameBinding(e, f)
        PROVE  KeepsFirst(Visit(acc, e), bound \cup {e}, lost \cup {f})
    <2> DEFINE kept == (acc.seen \ {f}) \cup {e}
    <2>1. e \notin Blank
      BY <1>2, <1>6, CutoverAssumption DEF SameBinding
    <2>2. \A g \in acc.seen : SameBinding(e, g) <=> g = f
      BY <1>6, SameBindingIsEquality DEF KeepsFirst
    <2>3. Visit(acc, e).seen = kept /\ Visit(acc, e).conflicts = acc.conflicts
      <3>1. ~\E g \in acc.seen \ Blank : SameBinding(e, g) /\ e # g
        BY <1>6, <2>2
      <3>2. {g \in acc.seen : ~SameBinding(e, g)} = acc.seen \ {f}
        BY <2>2
      <3>3. QED
        BY <1>1, <3>1, <3>2 DEF Visit, Accs
    <2>4. Cardinality(kept) = Cardinality(acc.seen)
      <3>1. /\ IsFiniteSet(acc.seen \ {f})
            /\ Cardinality(acc.seen \ {f}) = Cardinality(acc.seen) - 1
        BY <1>2, <1>6, FS_RemoveElement
      <3>2. Cardinality((acc.seen \ {f}) \cup {e}) = Cardinality(acc.seen \ {f}) + 1
        BY <1>2, <3>1, FS_AddElement
      <3>3. QED
        BY <1>2, <3>1, <3>2
    <2>5. f \notin lost /\ Cardinality(lost \cup {f}) = Cardinality(lost) + 1
      <3>1. f \notin lost
        BY <1>6 DEF KeepsFirst
      <3>2. QED
        BY <1>2, <3>1, FS_AddElement
    <2>6. \A d \in bound \cup {e} : \E g \in kept : SameBinding(d, g)
      <3> SUFFICES ASSUME NEW d \in bound \cup {e} PROVE \E g \in kept : SameBinding(d, g)
        OBVIOUS
      <3>1. CASE d = e
        BY <3>1, SameBindingIsEquality
      <3>2. CASE d \in bound
        <4>1. PICK g \in acc.seen : SameBinding(d, g)
          BY <3>2 DEF KeepsFirst
        <4>2. CASE g = f
          BY <1>6, <4>1, <4>2, SameBindingIsEquality
        <4>3. CASE g # f
          BY <4>1, <4>3
        <4>4. QED
          BY <4>2, <4>3
      <3>3. QED
        BY <3>1, <3>2
    <2>7. \A d, g \in kept : SameBinding(d, g) => d = g
      BY <2>2, SameBindingIsEquality DEF KeepsFirst
    <2>8. \A g \in kept \cap Blank : \A d \in bound \cup {e} :
            SameBinding(g, d) => g = d
      BY <2>1, <2>2, SameBindingIsEquality DEF KeepsFirst
    <2>9. acc.conflicts + Cardinality(kept) + Cardinality(lost \cup {f})
            = Cardinality(bound) + 1
      BY <1>1, <1>2, <2>4, <2>5
    <2>10. /\ kept \subseteq bound \cup {e} /\ lost \cup {f} \subseteq bound \cup {e}
           /\ kept \cap (lost \cup {f}) = {}
      BY <1>1, <1>2, <1>6 DEF KeepsFirst
    <2> HIDE DEF kept
    <2>11. QED
      BY <1>3, <1>4, <2>3, <2>6, <2>7, <2>8, <2>9, <2>10 DEF KeepsFirst
  <1>7. ASSUME ~\E f \in acc.seen : SameBinding(e, f)
        PROVE  KeepsFirst(Visit(acc, e), bound \cup {e}, lost)
    <2>1. /\ Visit(acc, e).seen = acc.seen \cup {e}
          /\ Visit(acc, e).conflicts = acc.conflicts
      <3>1. {g \in acc.seen : ~SameBinding(e, g)} = acc.seen
        BY <1>7
      <3>2. QED
        BY <1>1, <1>7, <3>1 DEF Visit, Accs
    <2>2. Cardinality(acc.seen \cup {e}) = Cardinality(acc.seen) + 1
      BY <1>2, FS_AddElement
    <2>3. \A d \in bound \cup {e} : \E f \in acc.seen \cup {e} : SameBinding(d, f)
      BY SameBindingIsEquality DEF KeepsFirst
    <2>4. \A d, f \in acc.seen \cup {e} : SameBinding(d, f) => d = f
      BY <1>7, SameBindingIsEquality DEF KeepsFirst
    <2>5. \A d \in bound : ~SameBinding(e, d)
      BY <1>7, SameBindingIsEquality DEF KeepsFirst
    <2>6. \A g \in (acc.seen \cup {e}) \cap Blank : \A d \in bound \cup {e} :
            SameBinding(g, d) => g = d
      BY <1>7, <2>5, SameBindingIsEquality DEF KeepsFirst
    <2>7. acc.conflicts + (Cardinality(acc.seen) + 1) + Cardinality(lost)
            = Cardinality(bound) + 1
      BY <1>1, <1>2
    <2>8. /\ acc.seen \cup {e} \subseteq bound \cup {e} /\ lost \subseteq bound \cup {e}
          /\ (acc.seen \cup {e}) \cap lost = {}
      BY <1>1, <1>2 DEF KeepsFirst
    <2>9. QED
      BY <1>3, <1>4, <2>1, <2>2, <2>3, <2>4, <2>6, <2>7, <2>8 DEF KeepsFirst
  <1>8. QED
    BY <1>5, <1>6, <1>7

\* A visit of the row after the first n loses the blank source it replaces, and
\* no other.
LEMMA LostGrows ==
  ASSUME NEW list \in Seq(Entities), Distinct(list),
         NEW n \in 0 .. Len(list) - 1, NEW acc,
         KeepsFirst(acc, BoundIn(list, n), LostIn(list, n)),
         rows[list[n + 1]].status = "resolved"
  PROVE  /\ \A f \in acc.seen \cap Blank : SameBinding(list[n + 1], f) =>
              LostIn(list, n + 1) = LostIn(list, n) \cup {f}
         /\ (~\E f \in acc.seen \cap Blank : SameBinding(list[n + 1], f)) =>
              LostIn(list, n + 1) = LostIn(list, n)
  <1> DEFINE e == list[n + 1]
  <1>1. /\ DOMAIN list = 1 .. Len(list) /\ n \in Nat /\ n + 1 \in 1 .. Len(list)
        /\ 1 .. n + 1 = 1 .. n \cup {n + 1}
        /\ \A j \in 1 .. n : j < n + 1 /\ j \in DOMAIN list
    OBVIOUS
  <1>2. BoundAt(list, n + 1) = BoundAt(list, n) \cup {n + 1}
    BY <1>1 DEF BoundAt
  <1>3. BoundAt(list, n) \subseteq 1 .. n
    BY DEF BoundAt
  <1>4. LostAt(list, n) \subseteq LostAt(list, n + 1)
    <2> SUFFICES ASSUME NEW q \in LostAt(list, n) PROVE q \in LostAt(list, n + 1)
      OBVIOUS
    <2>1. q \in BoundAt(list, n) /\ ~ n + 1 < q
      BY <1>1, <1>3 DEF LostAt
    <2>2. QED
      BY <1>2, <2>1 DEF LostAt
  <1>5. ASSUME NEW q \in LostAt(list, n + 1) \ LostAt(list, n)
        PROVE  /\ q \in BoundAt(list, n) /\ list[q] \in Blank
               /\ SameBinding(e, list[q])
               /\ ~\E k \in BoundAt(list, n) : k # q /\ SameBinding(list[k], list[q])
    <2>1. ~\E k \in BoundAt(list, n + 1) : k > n + 1
      BY <1>1, <1>2, <1>3
    <2>2. q # n + 1
      BY <2>1 DEF LostAt
    <2>3. q \in BoundAt(list, n) /\ list[q] \in Blank
      BY <1>2, <2>2 DEF LostAt
    <2>4. ~\E k \in BoundAt(list, n) : k < q /\ SameBinding(list[k], list[q])
      BY <1>2 DEF LostAt
    <2>5. ~\E k \in BoundAt(list, n) : k > q /\ SameBinding(list[k], list[q])
      BY <2>3, <2>4 DEF LostAt
    <2>6. SameBinding(e, list[q])
      BY <1>2, <2>5 DEF LostAt
    <2>7. \A k \in BoundAt(list, n) : k # q => k < q \/ k > q
      BY <1>3, <2>3
    <2>8. QED
      BY <2>3, <2>4, <2>5, <2>6, <2>7
  <1>6. ASSUME NEW f \in acc.seen \cap Blank, SameBinding(e, f)
        PROVE  LostIn(list, n + 1) = LostIn(list, n) \cup {f}
    <2>1. f \in BoundIn(list, n)
      BY DEF KeepsFirst
    <2>2. PICK p \in BoundAt(list, n) : list[p] = f
      BY <2>1 DEF BoundIn
    <2>3. \A k \in BoundAt(list, n) : SameBinding(list[k], f) => k = p
      <3> SUFFICES ASSUME NEW k \in BoundAt(list, n), SameBinding(list[k], f)
                   PROVE  k = p
        OBVIOUS
      <3>1. list[k] \in BoundIn(list, n) /\ SameBinding(f, list[k])
        BY SameBindingIsEquality DEF BoundIn
      <3>2. list[k] = f
        BY <1>6, <3>1 DEF KeepsFirst
      <3>3. QED
        BY <1>1, <1>3, <2>2, <3>2 DEF Distinct
    <2>4. p \in LostAt(list, n + 1)
      <3>1. p < n + 1 /\ p \in BoundAt(list, n + 1) /\ n + 1 \in BoundAt(list, n + 1)
        BY <1>1, <1>2, <1>3
      <3>2. ~\E k \in BoundAt(list, n + 1) : k < p /\ SameBinding(list[k], list[p])
        <4> SUFFICES ASSUME NEW k \in BoundAt(list, n + 1), k < p,
                            SameBinding(list[k], list[p])
                     PROVE  FALSE
          OBVIOUS
        <4>1. p \in 1 .. n /\ k # n + 1
          BY <1>1, <1>3
        <4>2. k \in BoundAt(list, n)
          BY <1>2, <4>1
        <4>3. k = p
          BY <2>2, <2>3, <4>2
        <4>4. QED
          BY <4>1, <4>3
      <3>3. \E k \in BoundAt(list, n + 1) : k > p /\ SameBinding(list[k], list[p])
        BY <1>6, <2>2, <3>1
      <3>4. QED
        BY <1>6, <2>2, <3>1, <3>2, <3>3 DEF LostAt
    <2>5. \A q \in LostAt(list, n + 1) \ LostAt(list, n) : q = p
      <3> SUFFICES ASSUME NEW q \in LostAt(list, n + 1) \ LostAt(list, n) PROVE q = p
        OBVIOUS
      <3>1. q \in BoundAt(list, n) /\ SameBinding(e, list[q])
        BY <1>5
      <3>2. SameBinding(list[q], f)
        BY <1>6, <3>1, SameBindingIsEquality
      <3>3. QED
        BY <2>3, <3>1, <3>2
    <2>6. LostAt(list, n + 1) = LostAt(list, n) \cup {p}
      BY <1>4, <2>4, <2>5
    <2>7. QED
      BY <2>2, <2>6 DEF LostIn
  <1>7. ASSUME ~\E f \in acc.seen \cap Blank : SameBinding(e, f)
        PROVE  LostIn(list, n + 1) = LostIn(list, n)
    <2> SUFFICES ASSUME NEW q \in LostAt(list, n + 1) \ LostAt(list, n) PROVE FALSE
      BY <1>4 DEF LostIn
    <2>1. list[q] \in BoundIn(list, n)
      BY <1>5 DEF BoundIn
    <2>2. PICK f \in acc.seen : SameBinding(list[q], f)
      BY <2>1 DEF KeepsFirst
    <2>3. SameBinding(e, f)
      BY <1>5, <2>2, SameBindingIsEquality
    <2>4. f \notin Blank
      BY <1>7, <2>3
    <2>5. PICK k \in BoundAt(list, n) : list[k] = f
      BY <2>2 DEF KeepsFirst, BoundIn
    <2>6. k # q /\ SameBinding(list[k], list[q])
      BY <1>5, <2>2, <2>4, <2>5, SameBindingIsEquality
    <2>7. QED
      BY <1>5, <2>5, <2>6
  <1>8. QED
    BY <1>6, <1>7

LEMMA PassKeepsFirst ==
  ASSUME NEW list \in Seq(Entities), Distinct(list)
  PROVE  KeepsFirst(Passed(list)[Len(list)],
                    BoundIn(list, Len(list)), LostIn(list, Len(list)))
  <1> DEFINE Kept == {i \in 0 .. Len(list) :
                        KeepsFirst(Passed(list)[i], BoundIn(list, i), LostIn(list, i))}
  <1>1. Len(list) \in Nat
    OBVIOUS
  <1>2. 0 \in Kept
    <2>1. BoundIn(list, 0) = {} /\ LostIn(list, 0) = {}
      BY DEF BoundIn, LostIn, LostAt, BoundAt
    <2>2. KeepsFirst(Start, {}, {})
      BY FS_EmptySet DEF KeepsFirst, Start, Accs
    <2>3. KeepsFirst(Passed(list)[0], BoundIn(list, 0), LostIn(list, 0))
      BY <2>1, <2>2, PassedDef
    <2>4. QED
      BY <1>1, <2>3
  <1>3. ASSUME NEW i \in Kept, i \in 0 .. Len(list) - 1 PROVE i + 1 \in Kept
    <2> DEFINE e == list[i + 1]
               acc == Passed(list)[i]
    <2>1. i + 1 \in 1 .. Len(list) /\ e \in Entities
      BY <1>1, <1>3
    <2>2. Passed(list)[i + 1] = Visit(acc, e)
      BY <1>3, <2>1, PassedDef
    <2>3. \A j \in 1 .. i : list[j] # e
      BY <1>1, <1>3, <2>1 DEF Distinct
    <2>4. 1 .. i + 1 = 1 .. i \cup {i + 1}
      BY <1>3
    <2>5. KeepsFirst(acc, BoundIn(list, i), LostIn(list, i))
      OBVIOUS
    <2> HIDE DEF acc
    <2>6. CASE rows[e].status = "resolved"
      <3>1. BoundIn(list, i + 1) = BoundIn(list, i) \cup {e} /\ e \notin BoundIn(list, i)
        BY <2>3, <2>4, <2>6 DEF BoundIn, BoundAt
      <3>2. /\ \A f \in acc.seen \cap Blank : SameBinding(e, f) =>
                 KeepsFirst(Visit(acc, e), BoundIn(list, i) \cup {e},
                            LostIn(list, i) \cup {f})
            /\ (~\E f \in acc.seen \cap Blank : SameBinding(e, f)) =>
                 KeepsFirst(Visit(acc, e), BoundIn(list, i) \cup {e}, LostIn(list, i))
        BY <2>1, <2>5, <2>6, <3>1, VisitKeepsFirst
      <3>3. /\ \A f \in acc.seen \cap Blank : SameBinding(e, f) =>
                 LostIn(list, i + 1) = LostIn(list, i) \cup {f}
            /\ (~\E f \in acc.seen \cap Blank : SameBinding(e, f)) =>
                 LostIn(list, i + 1) = LostIn(list, i)
        BY <1>3, <2>5, <2>6, LostGrows
      <3>4. KeepsFirst(Visit(acc, e), BoundIn(list, i) \cup {e}, LostIn(list, i + 1))
        BY <3>2, <3>3
      <3>5. KeepsFirst(Passed(list)[i + 1], BoundIn(list, i + 1), LostIn(list, i + 1))
        BY <2>2, <3>1, <3>4
      <3>6. QED
        BY <2>1, <3>5
    <2>7. CASE rows[e].status # "resolved"
      <3>1. BoundAt(list, i + 1) = BoundAt(list, i)
        BY <2>4, <2>7 DEF BoundAt
      <3>2. BoundIn(list, i + 1) = BoundIn(list, i) /\ LostIn(list, i + 1) = LostIn(list, i)
        BY <3>1 DEF BoundIn, LostIn, LostAt
      <3>3. Passed(list)[i + 1] = acc
        BY <2>2, <2>7 DEF Visit
      <3>4. KeepsFirst(Passed(list)[i + 1], BoundIn(list, i + 1), LostIn(list, i + 1))
        BY <2>5, <3>2, <3>3
      <3>5. QED
        BY <2>1, <3>4
    <2>8. QED
      BY <2>6, <2>7
  <1>4. 0 .. Len(list) \subseteq Kept
    <2>1. \A i \in Kept : i \in 0 .. Len(list) - 1 => i + 1 \in Kept
      BY <1>3
    <2> HIDE DEF Kept
    <2>2. QED
      BY <1>1, <1>2, <2>1, UpTo
  <1>5. Len(list) \in 0 .. Len(list)
    BY <1>1
  <1>6. QED
    BY <1>4, <1>5
-----------------------------------------------------------------------------
(* The order of the rows *)

LEMMA LengthOfRest ==
  ASSUME NEW n \in Nat, NEW p \in 1 .. n
  PROVE  (IF p + 1 <= n THEN n - (p + 1) + 1 ELSE 0) = n - p
  OBVIOUS

LEMMA RemoveFirstEffect ==
  ASSUME NEW list \in Seq(Entities), Distinct(list), NEW e
  PROVE  /\ RemoveFirst(list, e) \in Seq(Entities)
         /\ Distinct(RemoveFirst(list, e))
         /\ ToSet(RemoveFirst(list, e)) = ToSet(list) \ {e}
  <1>1. DOMAIN list = 1 .. Len(list) /\ Len(list) \in Nat
    OBVIOUS
  <1>2. CASE ~\E i \in 1 .. Len(list) : list[i] = e
    <2>1. RemoveFirst(list, e) = list
      BY <1>2 DEF RemoveFirst
    <2>2. e \notin ToSet(list)
      BY <1>1, <1>2 DEF ToSet
    <2>3. QED
      BY <2>1, <2>2
  <1>3. ASSUME NEW p \in 1 .. Len(list), list[p] = e
        PROVE  /\ RemoveFirst(list, e) \in Seq(Entities)
               /\ Distinct(RemoveFirst(list, e))
               /\ ToSet(RemoveFirst(list, e)) = ToSet(list) \ {e}
    <2> DEFINE rest == SubSeq(list, 1, p - 1) \o SubSeq(list, p + 1, Len(list))
    <2>1. {i \in 1 .. Len(list) : list[i] = e} = {p}
      BY <1>1, <1>3 DEF Distinct
    <2>2. Min({p}) = p
      BY <1>3 DEF Min
    <2>3. RemoveFirst(list, e) = rest
      BY <1>3, <2>1, <2>2 DEF RemoveFirst, RemoveAt, SelectInSeq
    <2> DEFINE front == SubSeq(list, 1, p - 1)
               back == SubSeq(list, p + 1, Len(list))
    <2>4. /\ front \in Seq(Entities) /\ Len(front) = p - 1
          /\ \A i \in 1 .. p - 1 : front[i] = list[i]
      <3>1. p - 1 \in 0 .. Len(list)
        BY <1>1
      <3>2. QED
        BY <1>1, <3>1, SubSeqProperties
    <2>5. /\ back \in Seq(Entities) /\ Len(back) = Len(list) - p
          /\ \A i \in 1 .. Len(list) - p : back[i] = list[p + i]
      <3>1. \A i \in p + 1 .. Len(list) : list[i] \in Entities
        BY <1>1
      <3>2. /\ back \in Seq(Entities)
            /\ Len(back) = IF p + 1 <= Len(list) THEN Len(list) - (p + 1) + 1 ELSE 0
            /\ \A i \in 1 .. Len(list) - (p + 1) + 1 : back[i] = list[p + 1 + i - 1]
        BY <1>1, <3>1, SubSeqProperties
      <3> HIDE DEF back
      <3>3. Len(list) - (p + 1) + 1 = Len(list) - p
        BY <1>1
      <3>4. \A i \in 1 .. Len(list) - p : p + 1 + i - 1 = p + i
        OBVIOUS
      <3>5. Len(back) = Len(list) - p
        BY <1>1, <3>2, LengthOfRest
      <3>6. ASSUME NEW i \in 1 .. Len(list) - p PROVE back[i] = list[p + i]
        BY <3>2, <3>3, <3>4
      <3>7. QED
        BY <3>2, <3>5, <3>6
    <2> HIDE DEF front, back
    <2>6. /\ rest \in Seq(Entities) /\ Len(rest) = Len(list) - 1
          /\ DOMAIN rest = 1 .. Len(list) - 1
          /\ \A i \in 1 .. Len(list) - 1 :
               rest[i] = IF i < p THEN list[i] ELSE list[i + 1]
      <3>1. rest = front \o back
        BY DEF front, back
      <3>2. /\ front \o back \in Seq(Entities)
            /\ Len(front \o back) = Len(front) + Len(back)
            /\ \A i \in 1 .. Len(front) + Len(back) :
                 (front \o back)[i] = IF i <= Len(front) THEN front[i]
                                     ELSE back[i - Len(front)]
        BY <2>4, <2>5, ConcatProperties
      <3> HIDE DEF rest
      <3>3. Len(rest) = Len(list) - 1
        BY <1>1, <2>4, <2>5, <3>1, <3>2
      <3>4. \A i \in 1 .. Len(list) - 1 :
              rest[i] = IF i < p THEN list[i] ELSE list[i + 1]
        <4> SUFFICES ASSUME NEW i \in 1 .. Len(list) - 1
                     PROVE  rest[i] = IF i < p THEN list[i] ELSE list[i + 1]
          OBVIOUS
        <4>1. rest[i] = IF i <= p - 1 THEN front[i] ELSE back[i - (p - 1)]
          BY <1>1, <2>4, <2>5, <3>1, <3>2
        <4>2. CASE i < p
          <5>1. i <= p - 1 /\ i \in 1 .. p - 1
            BY <4>2
          <5>2. QED
            BY <2>4, <4>1, <4>2, <5>1
        <4>3. CASE i >= p
          <5>1. ~ i <= p - 1 /\ ~ i < p
            BY <4>3
          <5>2. i - (p - 1) \in 1 .. Len(list) - p /\ p + (i - (p - 1)) = i + 1
            BY <1>1, <4>3
          <5>3. QED
            BY <2>5, <4>1, <5>1, <5>2
        <4>4. QED
          BY <4>2, <4>3
      <3>5. rest \in Seq(Entities)
        BY <3>1, <3>2
      <3>6. DOMAIN rest = 1 .. Len(list) - 1
        BY <3>3, <3>5
      <3>7. QED
        BY <3>3, <3>4, <3>5, <3>6
    <2> HIDE DEF rest
    <2>7. Distinct(rest)
      BY <1>1, <2>6 DEF Distinct
    <2>8. ASSUME NEW x \in ToSet(rest) PROVE x \in ToSet(list) \ {e}
      <3>1. PICK i \in 1 .. Len(list) - 1 : rest[i] = x
        BY <2>6, <2>8 DEF ToSet
      <3>2. PICK j \in 1 .. Len(list) : j # p /\ list[j] = x
        BY <1>1, <2>6, <3>1
      <3>3. QED
        BY <1>1, <1>3, <3>2 DEF ToSet, Distinct
    <2>9. ASSUME NEW x \in ToSet(list) \ {e} PROVE x \in ToSet(rest)
      <3>1. PICK j \in 1 .. Len(list) : list[j] = x
        BY <1>1 DEF ToSet
      <3>2. j # p
        BY <1>3, <2>9, <3>1
      <3>3. CASE j < p
        <4>1. j \in 1 .. Len(list) - 1 /\ rest[j] = x
          BY <1>1, <2>6, <3>1, <3>3
        <4>2. QED
          BY <2>6, <4>1 DEF ToSet
      <3>4. CASE j > p
        <4>1. j - 1 \in 1 .. Len(list) - 1 /\ rest[j - 1] = x
          BY <1>1, <2>6, <3>1, <3>4
        <4>2. QED
          BY <2>6, <4>1 DEF ToSet
      <3>5. QED
        BY <3>2, <3>3, <3>4
    <2>10. QED
      BY <2>3, <2>6, <2>7, <2>8, <2>9
  <1>4. QED
    BY <1>2, <1>3

LEMMA MovedFirst ==
  ASSUME NEW list \in Seq(Entities), Distinct(list), NEW e \in Entities
  PROVE  /\ <<e>> \o RemoveFirst(list, e) \in Seq(Entities)
         /\ Distinct(<<e>> \o RemoveFirst(list, e))
         /\ ToSet(<<e>> \o RemoveFirst(list, e)) = ToSet(list) \cup {e}
  <1> DEFINE rest == RemoveFirst(list, e)
             moved == <<e>> \o rest
  <1>1. /\ rest \in Seq(Entities) /\ Distinct(rest)
        /\ ToSet(rest) = ToSet(list) \ {e}
    BY RemoveFirstEffect
  <1> HIDE DEF rest
  <1>2. /\ moved \in Seq(Entities)
        /\ Len(rest) \in Nat /\ DOMAIN rest = 1 .. Len(rest)
        /\ DOMAIN moved = 1 .. Len(rest) + 1
        /\ moved[1] = e
        /\ \A i \in 1 .. Len(rest) : moved[i + 1] = rest[i]
    BY <1>1
  <1> HIDE DEF moved
  <1>3. \A i \in DOMAIN moved : i = 1 \/ \E j \in DOMAIN rest : i = j + 1
    <2> SUFFICES ASSUME NEW i \in DOMAIN moved, i # 1
                 PROVE  i - 1 \in DOMAIN rest /\ i = (i - 1) + 1
      OBVIOUS
    <2>1. QED
      BY <1>2
  <1>4. \A j \in DOMAIN rest : rest[j] # e
    BY <1>1 DEF ToSet
  <1>5. Distinct(moved)
    <2> SUFFICES ASSUME NEW i \in DOMAIN moved, NEW j \in DOMAIN moved,
                        moved[i] = moved[j]
                 PROVE  i = j
      BY DEF Distinct
    <2>1. CASE i = 1 /\ j # 1
      BY <1>2, <1>3, <1>4, <2>1
    <2>2. CASE j = 1 /\ i # 1
      BY <1>2, <1>3, <1>4, <2>2
    <2>3. CASE i # 1 /\ j # 1
      BY <1>1, <1>2, <1>3, <2>3 DEF Distinct
    <2>4. QED
      BY <2>1, <2>2, <2>3
  <1>6. ToSet(moved) = ToSet(rest) \cup {e}
    <2>1. ToSet(moved) \subseteq ToSet(rest) \cup {e}
      BY <1>2, <1>3 DEF ToSet
    <2>2. e \in ToSet(moved)
      BY <1>2 DEF ToSet
    <2>3. ASSUME NEW j \in DOMAIN rest PROVE rest[j] \in ToSet(moved)
      <3>1. j + 1 \in DOMAIN moved /\ moved[j + 1] = rest[j]
        BY <1>2
      <3>2. QED
        BY <3>1 DEF ToSet
    <2>4. QED
      BY <2>1, <2>2, <2>3 DEF ToSet
  <1>7. QED
    BY <1>1, <1>2, <1>5, <1>6 DEF moved, rest
-----------------------------------------------------------------------------
(* The inductive invariant *)

\* The listing has every row of the table, and each once.
EachRowOnce ==
  /\ Distinct(recent)
  /\ \A e \in Entities : rows[e] # NoRow <=> e \in ToSet(recent)

CutoverInv == TypeOK /\ EachRowOnce /\ ReadyWithinLimit

LEMMA CallKinds ==
  ASSUME TypeOK, NEW s \in Sessions
  PROVE  /\ call[s].step = "inspected" => call[s] \in Inspected
         /\ call[s].step = "answered" => call[s] \in Answered
         /\ call[s] = Idle => call[s].step = "idle"
  BY DEF TypeOK, Idle, Inspected, Answered

\* What is listed is the first rows, up to the limit.
LEMMA ListedFirst ==
  ASSUME TypeOK, Distinct(recent)
  PROVE  /\ Listed \in Seq(Entities)
         /\ Distinct(Listed)
         /\ Len(Listed) <= Len(recent)
         /\ \A i \in 1 .. Len(Listed) : Listed[i] = recent[i]
         /\ \A i \in 1 .. Len(recent) : i > Len(Listed) => i > Limit
  <1>1. recent \in Seq(Entities) /\ Len(recent) \in Nat /\ Limit \in Nat
        /\ DOMAIN recent = 1 .. Len(recent)
    BY CutoverAssumption DEF TypeOK
  <1>2. CASE Len(recent) <= Limit
    BY <1>1, <1>2 DEF Listed
  <1>3. CASE ~ Len(recent) <= Limit
    <2>1. Listed = SubSeq(recent, 1, Limit)
      BY <1>3 DEF Listed
    <2>2. \A i \in 1 .. Limit : i \in 1 .. Len(recent) /\ recent[i] \in Entities
      BY <1>1, <1>3
    <2>3. /\ Listed \in Seq(Entities)
          /\ Len(Listed) = Limit
          /\ \A i \in 1 .. Limit : Listed[i] = recent[i]
      BY <1>1, <2>1, <2>2, SubSeqProperties
    <2>4. DOMAIN Listed = 1 .. Limit
      BY <2>3
    <2>5. Distinct(Listed)
      BY <1>1, <2>2, <2>3, <2>4 DEF Distinct
    <2>6. QED
      BY <1>1, <1>3, <2>3, <2>5
  <1>4. QED
    BY <1>2, <1>3

LEMMA LostIsOverlooked ==
  ASSUME NEW list \in Seq(Entities)
  PROVE  LostIn(list, Len(list)) = Overlooked(list)
  <1>1. BoundAt(list, Len(list)) = {i \in DOMAIN list : rows[list[i]].status = "resolved"}
    BY DEF BoundAt
  <1>2. QED
    BY <1>1 DEF LostIn, LostAt, Overlooked

\* Without conflicts in the pass, of two bound rows that are alike the first in
\* the list has a blank source.
LEMMA NoConflictsBlankTwin ==
  ASSUME NEW list \in Seq(Entities), Distinct(list), DuplicateBindings(list) = 0,
         NEW i \in DOMAIN list, NEW j \in DOMAIN list, i < j,
         rows[list[i]].status = "resolved", rows[list[j]].status = "resolved",
         SameBinding(list[i], list[j])
  PROVE  list[i] \in Blank
  <1> DEFINE acc == Passed(list)[Len(list)]
             bound == BoundIn(list, Len(list))
             lost == LostIn(list, Len(list))
  <1>1. KeepsFirst(acc, bound, lost)
    BY PassKeepsFirst
  <1>2. /\ i \in BoundAt(list, Len(list)) /\ j \in BoundAt(list, Len(list))
        /\ BoundAt(list, Len(list)) \subseteq DOMAIN list
    BY DEF BoundAt
  <1>3. list[i] \in bound /\ list[j] \in bound
    BY <1>2 DEF BoundIn
  <1>4. acc.conflicts = 0
    BY DEF DuplicateBindings
  <1>5. list[j] \notin lost
    <2> SUFFICES ASSUME list[j] \in lost PROVE FALSE
      OBVIOUS
    <2>1. PICK k \in LostAt(list, Len(list)) : list[k] = list[j]
      BY DEF LostIn
    <2>2. k \in DOMAIN list
      BY <1>2 DEF LostAt
    <2>3. k = j
      BY <2>1, <2>2 DEF Distinct
    <2>4. QED
      BY <1>2, <2>3 DEF LostAt
  <1>6. lost \subseteq Blank
    BY DEF LostIn, LostAt
  <1> HIDE DEF acc, bound, lost
  <1>7. /\ IsFiniteSet(bound) /\ acc.seen \cup lost \in SUBSET bound
        /\ acc.seen \cap lost = {}
    BY <1>1 DEF KeepsFirst
  <1>8. IsFiniteSet(acc.seen) /\ IsFiniteSet(lost)
    BY <1>7, FS_Subset
  <1>9. Cardinality(acc.seen \cup lost) = Cardinality(acc.seen) + Cardinality(lost)
    <2>1. /\ Cardinality(acc.seen \cup lost)
               = Cardinality(acc.seen) + Cardinality(lost) - Cardinality(acc.seen \cap lost)
          /\ Cardinality(acc.seen) \in Nat /\ Cardinality(lost) \in Nat
      BY <1>8, FS_Union, FS_CardinalityType
    <2>2. Cardinality(acc.seen \cap lost) = 0
      BY <1>7, FS_EmptySet
    <2>3. QED
      BY <2>1, <2>2
  <1>10. Cardinality(acc.seen \cup lost) = Cardinality(bound)
    <2>1. Cardinality(acc.seen) \in Nat /\ Cardinality(lost) \in Nat
      BY <1>8, FS_CardinalityType
    <2>2. QED
      BY <1>1, <1>4, <1>9, <2>1 DEF KeepsFirst
  <1>11. acc.seen \cup lost = bound
    BY <1>7, <1>10, FS_Subset
  <1>12. list[j] \in acc.seen
    BY <1>3, <1>5, <1>11
  <1>13. list[i] # list[j]
    BY DEF Distinct
  <1>14. list[i] \in lost
    BY <1>1, <1>3, <1>11, <1>12, <1>13 DEF KeepsFirst
  <1>15. QED
    BY <1>6, <1>14

LEMMA ResolvedIffTarget ==
  ASSUME NEW row \in Row
  PROVE  row.status = "resolved" <=> row.target \in Targets
  BY CutoverAssumption DEF Row

\* A report that passes has missed nothing but what the limit kept out of it.
LEMMA MissedBeyondLimit ==
  ASSUME TypeOK, EachRowOnce, AllPassed, NEW m \in Missed
  PROVE  m.newer >= Limit \/ \E n \in Missed : Hidden(m, n)
  <1>1. recent \in Seq(Entities) /\ Len(recent) \in Nat /\ Limit \in Nat
        /\ DOMAIN recent = 1 .. Len(recent)
    BY CutoverAssumption DEF TypeOK
  <1>2. PICK i \in 1 .. Len(recent) :
          /\ ~Settled(recent[i])
          /\ m = [entity |-> recent[i], row |-> rows[recent[i]], newer |-> i - 1]
    BY <1>1 DEF Missed
  <1>3. Distinct(recent)
    BY DEF EachRowOnce
  <1>4. CASE i > Len(Listed)
    <2>1. i > Limit
      BY <1>2, <1>3, <1>4, ListedFirst
    <2>2. i - 1 >= Limit
      BY <1>1, <2>1
    <2>3. QED
      BY <1>2, <2>2
  <1>5. CASE ~ i > Len(Listed)
    <2> DEFINE e == recent[i]
    <2>1. Len(Listed) \in Nat /\ Listed \in Seq(Entities) /\ Distinct(Listed)
          /\ DOMAIN Listed = 1 .. Len(Listed)
      BY <1>3, ListedFirst
    <2>2. i \in 1 .. Len(Listed)
      BY <1>5, <2>1
    <2>3. e \in ToSet(Listed) /\ e \in Entities
      <3>1. Listed[i] = e
        BY <1>3, <2>2, ListedFirst
      <3>2. QED
        BY <1>1, <2>1, <2>2, <3>1 DEF ToSet
    <2>4. rows[e].status = "resolved" /\ e \notin Files
      BY <2>3 DEF AllPassed
    <2>5. PICK f \in ToSet(recent) : f # e /\ SameBinding(e, f)
      BY <1>2, <2>4 DEF Settled, SameBinding
    <2>6. PICK j \in 1 .. Len(recent) : recent[j] = f
      BY <1>1, <2>5 DEF ToSet
    <2>7. f \in Entities /\ rows[f] \in Row /\ rows[e] \in Row
      <3>1. f \in Entities /\ e \in ToSet(recent)
        BY <1>1, <1>2, <2>6 DEF ToSet
      <3>2. QED
        BY <2>3, <2>5, <3>1 DEF EachRowOnce, TypeOK
    <2>8. rows[f].status = "resolved"
      BY <2>4, <2>5, <2>7, ResolvedIffTarget DEF SameBinding
    <2> DEFINE n == [entity |-> f, row |-> rows[f], newer |-> j - 1]
    <2>9. n \in Missed
      <3>1. ~Settled(f)
        BY <1>1, <1>2, <2>5, SameBindingIsEquality DEF Settled, ToSet
      <3>2. QED
        BY <1>1, <2>6, <3>1 DEF Missed
    <2>10. n.row = m.row /\ TypeOf[n.entity] = TypeOf[m.entity]
      <3>1. rows[f].target = rows[e].target
        BY <2>5 DEF SameBinding
      <3>2. rows[f] = rows[e]
        BY <2>4, <2>7, <2>8, <3>1 DEF Row
      <3>3. QED
        BY <1>2, <2>5, <3>2 DEF SameBinding
    <2>11. CASE j > Len(Listed)
      <3>1. j > Limit
        BY <1>3, <2>11, ListedFirst
      <3>2. n.newer >= Limit
        BY <1>1, <3>1
      <3>3. QED
        BY <2>9, <2>10, <3>2 DEF Hidden
    <2>12. CASE ~ j > Len(Listed)
      <3>1. /\ i \in DOMAIN Listed /\ j \in DOMAIN Listed
            /\ Listed[i] = e /\ Listed[j] = f
        BY <1>3, <2>1, <2>2, <2>6, <2>12, ListedFirst
      <3>2. DuplicateBindings(Listed) = 0
        BY DEF AllPassed
      <3>3. i # j /\ i \in Int /\ j \in Int
        BY <2>5, <2>6
      <3>4. CASE i < j
        <4>1. e \in Blank
          BY <2>1, <2>4, <2>5, <2>8, <3>1, <3>2, <3>4, NoConflictsBlankTwin
        <4>2. m.newer < n.newer /\ m.entity \in Blank
          BY <1>2, <3>3, <3>4, <4>1
        <4>3. QED
          BY <2>9, <2>10, <4>2 DEF Hidden
      <3>5. CASE j < i
        <4>1. f \in Blank
          BY <2>1, <2>4, <2>5, <2>8, <3>1, <3>2, <3>5, NoConflictsBlankTwin,
             SameBindingIsEquality
        <4>2. n.newer < m.newer /\ n.entity \in Blank
          BY <1>2, <3>3, <3>5, <4>1
        <4>3. QED
          BY <2>9, <2>10, <4>2 DEF Hidden
      <3>6. QED
        BY <3>3, <3>4, <3>5
    <2>13. QED
      BY <2>11, <2>12
  <1>6. QED
    BY <1>4, <1>5

LEMMA MissedType ==
  ASSUME TypeOK, EachRowOnce
  PROVE  Missed \subseteq Missing
  <1> SUFFICES ASSUME NEW i \in DOMAIN recent
               PROVE  [entity |-> recent[i], row |-> rows[recent[i]], newer |-> i - 1]
                        \in Missing
    BY DEF Missed
  <1>1. recent[i] \in Entities /\ i - 1 \in Nat
    BY DEF TypeOK
  <1>2. rows[recent[i]] \in Row
    BY <1>1 DEF TypeOK, EachRowOnce, ToSet
  <1>3. QED
    BY <1>1, <1>2 DEF Missing

LEMMA CutoverInvInit == Init => CutoverInv
  <1> SUFFICES ASSUME Init PROVE CutoverInv
    OBVIOUS
  <1>1. TypeOK
    BY CutoverAssumption DEF Init, TypeOK
  <1>2. EachRowOnce
    BY DEF Init, EachRowOnce, Distinct, ToSet
  <1>3. ReadyWithinLimit
    BY DEF Init, ReadyWithinLimit, Idle
  <1>4. QED
    BY <1>1, <1>2, <1>3 DEF CutoverInv

LEMMA WriteStep ==
  ASSUME CutoverInv, NEW e \in Entities, NEW row \in Row, Write(e, row)
  PROVE  CutoverInv'
  <1>1. /\ rows' = [rows EXCEPT ![e] = row]
        /\ recent' = <<e>> \o RemoveFirst(recent, e)
        /\ UNCHANGED <<reports, call>>
    BY DEF Write
  <1>2. recent \in Seq(Entities) /\ Distinct(recent)
    BY DEF CutoverInv, TypeOK, EachRowOnce
  <1>3. /\ recent' \in Seq(Entities)
        /\ Distinct(recent')
        /\ ToSet(recent') = ToSet(recent) \cup {e}
    BY <1>1, <1>2, MovedFirst
  <1>4. TypeOK'
    BY <1>1, <1>3 DEF CutoverInv, TypeOK
  <1>5. \A f \in Entities : rows'[f] # NoRow <=> f \in ToSet(recent')
    <2> SUFFICES ASSUME NEW f \in Entities
                 PROVE  rows'[f] # NoRow <=> f \in ToSet(recent')
      OBVIOUS
    <2>1. rows'[f] = IF f = e THEN row ELSE rows[f]
      BY <1>1 DEF CutoverInv, TypeOK
    <2>2. row # NoRow
      BY CutoverAssumption
    <2>3. QED
      BY <1>3, <2>1, <2>2 DEF CutoverInv, EachRowOnce
  <1>6. EachRowOnce'
    BY <1>3, <1>5 DEF EachRowOnce, Distinct, ToSet
  <1>7. ReadyWithinLimit'
    BY <1>1 DEF CutoverInv, ReadyWithinLimit, Hidden
  <1>8. QED
    BY <1>4, <1>6, <1>7 DEF CutoverInv

\* Steps that write no row and give one session a new state.
LEMMA SessionStep ==
  ASSUME CutoverInv, UNCHANGED <<rows, recent>>,
         reports' \in 0 .. MaxReports,
         NEW s \in Sessions,
         NEW c \in {Idle} \cup Inspected \cup Answered,
         call' = [call EXCEPT ![s] = c],
         (c.step = "answered" /\ c.ready) =>
           \A m \in c.missed :
             m.newer >= Limit \/ \E n \in c.missed : Hidden(m, n)
  PROVE  CutoverInv'
  <1>1. TypeOK'
    BY DEF CutoverInv, TypeOK
  <1>2. EachRowOnce'
    BY DEF CutoverInv, EachRowOnce, Distinct, ToSet
  <1>3. ReadyWithinLimit'
    <2> SUFFICES ASSUME NEW t \in Sessions,
                        call'[t].step = "answered" /\ call'[t].ready,
                        NEW m \in call'[t].missed
                 PROVE  m.newer >= Limit \/ \E n \in call'[t].missed : Hidden(m, n)
      BY DEF ReadyWithinLimit, Hidden
    <2>1. CASE t = s
      <3>1. call'[t] = c
        BY <2>1 DEF CutoverInv, TypeOK
      <3>2. QED
        BY <3>1
    <2>2. CASE t # s
      <3>1. call'[t] = call[t]
        BY <2>2 DEF CutoverInv, TypeOK
      <3>2. QED
        BY <3>1 DEF CutoverInv, ReadyWithinLimit
    <2>3. QED
      BY <2>1, <2>2
  <1>4. QED
    BY <1>1, <1>2, <1>3 DEF CutoverInv

LEMMA ReportStep ==
  ASSUME CutoverInv, NEW s \in Sessions, Report(s)
  PROVE  CutoverInv'
  <1> DEFINE ready == Ready(call[s])
             c == [step |-> "answered", ready |-> ready,
                   missed |-> IF ready THEN Missed ELSE {}]
  <1>1. /\ call[s].step = "inspected"
        /\ reports < MaxReports /\ reports' = reports + 1
        /\ call' = [call EXCEPT ![s] = c]
        /\ UNCHANGED <<rows, recent>>
    BY DEF Report
  <1>2. TypeOK /\ EachRowOnce /\ MaxReports \in Nat
    BY CutoverAssumption DEF CutoverInv
  <1>3. reports' \in 0 .. MaxReports
    BY <1>1, <1>2 DEF TypeOK
  <1>4. ready \in BOOLEAN
    <2>1. call[s].clear \in BOOLEAN
      BY <1>1, <1>2, CallKinds DEF Inspected
    <2>2. QED
      BY <2>1 DEF Ready
  <1>5. c \in Answered
    BY <1>2, <1>4, MissedType DEF Answered
  <1>6. ASSUME c.ready, NEW m \in c.missed
        PROVE  m.newer >= Limit \/ \E n \in c.missed : Hidden(m, n)
    <2>1. ready /\ c.missed = Missed /\ AllPassed
      BY <1>6 DEF Ready
    <2>2. m \in Missed
      BY <1>6, <2>1
    <2> HIDE DEF c
    <2>3. QED
      BY <1>2, <2>1, <2>2, MissedBeyondLimit
  <1> HIDE DEF c
  <1>7. QED
    BY <1>1, <1>3, <1>5, <1>6, SessionStep

LEMMA CutoverInvStep == CutoverInv /\ [Next]_vars => CutoverInv'
  <1> SUFFICES ASSUME CutoverInv, [Next]_vars PROVE CutoverInv'
    OBVIOUS
  <1>1. TypeOK
    BY DEF CutoverInv
  <1>2. ASSUME NEW e \in Entities, NEW row \in Row, Write(e, row) PROVE CutoverInv'
    BY <1>2, WriteStep
  <1>3. ASSUME NEW s \in Sessions, Inspect(s) PROVE CutoverInv'
    <2> DEFINE c == [step |-> "inspected", clear |-> InspectionClear]
    <2>1. c \in Inspected /\ c.step # "answered"
      BY DEF Inspected, InspectionClear
    <2>2. call' = [call EXCEPT ![s] = c] /\ UNCHANGED <<rows, recent, reports>>
      BY <1>3 DEF Inspect
    <2> HIDE DEF c
    <2>3. reports' \in 0 .. MaxReports
      BY <1>1, <2>2 DEF TypeOK
    <2>4. QED
      BY <2>1, <2>2, <2>3, SessionStep
  <1>4. ASSUME NEW s \in Sessions, Report(s) PROVE CutoverInv'
    BY <1>4, ReportStep
  <1>5. ASSUME NEW s \in Sessions, Return(s) PROVE CutoverInv'
    <2>1. Idle.step # "answered"
      BY DEF Idle
    <2>2. call' = [call EXCEPT ![s] = Idle] /\ UNCHANGED <<rows, recent, reports>>
      BY <1>5 DEF Return
    <2>3. reports' \in 0 .. MaxReports
      BY <1>1, <2>2 DEF TypeOK
    <2>4. QED
      BY <2>1, <2>2, <2>3, SessionStep
  <1>6. CASE ReportAlone
    <2>1. /\ reports < MaxReports /\ reports' = reports + 1
          /\ UNCHANGED <<rows, recent, call>>
      BY <1>6 DEF ReportAlone
    <2>2. TypeOK'
      BY <1>1, <2>1, CutoverAssumption DEF TypeOK
    <2>3. EachRowOnce' /\ ReadyWithinLimit'
      BY <2>1 DEF CutoverInv, EachRowOnce, Distinct, ToSet, ReadyWithinLimit, Hidden
    <2>4. QED
      BY <2>2, <2>3 DEF CutoverInv
  <1>7. CASE UNCHANGED vars
    BY <1>7 DEF vars, CutoverInv, TypeOK, EachRowOnce, Distinct, ToSet,
                ReadyWithinLimit, Hidden
  <1>8. QED
    BY <1>2, <1>3, <1>4, <1>5, <1>6, <1>7 DEF Next
-----------------------------------------------------------------------------
(* The theorems *)

\* Writes, inspections and reports keep the invariant, in any order.
THEOREM CutoverInvariance == Spec => []CutoverInv
  BY CutoverInvInit, CutoverInvStep, PTL DEF Spec

\* The rows, the listing, the counter of reports and the answers keep their
\* types.
THEOREM CutoverTypeCorrect == Spec => []TypeOK
  BY CutoverInvariance, PTL DEF CutoverInv

\* Whoever is told "ready" by cutover_readiness, for any portal, any number of
\* callers and any limit of list_all: what was not settled then is what the
\* limit had pushed out of the report, or a duplicate of a blank source.
THEOREM ReadyIsRightWithinLimit == Spec => []ReadyWithinLimit
  BY CutoverInvariance, PTL DEF CutoverInv

\* _duplicate_target_bindings counts right in a list of any length: all the
\* bound rows but one for every type and target, and but the blank sources that
\* another row takes the place of.
LEMMA CountOfPass ==
  ASSUME NEW list \in Seq(Entities), Distinct(list)
  PROVE  LET bound == {e \in ToSet(list) : rows[e].status = "resolved"}
         IN DuplicateBindings(list) =
              Cardinality(bound)
                - Cardinality({<<TypeOf[e], rows[e].target>> : e \in bound})
                - Cardinality(Overlooked(list))
  <1> DEFINE acc == Passed(list)[Len(list)]
             bound == {e \in ToSet(list) : rows[e].status = "resolved"}
             bindings == {<<TypeOf[e], rows[e].target>> : e \in bound}
             bind == [e \in acc.seen |-> <<TypeOf[e], rows[e].target>>]
  <1>1. bound = BoundIn(list, Len(list))
    BY DEF BoundIn, BoundAt, ToSet
  <1>2. KeepsFirst(acc, bound, Overlooked(list))
    BY <1>1, PassKeepsFirst, LostIsOverlooked
  <1>3. DuplicateBindings(list) = acc.conflicts
    BY DEF DuplicateBindings
  <1> HIDE DEF acc
  <1>4. acc.seen \subseteq bound /\ IsFiniteSet(bound) /\ acc.conflicts \in Nat
    BY <1>2 DEF KeepsFirst, Accs
  <1>5. IsFiniteSet(acc.seen) /\ IsFiniteSet(Overlooked(list))
    BY <1>2, <1>4, FS_Subset DEF KeepsFirst
  <1>6. \A e \in bound : \E f \in acc.seen :
          <<TypeOf[f], rows[f].target>> = <<TypeOf[e], rows[e].target>>
    BY <1>2 DEF KeepsFirst, SameBinding
  <1>7. \A e, f \in acc.seen :
          <<TypeOf[f], rows[f].target>> = <<TypeOf[e], rows[e].target>> => e = f
    BY <1>2 DEF KeepsFirst, SameBinding
  <1> HIDE DEF bound
  <1>8. bind \in Surjection(acc.seen, bindings)
    BY <1>4, <1>6 DEF Surjection
  <1>9. bind \in Injection(acc.seen, bindings)
    BY <1>7, <1>8 DEF Surjection, Injection, IsInjective
  <1> HIDE DEF bind, bindings
  <1>10. Cardinality(bindings) = Cardinality(acc.seen)
    BY <1>5, <1>8, <1>9, FS_Surjection
  <1>11. /\ Cardinality(acc.seen) \in Nat /\ Cardinality(Overlooked(list)) \in Nat
         /\ acc.conflicts + Cardinality(acc.seen) + Cardinality(Overlooked(list))
              = Cardinality(bound)
    BY <1>2, <1>5, FS_CardinalityType DEF KeepsFirst
  <1>12. DuplicateBindings(list)
           = Cardinality(bound) - Cardinality(bindings) - Cardinality(Overlooked(list))
    BY <1>3, <1>4, <1>10, <1>11
  <1>13. QED
    BY <1>12 DEF bound, bindings

\* And so it does in the listing of every state.
THEOREM DuplicatesAreCounted == Spec => []DuplicatesCounted
  <1>1. CutoverInv => DuplicatesCounted
    <2> SUFFICES ASSUME CutoverInv PROVE DuplicatesCounted
      OBVIOUS
    <2>1. Listed \in Seq(Entities) /\ Distinct(Listed)
      BY ListedFirst DEF CutoverInv, EachRowOnce
    <2>2. QED
      BY <2>1, CountOfPass DEF DuplicatesCounted
  <1>2. QED
    BY <1>1, CutoverInvariance, PTL
=============================================================================
