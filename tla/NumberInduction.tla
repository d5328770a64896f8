--------------------------- MODULE NumberInduction ---------------------------
(***************************************************************************)
(* Induction over numbers in a form without operator parameters, which the *)
(* provers can instantiate: the set of the numbers that have the property  *)
(* takes the place of the property.                                        *)
(***************************************************************************)
EXTENDS Integers, WellFoundedInduction, TLAPS

\* The least number of a set.
LEMMA Least ==
  ASSUME NEW T \in SUBSET Nat, T # {}
  PROVE  \E x \in T : \A y \in T : x <= y
  <1> DEFINE R == OpToRel(<, Nat)
  <1>1. IsWellFoundedOn(R, Nat)
    BY NatLessThanWellFounded
  <1> HIDE DEF R
  <1>2. PICK x \in T : \A y \in T : ~ (<<y, x>> \in R)
    BY <1>1, WFMin
  <1>3. ASSUME NEW y \in T, y < x PROVE <<y, x>> \in R
    BY <1>3 DEF R, OpToRel
  <1>4. \A y \in T : ~ y < x
    BY <1>2, <1>3
  <1>5. QED
    BY <1>4

\* A set of numbers that has 0 and, below n, what follows a number it has.
LEMMA UpTo ==
  ASSUME NEW n \in Nat, NEW G, 0 \in G, \A m \in G : m \in 0 .. n - 1 => m + 1 \in G
  PROVE  0 .. n \subseteq G
  <1> DEFINE T == (0 .. n) \ G
  <1> SUFFICES ASSUME T # {} PROVE FALSE
    OBVIOUS
  <1>1. T \in SUBSET Nat
    OBVIOUS
  <1> HIDE DEF T
  <1>2. PICK x \in T : \A y \in T : x <= y
    BY <1>1, Least
  <1>3. x \in 1 .. n /\ x \notin G
    BY DEF T
  <1>4. x - 1 \in 0 .. n - 1
    BY <1>3
  <1>5. x - 1 \notin T
    BY <1>2, <1>3, <1>4
  <1>6. x - 1 \in G
    BY <1>4, <1>5 DEF T
  <1>7. QED
    BY <1>3, <1>4, <1>6

\* f starts with start, and each later value is made from the one before.
Steps(f, S, start, n, D) ==
  /\ f \in [0 .. n -> S]
  /\ f[0] = start
  /\ \A i \in 1 .. n : f[i] = D[i][f[i - 1]]

\* There is such a function for every start and every steps.
LEMMA RecursiveFunction ==
  ASSUME NEW S, NEW start \in S, NEW n \in Nat, NEW D \in [1 .. n -> [S -> S]]
  PROVE  \E f : Steps(f, S, start, n, D)
  <1> DEFINE Good(m, f) ==
               f[0] = start /\ \A i \in 1 .. m : f[i] = D[i][f[i - 1]]
             G == {m \in 0 .. n : \E f \in [0 .. m -> S] : Good(m, f)}
  <1>1. 0 \in G
    <2>1. [i \in 0 .. 0 |-> start] \in [0 .. 0 -> S] /\ Good(0, [i \in 0 .. 0 |-> start])
      OBVIOUS
    <2>2. 0 \in 0 .. n
      OBVIOUS
    <2> HIDE DEF Good
    <2>3. QED
      BY <2>1, <2>2
  <1>2. ASSUME NEW m \in G, m \in 0 .. n - 1 PROVE m + 1 \in G
    <2>1. PICK f \in [0 .. m -> S] : Good(m, f)
      BY <1>2
    <2> DEFINE g == [i \in 0 .. m + 1 |-> IF i <= m THEN f[i] ELSE D[m + 1][f[m]]]
    <2>2. g \in [0 .. m + 1 -> S]
      BY <1>2
    <2>3. Good(m + 1, g)
      <3>1. g[0] = start
        BY <1>2, <2>1
      <3>2. ASSUME NEW i \in 1 .. m + 1 PROVE g[i] = D[i][g[i - 1]]
        <4>1. CASE i <= m
          BY <1>2, <2>1, <4>1
        <4>2. CASE i = m + 1
          BY <1>2, <2>1, <4>2
        <4>3. QED
          BY <1>2, <4>1, <4>2
      <3>3. QED
        BY <3>1, <3>2
    <2>4. m + 1 \in 0 .. n
      BY <1>2
    <2> HIDE DEF Good, g
    <2>5. QED
      BY <2>2, <2>3, <2>4
  <1>3. n \in G
    <2> HIDE DEF G
    <2>1. 0 .. n \subseteq G
      <3>1. \A m \in G : m \in 0 .. n - 1 => m + 1 \in G
        BY <1>2
      <3>2. QED
        BY <1>1, <3>1, UpTo
    <2>2. QED
      BY <2>1
  <1>4. QED
    BY <1>3 DEF G, Steps
==============================================================================
