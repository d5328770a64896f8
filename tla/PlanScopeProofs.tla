--------------------------- MODULE PlanScopeProofs ---------------------------
(***************************************************************************)
(* Proofs about PlanScope for every set of pieces and scopes of any        *)
(* length.                                                                 *)
(***************************************************************************)
EXTENDS MCRunLifecycle, NumberInduction, FiniteSetTheorems, FunctionTheorems,
        SequenceTheorems

Name == Seq(Pieces) \ {<<>>}

Scope == Seq(Name)

(* The column *)

\* What the first m names give, one after the other.
Joined(names, m, csv) ==
  /\ csv \in Seq(Pieces)
  /\ Len(csv) >= m
  /\ (\A i \in 1 .. m : Len(names[i]) = 1) =>
       Len(csv) = m /\ \A i \in 1 .. m : csv[i] = names[i][1]

LEMMA JoinedOne ==
  ASSUME NEW names, names[1] \in Name
  PROVE  Joined(names, 1, names[1])
  <1>1. Len(names[1]) \in Nat /\ Len(names[1]) # 0
    BY DEF Name
  <1>2. QED
    BY <1>1 DEF Joined, Name

LEMMA JoinedNext ==
  ASSUME NEW names, NEW m \in Nat, NEW csv, Joined(names, m, csv),
         names[m + 1] \in Name
  PROVE  Joined(names, m + 1, csv \o names[m + 1])
  <1> DEFINE next == names[m + 1]
             both == csv \o next
  <1>1. /\ csv \in Seq(Pieces) /\ Len(csv) \in Nat /\ Len(csv) >= m
        /\ next \in Seq(Pieces) /\ Len(next) \in Nat /\ Len(next) >= 1
    BY DEF Joined, Name
  <1>2. /\ both \in Seq(Pieces)
        /\ Len(both) = Len(csv) + Len(next)
        /\ \A i \in 1 .. Len(csv) + Len(next) :
             both[i] = IF i <= Len(csv) THEN csv[i] ELSE next[i - Len(csv)]
    BY <1>1, ConcatProperties
  <1> HIDE DEF both
  <1>3. Len(both) >= m + 1
    BY <1>1, <1>2
  <1>4. ASSUME \A i \in 1 .. m + 1 : Len(names[i]) = 1
        PROVE  Len(both) = m + 1 /\ \A i \in 1 .. m + 1 : both[i] = names[i][1]
    <2>1. Len(csv) = m /\ \A i \in 1 .. m : csv[i] = names[i][1]
      <3>1. \A i \in 1 .. m : Len(names[i]) = 1
        BY <1>4
      <3>2. QED
        BY <3>1 DEF Joined
    <2>2. Len(next) = 1
      BY <1>4
    <2>3. Len(both) = m + 1
      BY <1>2, <2>1, <2>2
    <2>4. ASSUME NEW i \in 1 .. m + 1 PROVE both[i] = names[i][1]
      <3>1. both[i] = IF i <= m THEN csv[i] ELSE next[i - m]
        BY <1>2, <2>1, <2>2
      <3>2. CASE i <= m
        BY <2>1, <3>1, <3>2
      <3>3. CASE ~ i <= m
        <4>1. i = m + 1 /\ i - m = 1
          BY <3>3
        <4>2. QED
          BY <3>1, <3>3, <4>1
      <3>4. QED
        BY <3>2, <3>3
    <2>5. QED
      BY <2>3, <2>4
  <1>5. QED
    BY <1>2, <1>3, <1>4 DEF Joined, both

LEMMA FlattenJoins ==
  ASSUME NEW names \in Scope, names # <<>>
  PROVE  Joined(names, Len(names), FlattenSeq(names))
  <1> DEFINE n == Len(names)
             Loop(f) == f = [i \in 1 .. Len(names) |->
                               IF i = 1 THEN names[i] ELSE f[i - 1] \o names[i]]
             Rows == [i \in 1 .. n |-> [csv \in Seq(Pieces) |-> csv \o names[i]]]
  <1>1. n \in Nat /\ n # 0 /\ \A i \in 1 .. n : names[i] \in Name
    BY DEF Scope
  <1>2. \E f : Steps(f, Seq(Pieces), <<>>, n, Rows)
    <2>1. Rows \in [1 .. n -> [Seq(Pieces) -> Seq(Pieces)]]
      BY <1>1, ConcatProperties DEF Name
    <2>2. <<>> \in Seq(Pieces)
      OBVIOUS
    <2> HIDE DEF Rows, n
    <2>3. QED
      BY <1>1, <2>1, <2>2, RecursiveFunction
  <1>3. \E f : Loop(f)
    <2>1. PICK f : /\ f \in [0 .. n -> Seq(Pieces)]
                   /\ f[0] = <<>>
                   /\ \A i \in 1 .. n : f[i] = Rows[i][f[i - 1]]
      BY <1>2 DEF Steps
    <2>2. ASSUME NEW i \in 1 .. n
          PROVE  f[i - 1] \in Seq(Pieces) /\ f[i] = f[i - 1] \o names[i]
      <3>1. i - 1 \in 0 .. n
        BY <1>1
      <3>2. f[i - 1] \in Seq(Pieces)
        BY <2>1, <3>1
      <3>3. Rows[i][f[i - 1]] = f[i - 1] \o names[i]
        BY <3>2
      <3>4. QED
        BY <2>1, <3>2, <3>3
    <2>3. f[1] = names[1]
      <3>1. names[1] \in Seq(Pieces) /\ 1 \in 1 .. n
        BY <1>1 DEF Name
      <3>2. \A i \in 1 .. n : i - 1 = 0 => f[i] = f[0] \o names[i]
        BY <2>2
      <3>3. f[1] = <<>> \o names[1]
        BY <2>1, <3>1, <3>2
      <3>4. QED
        BY <3>1, <3>3, ConcatEmptySeq
    <2> DEFINE g == [i \in 1 .. n |-> f[i]]
    <2>4. ASSUME NEW i \in 1 .. n
          PROVE  g[i] = IF i = 1 THEN names[i] ELSE g[i - 1] \o names[i]
      <3>1. CASE i = 1
        BY <2>3, <3>1
      <3>2. CASE i # 1
        <4>1. i - 1 \in 1 .. n
          BY <1>1, <3>2
        <4>2. QED
          BY <2>2, <3>2, <4>1
      <3>3. QED
        BY <3>1, <3>2
    <2>5. Loop(g)
      BY <2>4
    <2>6. QED
      BY <2>5
  <1>4. PICK f : Loop(f) /\ FlattenSeq(names) = f[n]
    <2>1. FlattenSeq(names) = (CHOOSE f : Loop(f))[n]
      BY <1>1 DEF FlattenSeq
    <2> HIDE DEF Loop
    <2>2. QED
      BY <1>3, <2>1
  <1>5. \A i \in 1 .. n : f[i] = IF i = 1 THEN names[i] ELSE f[i - 1] \o names[i]
    BY <1>4
  <1> DEFINE G == {m \in 0 .. n : m # 0 => Joined(names, m, f[m])}
  <1>6. 0 \in G
    BY <1>1
  <1>7. ASSUME NEW m \in G, m \in 0 .. n - 1 PROVE m + 1 \in G
    <2>1. m + 1 \in 1 .. n /\ names[m + 1] \in Name /\ (m + 1) - 1 = m
      BY <1>1, <1>7
    <2>2. CASE m = 0
      <3>1. f[1] = names[1]
        BY <1>5, <2>1, <2>2
      <3>2. QED
        BY <2>1, <2>2, <3>1, JoinedOne
    <2>3. CASE m # 0
      <3>1. f[m + 1] = f[m] \o names[m + 1]
        <4>1. m + 1 # 1
          BY <1>7, <2>3
        <4>2. f[m + 1] = f[(m + 1) - 1] \o names[m + 1]
          BY <1>5, <2>1, <4>1
        <4>3. QED
          BY <2>1, <4>2
      <3>2. Joined(names, m, f[m])
        BY <2>3
      <3>3. Joined(names, m + 1, f[m + 1])
        BY <1>7, <2>1, <3>1, <3>2, JoinedNext
      <3>4. QED
        BY <2>1, <3>3
    <2>4. QED
      BY <2>2, <2>3
  <1>8. 0 .. n \subseteq G
    <2>1. \A m \in G : m \in 0 .. n - 1 => m + 1 \in G
      BY <1>7
    <2> HIDE DEF G, n
    <2>2. QED
      BY <1>1, <1>6, <2>1, UpTo
  <1>9. n \in G
    <2> HIDE DEF G
    <2>1. QED
      BY <1>1, <1>8
  <1>10. QED
    BY <1>1, <1>4, <1>9

(* The order of the names *)

\* No name is before itself, and the order is transitive and total.
LEMMA BeforeOrders ==
  ASSUME NEW a \in Name, NEW b \in Name, NEW c \in Name
  PROVE  /\ ~Before(a, a)
         /\ Before(a, b) /\ Before(b, c) => Before(a, c)
         /\ a # b => Before(a, b) \/ Before(b, a)
  <1>1. \A name \in {a, b, c} :
          /\ Len(name) \in Nat
          /\ DOMAIN name = 1 .. Len(name)
          /\ \A i \in 1 .. Len(name) : name[i] \in Nat
    <2>1. ASSUME NEW name \in Name
          PROVE  /\ Len(name) \in Nat
                 /\ DOMAIN name = 1 .. Len(name)
                 /\ \A i \in 1 .. Len(name) : name[i] \in Nat
      <3>1. name \in Seq(Pieces)
        BY DEF Name
      <3>2. Len(name) \in Nat /\ DOMAIN name = 1 .. Len(name)
        BY <3>1
      <3>3. \A i \in 1 .. Len(name) : name[i] \in Pieces
        BY <3>1
      <3>4. QED
        BY <3>2, <3>3, ScopeAssumption
    <2>2. QED
      BY <2>1
  <1>2. ~Before(a, a)
    BY <1>1 DEF Before
  <1>3. ASSUME Before(a, b), Before(b, c) PROVE Before(a, c)
    <2>1. CASE Len(a) < Len(b) \/ Len(b) < Len(c)
      <3>1. Len(a) \in Nat /\ Len(b) \in Nat /\ Len(c) \in Nat
        BY <1>1
      <3>2. /\ Len(a) < Len(b) \/ Len(a) = Len(b)
            /\ Len(b) < Len(c) \/ Len(b) = Len(c)
        BY <1>3, Zenon DEF Before
      <3>3. Len(a) < Len(c)
        BY <2>1, <3>1, <3>2
      <3>4. QED
        BY <3>3 DEF Before
    <2>2. CASE Len(a) = Len(b) /\ Len(b) = Len(c)
      <3>1. PICK i \in 1 .. Len(a) : a[i] < b[i] /\ \A k \in 1 .. i - 1 : a[k] = b[k]
        BY <1>1, <1>3, <2>2 DEF Before
      <3>2. PICK j \in 1 .. Len(a) : b[j] < c[j] /\ \A k \in 1 .. j - 1 : b[k] = c[k]
        BY <1>1, <1>3, <2>2 DEF Before
      <3>3. PICK m \in 1 .. Len(a) : m <= i /\ m <= j /\ (m = i \/ m = j)
        BY <1>1
      <3>4. a[m] < c[m]
        <4>1. a[m] \in Nat /\ b[m] \in Nat /\ c[m] \in Nat
          BY <1>1, <2>2
        <4>2. a[m] <= b[m] /\ b[m] <= c[m] /\ (a[m] < b[m] \/ b[m] < c[m])
          BY <1>1, <3>1, <3>2, <3>3, <4>1
        <4>3. QED
          BY <4>1, <4>2
      <3>5. \A k \in 1 .. m - 1 : a[k] = c[k]
        BY <1>1, <3>1, <3>2, <3>3
      <3>6. QED
        BY <1>1, <2>2, <3>4, <3>5 DEF Before
    <2>3. /\ Len(a) < Len(b) \/ Len(a) = Len(b)
          /\ Len(b) < Len(c) \/ Len(b) = Len(c)
      BY <1>3, Zenon DEF Before
    <2>4. QED
      BY <2>1, <2>2, <2>3
  <1>4. ASSUME a # b PROVE Before(a, b) \/ Before(b, a)
    <2>1. CASE Len(a) # Len(b)
      <3>1. Len(a) \in Nat /\ Len(b) \in Nat
        BY <1>1
      <3>2. Len(a) < Len(b) \/ Len(b) < Len(a)
        BY <2>1, <3>1
      <3>3. QED
        BY <3>2 DEF Before
    <2>2. CASE Len(a) = Len(b)
      <3> DEFINE T == {i \in 1 .. Len(a) : a[i] # b[i]}
      <3>1. T # {}
        <4>1. a \in Seq(Pieces) /\ b \in Seq(Pieces)
          BY DEF Name
        <4>2. QED
          BY <1>4, <2>2, <4>1, SeqEqual
      <3>2. PICK i \in T : \A k \in T : i <= k
        <4>1. T \in SUBSET Nat
          BY <1>1
        <4> HIDE DEF T
        <4>2. QED
          BY <3>1, <4>1, Least
      <3>3. \A k \in 1 .. i - 1 : a[k] = b[k]
        BY <1>1, <3>2
      <3>4. a[i] < b[i] \/ b[i] < a[i]
        BY <1>1, <2>2
      <3>5. QED
        BY <1>1, <2>2, <3>3, <3>4 DEF Before
    <2>3. QED
      BY <2>1, <2>2
  <1>5. QED
    BY <1>2, <1>3, <1>4

\* The places of a scope in the order of their names, equal names in that of
\* their places.
Ahead(scope, i, j) ==
  Before(scope[i], scope[j]) \/ (scope[i] = scope[j] /\ i < j)

LEMMA AheadOrders ==
  ASSUME NEW scope \in Scope, NEW i \in DOMAIN scope, NEW j \in DOMAIN scope,
         NEW k \in DOMAIN scope
  PROVE  /\ ~Ahead(scope, i, i)
         /\ Ahead(scope, i, j) /\ Ahead(scope, j, k) => Ahead(scope, i, k)
         /\ i # j => Ahead(scope, i, j) \/ Ahead(scope, j, i)
  <1>1. scope[i] \in Name /\ scope[j] \in Name /\ scope[k] \in Name
    BY DEF Scope
  <1>2. i \in Int /\ j \in Int /\ k \in Int
    BY DEF Scope
  <1>3. ~Ahead(scope, i, i)
    BY <1>1, <1>2, BeforeOrders DEF Ahead
  <1>4. ASSUME Ahead(scope, i, j), Ahead(scope, j, k) PROVE Ahead(scope, i, k)
    <2>1. CASE Before(scope[i], scope[j]) /\ Before(scope[j], scope[k])
      BY <1>1, <2>1, BeforeOrders DEF Ahead
    <2>2. CASE Before(scope[i], scope[j]) /\ scope[j] = scope[k]
      BY <2>2 DEF Ahead
    <2>3. CASE scope[i] = scope[j] /\ Before(scope[j], scope[k])
      BY <2>3 DEF Ahead
    <2>4. CASE scope[i] = scope[j] /\ scope[j] = scope[k] /\ i < j /\ j < k
      BY <1>2, <2>4 DEF Ahead
    <2>5. QED
      BY <1>4, <2>1, <2>2, <2>3, <2>4 DEF Ahead
  <1>5. ASSUME i # j PROVE Ahead(scope, i, j) \/ Ahead(scope, j, i)
    <2>1. CASE scope[i] = scope[j]
      BY <1>2, <1>5, <2>1 DEF Ahead
    <2>2. CASE scope[i] # scope[j]
      BY <1>1, <2>2, BeforeOrders DEF Ahead
    <2>3. QED
      BY <2>1, <2>2
  <1>6. QED
    BY <1>3, <1>4, <1>5

\* A permutation of the places that puts the names in order, as ordered_scope
\* does.
Sorting(scope, p) ==
  /\ p \in Bijection(DOMAIN scope, DOMAIN scope)
  /\ \A i, j \in DOMAIN scope : i < j => ~Before(scope[p[j]], scope[p[i]])

LEMMA SortingExists ==
  ASSUME NEW scope \in Scope
  PROVE  \E p : Sorting(scope, p)
  <1> DEFINE n == Len(scope)
             ahead(i) == {j \in 1 .. n : Ahead(scope, j, i)}
             rank == [i \in 1 .. n |-> Cardinality(ahead(i)) + 1]
  <1>1. n \in Nat /\ DOMAIN scope = 1 .. n
    BY DEF Scope
  <1>2. IsFiniteSet(1 .. n) /\ Cardinality(1 .. n) = n
    <2> HIDE DEF n
    <2>1. 1 \in Int /\ n \in Int
      BY <1>1
    <2>2. IsFiniteSet(1 .. n) /\ Cardinality(1 .. n) = IF 1 > n THEN 0 ELSE n - 1 + 1
      BY <2>1, FS_Interval
    <2>3. QED
      BY <1>1, <2>2
  <1>3. ASSUME NEW i \in 1 .. n
        PROVE  Cardinality(ahead(i)) \in Nat /\ Cardinality(ahead(i)) < n
    <2>1. ahead(i) \subseteq 1 .. n /\ i \notin ahead(i)
      BY <1>1, AheadOrders
    <2> HIDE DEF ahead
    <2>2. ahead(i) # 1 .. n
      BY <2>1
    <2>3. IsFiniteSet(ahead(i)) /\ Cardinality(ahead(i)) <= n /\ Cardinality(ahead(i)) # n
      BY <1>2, <2>1, <2>2, FS_Subset
    <2>4. QED
      BY <1>1, <2>3, FS_CardinalityType
  <1>4. ASSUME NEW i \in 1 .. n, NEW j \in 1 .. n, Ahead(scope, i, j)
        PROVE  rank[i] < rank[j]
    <2>1. ahead(i) \subseteq ahead(j)
      BY <1>1, <1>4, AheadOrders
    <2>2. i \in ahead(j) /\ i \notin ahead(i)
      BY <1>1, <1>4, AheadOrders
    <2>3. IsFiniteSet(ahead(j))
      BY <1>2, FS_Subset
    <2>4. Cardinality(ahead(i)) < Cardinality(ahead(j))
      <3> HIDE DEF ahead
      <3>1. /\ Cardinality(ahead(i)) <= Cardinality(ahead(j))
            /\ Cardinality(ahead(i)) # Cardinality(ahead(j))
        BY <2>1, <2>2, <2>3, FS_Subset
      <3>2. QED
        BY <1>3, <3>1
    <2>5. QED
      <3> HIDE DEF ahead
      <3>1. QED
        BY <1>3, <2>4
  <1>5. rank \in [1 .. n -> 1 .. n]
    <2> HIDE DEF ahead
    <2>1. QED
      BY <1>1, <1>3
  <1> HIDE DEF rank, ahead
  <1>6. rank \in Injection(1 .. n, 1 .. n)
    <2>1. ASSUME NEW i \in 1 .. n, NEW j \in 1 .. n, rank[i] = rank[j] PROVE i = j
      <3>1. rank[i] \in Int /\ rank[j] \in Int
        BY <1>5
      <3>2. ~Ahead(scope, i, j) /\ ~Ahead(scope, j, i)
        BY <1>4, <2>1, <3>1
      <3>3. QED
        BY <1>1, <3>2, AheadOrders
    <2>2. QED
      BY <1>5, <2>1, Fun_IsInj
  <1>7. rank \in Surjection(1 .. n, 1 .. n)
    BY <1>2, <1>6, FS_Injection
  <1> DEFINE p == [k \in 1 .. n |-> CHOOSE i \in 1 .. n : rank[i] = k]
  <1>8. ASSUME NEW k \in 1 .. n PROVE p[k] \in 1 .. n /\ rank[p[k]] = k
    <2>1. \E i \in 1 .. n : rank[i] = k
      BY <1>7, Fun_SurjectionProperties
    <2>2. QED
      BY <2>1
  <1>9. p \in Bijection(1 .. n, 1 .. n)
    <2>1. p \in [1 .. n -> 1 .. n]
      BY <1>8
    <2>2. p \in Injection(1 .. n, 1 .. n)
      <3>1. \A i, j \in 1 .. n : p[i] = p[j] => i = j
        BY <1>8
      <3> HIDE DEF p
      <3>2. QED
        BY <2>1, <3>1, Fun_IsInj
    <2> HIDE DEF p
    <2>3. p \in Surjection(1 .. n, 1 .. n)
      BY <1>2, <2>2, FS_Injection
    <2>4. QED
      BY <2>2, <2>3 DEF Bijection
  <1>10. ASSUME NEW i \in 1 .. n, NEW j \in 1 .. n, i < j
         PROVE  ~Before(scope[p[j]], scope[p[i]])
    <2> HIDE DEF p
    <2>1. CASE Before(scope[p[j]], scope[p[i]])
      <3>1. Ahead(scope, p[j], p[i])
        BY <2>1 DEF Ahead
      <3>2. j < i
        BY <1>4, <1>8, <3>1
      <3>3. QED
        BY <1>10, <3>2
    <2>2. QED
      BY <2>1
  <1> HIDE DEF p
  <1>11. Sorting(scope, p)
    BY <1>1, <1>9, <1>10 DEF Sorting
  <1>12. QED
    BY <1>11

(* Counting names *)

Places(scope, name) == {i \in DOMAIN scope : scope[i] = name}

SameCounts(a, b) ==
  \A name : Cardinality(Places(a, name)) = Cardinality(Places(b, name))

LEMMA SameNamesCounts ==
  ASSUME NEW a \in Scope, NEW b \in Scope
  PROVE  SameNames(a, b) <=> SameCounts(a, b)
  <1>1. ASSUME NEW name, name \notin Range(a) \cup Range(b)
        PROVE  Places(a, name) = Places(b, name)
    <2>1. Places(a, name) = {} /\ Places(b, name) = {}
      BY <1>1 DEF Places, Range
    <2>2. QED
      BY <2>1
  <1>2. SameNames(a, b) <=>
          \A name \in Range(a) \cup Range(b) :
            Cardinality(Places(a, name)) = Cardinality(Places(b, name))
    BY DEF SameNames, Places
  <1>3. QED
    BY <1>1, <1>2 DEF SameCounts

\* Sorting keeps the names.
LEMMA SortedCounts ==
  ASSUME NEW scope \in Scope, NEW p, Sorting(scope, p),
         NEW sorted, sorted = [i \in DOMAIN scope |-> scope[p[i]]]
  PROVE  /\ sorted \in Scope
         /\ Len(sorted) = Len(scope)
         /\ SameCounts(sorted, scope)
         /\ \A i, j \in DOMAIN sorted : i < j => ~Before(sorted[j], sorted[i])
  <1> DEFINE places == DOMAIN scope
  <1>1. /\ Len(scope) \in Nat
        /\ places = 1 .. Len(scope)
        /\ \A i \in places : scope[i] \in Name
    BY DEF Scope
  <1>2. /\ p \in [places -> places]
        /\ \A i, j \in places : p[i] = p[j] => i = j
        /\ \A j \in places : \E i \in places : p[i] = j
    BY Fun_BijectionProperties DEF Sorting
  <1> HIDE DEF places
  <1>3. DOMAIN sorted = places /\ \A i \in places : sorted[i] = scope[p[i]]
    BY DEF places
  <1>4. sorted \in Scope /\ Len(sorted) = Len(scope)
    <2>1. sorted = [i \in 1 .. Len(scope) |-> scope[p[i]]]
      BY <1>1 DEF places
    <2>2. \A i \in 1 .. Len(scope) : scope[p[i]] \in Name
      BY <1>1, <1>2
    <2>3. QED
      BY <1>1, <2>1, <2>2 DEF Scope
  <1>5. ASSUME NEW name
        PROVE  Cardinality(Places(sorted, name)) = Cardinality(Places(scope, name))
    <2> DEFINE S == Places(sorted, name)
               T == Places(scope, name)
               q == [i \in S |-> p[i]]
    <2>1. S \subseteq places /\ \A i \in places : i \in S <=> p[i] \in T
      BY <1>2, <1>3 DEF Places, places
    <2>2. T \subseteq places
      BY DEF Places, places
    <2>3. IsFiniteSet(S)
      <3>1. IsFiniteSet(places)
        BY <1>1, FS_Interval
      <3>2. QED
        BY <2>1, <3>1, FS_Subset
    <2> HIDE DEF S, T
    <2>4. q \in [S -> T]
      BY <2>1
    <2>5. \A i, j \in S : q[i] = q[j] => i = j
      BY <1>2, <2>1
    <2>6. \A j \in T : \E i \in S : q[i] = j
      BY <1>2, <2>1, <2>2
    <2>7. q \in Bijection(S, T)
      <3> HIDE DEF q
      <3>1. QED
        BY <2>4, <2>5, <2>6, Fun_IsBij
    <2>8. ExistsBijection(S, T)
      BY <2>7 DEF ExistsBijection
    <2>9. QED
      BY <2>3, <2>8, FS_Bijection DEF S, T
  <1>6. \A i, j \in DOMAIN sorted : i < j => ~Before(sorted[j], sorted[i])
    BY <1>3 DEF Sorting, places
  <1>7. QED
    BY <1>4, <1>5, <1>6 DEF SameCounts

LEMMA OrderedSorts ==
  ASSUME NEW scope \in Scope
  PROVE  /\ Ordered(scope) \in Scope
         /\ Len(Ordered(scope)) = Len(scope)
         /\ SameCounts(Ordered(scope), scope)
         /\ \A i, j \in DOMAIN Ordered(scope) :
              i < j => ~Before(Ordered(scope)[j], Ordered(scope)[i])
  <1> DEFINE p == CHOOSE q \in Bijection(DOMAIN scope, DOMAIN scope) :
                    \A i, j \in DOMAIN scope : i < j => ~Before(scope[q[j]], scope[q[i]])
  <1>1. Sorting(scope, p)
    BY SortingExists DEF Sorting
  <1>2. Ordered(scope) = [i \in DOMAIN scope |-> scope[p[i]]]
    BY DEF Ordered
  <1> HIDE DEF p
  <1>3. QED
    BY <1>1, <1>2, SortedCounts

\* Where two ordered scopes part, the one whose name comes first has it more
\* often.
LEMMA FirstDifference ==
  ASSUME NEW s \in Scope, NEW t \in Scope,
         \A i, j \in DOMAIN t : i < j => ~Before(t[j], t[i]),
         NEW k \in 1 .. Len(s),
         \A i \in 1 .. k - 1 : i <= Len(t) /\ t[i] = s[i],
         k > Len(t) \/ Before(s[k], t[k])
  PROVE  ~SameCounts(s, t)
  <1> DEFINE name == s[k]
  <1>1. /\ Len(s) \in Nat /\ DOMAIN s = 1 .. Len(s)
        /\ Len(t) \in Nat /\ DOMAIN t = 1 .. Len(t)
        /\ name \in Name
        /\ \A i \in 1 .. Len(t) : t[i] \in Name
    BY DEF Scope
  <1>2. ASSUME NEW i \in Places(t, name) PROVE i < k
    <2>1. i \in 1 .. Len(t) /\ t[i] = name
      BY <1>1 DEF Places
    <2>2. ASSUME i >= k PROVE FALSE
      <3>1. k \in 1 .. Len(t) /\ Before(name, t[k])
        BY <1>1, <2>1, <2>2
      <3>2. CASE i = k
        BY <1>1, <2>1, <3>1, <3>2, BeforeOrders
      <3>3. CASE k < i
        <4>1. ~Before(t[i], t[k])
          BY <1>1, <2>1, <3>1, <3>3
        <4>2. QED
          BY <2>1, <3>1, <4>1
      <3>4. QED
        BY <1>1, <2>1, <2>2, <3>2, <3>3
    <2>3. QED
      BY <1>1, <2>1, <2>2
  <1>3. Places(t, name) \subseteq Places(s, name)
    <2>1. ASSUME NEW i \in Places(t, name) PROVE i \in Places(s, name)
      <3>1. i \in 1 .. Len(t) /\ t[i] = name /\ i < k
        BY <1>1, <1>2 DEF Places
      <3>2. i \in 1 .. k - 1
        BY <1>1, <3>1
      <3>3. s[i] = name /\ i \in DOMAIN s
        BY <1>1, <3>1, <3>2
      <3>4. QED
        BY <3>3 DEF Places
    <2>2. QED
      BY <2>1
  <1>4. k \in Places(s, name) /\ k \notin Places(t, name)
    <2>1. k \in Places(s, name)
      BY <1>1 DEF Places
    <2>2. k \notin Places(t, name)
      BY <1>2
    <2>3. QED
      BY <2>1, <2>2
  <1>5. IsFiniteSet(Places(s, name))
    <2>1. IsFiniteSet(1 .. Len(s))
      BY <1>1, FS_Interval
    <2>2. Places(s, name) \subseteq 1 .. Len(s)
      BY <1>1 DEF Places
    <2>3. QED
      BY <2>1, <2>2, FS_Subset
  <1>6. Cardinality(Places(s, name)) # Cardinality(Places(t, name))
    BY <1>3, <1>4, <1>5, FS_Subset
  <1>7. QED
    BY <1>6 DEF SameCounts

\* So names alone determine the ordered scope.
LEMMA SortedUnique ==
  ASSUME NEW s \in Scope, NEW t \in Scope, SameCounts(s, t),
         \A i, j \in DOMAIN s : i < j => ~Before(s[j], s[i]),
         \A i, j \in DOMAIN t : i < j => ~Before(t[j], t[i])
  PROVE  s = t
  <1> SUFFICES ASSUME s # t PROVE FALSE
    OBVIOUS
  <1> DEFINE Same(k) == k <= Len(s) /\ k <= Len(t) /\ s[k] = t[k]
             T == {k \in Nat : k # 0 /\ (k <= Len(s) \/ k <= Len(t)) /\ ~Same(k)}
  <1>1. /\ Len(s) \in Nat /\ \A i \in 1 .. Len(s) : s[i] \in Name
        /\ Len(t) \in Nat /\ \A i \in 1 .. Len(t) : t[i] \in Name
    BY DEF Scope
  <1>2. T # {}
    <2> SUFFICES ASSUME \A k \in Nat : k # 0 /\ (k <= Len(s) \/ k <= Len(t)) => Same(k)
                 PROVE  FALSE
      OBVIOUS
    <2>1. Len(s) = Len(t)
      BY <1>1
    <2>2. \A i \in 1 .. Len(s) : s[i] = t[i]
      BY <1>1
    <2>3. QED
      BY <2>1, <2>2, SeqEqual DEF Scope
  <1>3. PICK k \in T : \A i \in T : k <= i
    <2>1. T \in SUBSET Nat
      OBVIOUS
    <2> HIDE DEF T
    <2>2. QED
      BY <1>2, <2>1, Least
  <1>4. \A i \in 1 .. k - 1 : Same(i)
    BY <1>1, <1>3
  <1>5. k \in Nat /\ k # 0 /\ (k <= Len(s) \/ k <= Len(t)) /\ ~Same(k)
    BY <1>3
  <1>6. SameCounts(t, s)
    BY DEF SameCounts
  <1>7. CASE k <= Len(s) /\ (k > Len(t) \/ Before(s[k], t[k]))
    <2>1. k \in 1 .. Len(s) /\ \A i \in 1 .. k - 1 : i <= Len(t) /\ t[i] = s[i]
      BY <1>1, <1>4, <1>5, <1>7
    <2>2. QED
      BY <1>7, <2>1, FirstDifference
  <1>8. CASE k <= Len(t) /\ (k > Len(s) \/ Before(t[k], s[k]))
    <2>1. k \in 1 .. Len(t) /\ \A i \in 1 .. k - 1 : i <= Len(s) /\ s[i] = t[i]
      BY <1>1, <1>4, <1>5, <1>8
    <2>2. QED
      BY <1>6, <1>8, <2>1, FirstDifference
  <1>9. CASE k <= Len(s) /\ k <= Len(t)
    <2>1. k \in 1 .. Len(s) /\ k \in 1 .. Len(t) /\ s[k] # t[k]
      BY <1>1, <1>5, <1>9
    <2>2. Before(s[k], t[k]) \/ Before(t[k], s[k])
      BY <1>1, <2>1, BeforeOrders
    <2>3. QED
      BY <1>7, <1>8, <1>9, <2>2
  <1>10. QED
    BY <1>1, <1>5, <1>7, <1>8, <1>9

(* What a run reads *)

LEMMA ReadBackOf ==
  ASSUME NEW planned \in Scope, NEW read, read = Split(Csv(planned)),
         NEW count, count = IF Len(read) > 1 THEN Len(read) ELSE 1
  PROVE  /\ read = planned <=>
              (planned # <<Blank>> /\ \A i \in DOMAIN planned : Len(planned[i]) = 1)
         /\ count >= Len(planned)
  <1> DEFINE csv == Csv(planned)
             n == Len(planned)
  <1>1. n \in Nat /\ DOMAIN planned = 1 .. n /\ \A i \in 1 .. n : planned[i] \in Name
    BY DEF Scope
  <1>2. Blank \in Name /\ <<Blank>> \in Scope
    <2>1. Blank \in Seq(Pieces) /\ Blank # <<>>
      BY ScopeAssumption DEF Blank
    <2>2. QED
      BY <2>1 DEF Name, Scope
  <1>3. CASE planned = <<>>
    <2>1. csv = FlattenSeq(<<Blank>>)
      BY <1>3 DEF Csv
    <2>2. Joined(<<Blank>>, 1, csv)
      <3>1. <<Blank>> # <<>> /\ Len(<<Blank>>) = 1
        OBVIOUS
      <3>2. QED
        BY <1>2, <2>1, <3>1, FlattenJoins
    <2>3. csv \in Seq(Pieces) /\ Len(csv) = 1 /\ csv[1] = 0
      BY <2>2 DEF Joined, Blank
    <2>4. csv = Blank
      BY <2>3 DEF Blank
    <2>5. read = <<>>
      BY <2>4 DEF Split
    <2>6. planned # <<Blank>> /\ DOMAIN planned = {} /\ n = 0
      BY <1>3
    <2>7. count = 1
      BY <2>5
    <2>8. QED
      BY <1>3, <2>5, <2>6, <2>7
  <1>4. CASE planned # <<>>
    <2>1. csv = FlattenSeq(planned)
      BY <1>4 DEF Csv
    <2>2. Joined(planned, n, csv)
      BY <1>4, <2>1, FlattenJoins
    <2>3. /\ csv \in Seq(Pieces) /\ Len(csv) \in Nat /\ Len(csv) >= n
          /\ DOMAIN csv = 1 .. Len(csv)
          /\ (\A i \in 1 .. n : Len(planned[i]) = 1) =>
               Len(csv) = n /\ \A i \in 1 .. n : csv[i] = planned[i][1]
      BY <2>2 DEF Joined
    <2>4. ASSUME NEW i \in 1 .. n, \A j \in 1 .. n : Len(planned[j]) = 1
          PROVE  planned[i] = <<csv[i]>>
      <3>1. planned[i] \in Seq(Pieces) /\ Len(planned[i]) = 1 /\ csv[i] = planned[i][1]
        BY <1>1, <2>3, <2>4 DEF Name
      <3>2. QED
        BY <3>1
    <2> HIDE DEF csv
    <2>5. CASE csv = Blank
      <3>1. read = <<>> /\ count = 1 /\ Len(csv) = 1 /\ csv[1] = 0
        <4>1. read = <<>>
          BY <2>5 DEF Split, csv
        <4>2. QED
          BY <2>5, <4>1 DEF Blank
      <3>2. count >= n
        BY <1>1, <2>3, <3>1
      <3>3. ASSUME \A i \in 1 .. n : Len(planned[i]) = 1 PROVE planned = <<Blank>>
        <4>1. n = 1
          BY <2>3, <3>1, <3>3
        <4>2. planned[1] = <<csv[1]>>
          BY <2>4, <3>3, <4>1
        <4>3. planned[1] = Blank
          BY <3>1, <4>2 DEF Blank
        <4>4. planned \in Seq(Name)
          BY DEF Scope
        <4>5. QED
          BY <4>1, <4>3, <4>4
      <3>4. QED
        BY <1>1, <1>4, <3>1, <3>2, <3>3
    <2>6. CASE csv # Blank
      <3>1. read = [i \in 1 .. Len(csv) |-> <<csv[i]>>]
        BY <2>3, <2>6 DEF Split, csv
      <3>2. Len(read) = Len(csv)
        BY <2>3, <3>1
      <3>3. count >= n
        <4>1. Len(read) \in Nat /\ Len(read) >= n
          BY <2>3, <3>2
        <4> HIDE DEF n
        <4>2. CASE Len(read) > 1
          BY <4>1, <4>2
        <4>3. CASE ~ Len(read) > 1
          BY <1>1, <4>1, <4>3
        <4>4. QED
          BY <4>2, <4>3
      <3>4. ASSUME read = planned
            PROVE  planned # <<Blank>> /\ \A i \in 1 .. n : Len(planned[i]) = 1
        <4>1. n = Len(csv)
          BY <3>2, <3>4
        <4>2. \A i \in 1 .. n : planned[i] = <<csv[i]>>
          BY <3>1, <3>4, <4>1
        <4>3. ASSUME planned = <<Blank>> PROVE FALSE
          <5>1. n = 1 /\ planned[1] = Blank
            BY <4>3
          <5>2. Len(csv) = 1 /\ csv[1] = 0
            <6>1. <<csv[1]>> = <<0>>
              BY <4>2, <5>1 DEF Blank
            <6>2. QED
              BY <4>1, <5>1, <6>1
          <5>3. csv = Blank
            BY <2>3, <5>2 DEF Blank
          <5>4. QED
            BY <2>6, <5>3
        <4>4. ASSUME NEW i \in 1 .. n PROVE Len(planned[i]) = 1
          <5>1. planned[i] = <<csv[i]>> /\ Len(<<csv[i]>>) = 1
            BY <4>2
          <5>2. QED
            BY <5>1
        <4>5. QED
          BY <4>3, <4>4
      <3>5. ASSUME planned # <<Blank>>, \A i \in 1 .. n : Len(planned[i]) = 1
            PROVE  read = planned
        <4>1. Len(csv) = n /\ \A i \in 1 .. n : planned[i] = <<csv[i]>>
          BY <2>3, <2>4, <3>5
        <4>2. read = [i \in 1 .. n |-> planned[i]]
          BY <3>1, <4>1
        <4>3. planned \in Seq(Name)
          BY DEF Scope
        <4>4. QED
          BY <1>1, <4>2, <4>3
      <3>6. QED
        BY <1>1, <3>3, <3>4, <3>5
    <2>7. QED
      BY <2>5, <2>6
  <1>5. QED
    BY <1>3, <1>4

\* For requests of any number of names of any texts, create_plan and PlanRepository
\* do what ScopeSurvives says: two requests of a job get one plan exactly
\* when they name the same things as often; the run reads the planned scope
\* unless a name has a comma or is a lone blank; and it counts no fewer than were
\* asked for.
THEOREM ScopesSurvive == \A requests \in SUBSET Scope : ScopeSurvives(requests)
  <1>1. ASSUME NEW a \in Scope
        PROVE  FinalScope(a) \in Scope
    BY ScopeAssumption DEF FinalScope, Scope, Name
  <1>2. ASSUME NEW a \in Scope, NEW b \in Scope
        PROVE  Ordered(FinalScope(a)) = Ordered(FinalScope(b))
                 <=> SameNames(FinalScope(a), FinalScope(b))
    <2> DEFINE s == FinalScope(a)
               t == FinalScope(b)
    <2>1. s \in Scope /\ t \in Scope
      BY <1>1
    <2> HIDE DEF s, t
    <2>2. ASSUME Ordered(s) = Ordered(t) PROVE SameCounts(s, t)
      BY <2>1, <2>2, OrderedSorts DEF SameCounts
    <2>3. ASSUME SameCounts(s, t) PROVE Ordered(s) = Ordered(t)
      <3>1. /\ Ordered(s) \in Scope
            /\ Ordered(t) \in Scope
            /\ SameCounts(Ordered(s), Ordered(t))
        BY <2>1, <2>3, OrderedSorts DEF SameCounts
      <3>2. QED
        BY <2>1, <3>1, OrderedSorts, SortedUnique
    <2>4. QED
      BY <2>1, <2>2, <2>3, SameNamesCounts DEF s, t
  <1>3. ASSUME NEW a \in Scope
        PROVE  LET planned == Ordered(FinalScope(a))
                   read    == ReadBack(a)
                   count   == IF Len(read) > 1 THEN Len(read) ELSE 1
               IN /\ read = planned <=>
                       (planned # <<Blank>>
                          /\ \A i \in DOMAIN planned : Len(planned[i]) = 1)
                  /\ count >= Len(FinalScope(a))
    <2>1. /\ Ordered(FinalScope(a)) \in Scope
          /\ Len(Ordered(FinalScope(a))) = Len(FinalScope(a))
      BY <1>1, OrderedSorts
    <2>2. QED
      BY <2>1, ReadBackOf DEF ReadBack
  <1>4. QED
    BY <1>2, <1>3 DEF ScopeSurvives

\* And so for the requests the runs are checked with.
THEOREM RunsReadTheirScope == Spec => []ScopeSurvivesCsv
  <1>1. Names(2) \subseteq Name
    <2>1. ASSUME NEW m \in 1 .. 2, NEW name \in [1 .. m -> Pieces] PROVE name \in Name
      <3>1. m \in Nat /\ name \in Seq(Pieces) /\ Len(name) = m
        BY <2>1
      <3>2. QED
        BY <2>1, <3>1 DEF Name
    <2>2. QED
      BY <2>1 DEF Names
  <1>2. ScopesOf(Names(2), 2) \subseteq Scope
    <2>1. ASSUME NEW m \in 0 .. 2, NEW scope \in [1 .. m -> Names(2)]
          PROVE  scope \in Scope
      BY <1>1, <2>1 DEF Scope
    <2>2. QED
      BY <2>1 DEF ScopesOf
  <1>3. ScopeSurvivesCsv
    BY <1>2, ScopesSurvive DEF ScopeSurvivesCsv
  <1>4. QED
    BY <1>3, PTL
==============================================================================
