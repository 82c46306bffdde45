----------------------------- MODULE WellOrder -----------------------------
(***************************************************************************)
(* Arguments by the least number, and functions defined along a chain of   *)
(* smaller numbers.  They take the place of induction, whose theorem has   *)
(* an operator for its parameter.                                          *)
(***************************************************************************)
EXTENDS Integers, FiniteSetTheorems, TLAPS

(* Every set of natural numbers that is not empty has a least element.     *)
LEMMA LeastNat ==
  ASSUME NEW T \in SUBSET Nat, T # {}
  PROVE  \E n \in T : \A m \in T : n <= m
<1> DEFINE L == {ss \in Nat \X Nat : ss[1] < ss[2]}
<1>1. IsWellFoundedOn(L, Nat)
  BY NatLessThanWellFounded DEF OpToRel
<1>2. PICK n \in T : \A m \in T : ~(<<m, n>> \in L)
  <2> HIDE DEF L
  <2> QED BY <1>1, WFMin
<1>3. \A m \in T : ~(m < n)
  BY <1>2
<1> QED BY <1>3

(* A function on 0 .. N: its value at 0 is given, at n it is computed from *)
(* that at down[n].                                                        *)
Computes(f, N, z, down, step) ==
  /\ f[0] = z
  /\ \A n \in 1 .. N : f[n] = step[n][f[down[n]]]

(* There is such a function if down leads to smaller numbers.              *)
LEMMA ChainRecursion ==
  ASSUME NEW N \in Nat, NEW V, NEW z \in V,
         NEW down \in [1 .. N -> Nat], \A n \in 1 .. N : down[n] < n,
         NEW step \in [1 .. N -> [V -> V]]
  PROVE  \E f \in [0 .. N -> V] : Computes(f, N, z, down, step)
<1> DEFINE C(f, k) == Computes(f, k, z, down, step)
           Fails == {k \in 0 .. N : ~\E f \in [0 .. k -> V] : C(f, k)}
<1> HIDE DEF C
<1>1. Fails = {}
  <2>1. SUFFICES ASSUME Fails # {}
                 PROVE  FALSE
    OBVIOUS
  <2>2. PICK k \in Fails : \A m \in Fails : k <= m
    <3>1. Fails \subseteq Nat
      OBVIOUS
    <3> HIDE DEF Fails
    <3> QED BY <2>1, <3>1, LeastNat
  <2>3. CASE k = 0
    <3> DEFINE f == [n \in 0 .. k |-> z]
    <3>1. f \in [0 .. k -> V] /\ f[0] = z /\ 1 .. k = {}
      BY <2>3
    <3>2. C(f, k)
      BY <3>1 DEF C, Computes
    <3> QED BY <2>2, <3>1, <3>2
  <2>4. CASE k # 0
    <3>1. k \in 1 .. N /\ k - 1 \in 0 .. N /\ k - 1 \notin Fails
      BY <2>2, <2>4
    <3>2. PICK f \in [0 .. k - 1 -> V] : C(f, k - 1)
      BY <3>1
    <3> DEFINE g == [n \in 0 .. k |-> IF n = k THEN step[k][f[down[k]]] ELSE f[n]]
    <3>3. \A n \in 1 .. k : down[n] \in 0 .. k - 1 /\ down[n] # k
      BY <3>1
    <3>4. f[down[k]] \in V
      BY <3>1, <3>2, <3>3
    <3>5. step[k][f[down[k]]] \in V
      BY <3>1, <3>4
    <3>6. g \in [0 .. k -> V]
      BY <3>1, <3>2, <3>5
    <3>7. g[0] = z
      BY <3>1, <3>2 DEF C, Computes
    <3>8. ASSUME NEW n \in 1 .. k
          PROVE  g[n] = step[n][g[down[n]]]
      <4>1. g[down[n]] = f[down[n]]
        BY <3>1, <3>3
      <4>2. CASE n = k
        BY <3>1, <4>1, <4>2
      <4>3. CASE n # k
        BY <3>1, <3>2, <4>1, <4>3 DEF C, Computes
      <4> QED BY <4>2, <4>3
    <3>9. C(g, k)
      BY <3>7, <3>8 DEF C, Computes
    <3> QED BY <2>2, <3>6, <3>9
  <2> QED BY <2>3, <2>4
<1>2. N \in 0 .. N /\ N \notin Fails
  BY <1>1
<1> QED BY <1>2 DEF C

(* A function that walks up from member to member of a set until it stops. *)
Walks(f, S, stop, z, up) ==
  \A c \in S : f[c] = IF c \in stop THEN z[c] ELSE f[up[c]]

(* There is such a function if up leads to lower and lower levels.         *)
LEMMA WalkDefined ==
  ASSUME NEW S, NEW N \in Nat, NEW level \in [S -> 0 .. N], NEW stop \in SUBSET S,
         NEW V, NEW z \in [S -> V], NEW up,
         \A c \in S \ stop : up[c] \in S /\ level[up[c]] < level[c]
  PROVE  \E f \in [S -> V] : Walks(f, S, stop, z, up)
<1> DEFINE Upto(k) == {c \in S : level[c] <= k}
           Defined(k) == \E f \in [Upto(k) -> V] : Walks(f, Upto(k), stop, z, up)
           Fails == {k \in 0 .. N : ~Defined(k)}
<1>1. \A c \in S : level[c] \in 0 .. N /\ z[c] \in V
  OBVIOUS
<1>2. Fails = {}
  <2>1. SUFFICES ASSUME Fails # {}
                 PROVE  FALSE
    OBVIOUS
  <2>2. PICK k \in Fails : \A m \in Fails : k <= m
    <3>1. Fails \in SUBSET Nat
      OBVIOUS
    <3> HIDE DEF Fails
    <3> QED BY <2>1, <3>1, LeastNat
  <2>3. k \in 0 .. N /\ ~Defined(k)
    <3> HIDE DEF Defined
    <3> QED BY <2>2
  <2>4. CASE k = 0
    <3> DEFINE f == [c \in Upto(k) |-> z[c]]
    <3>1. \A c \in Upto(k) : c \in stop /\ z[c] \in V
      BY <1>1, <2>4
    <3>2. f \in [Upto(k) -> V]
      BY <3>1
    <3>3. Walks(f, Upto(k), stop, z, up)
      BY <3>1 DEF Walks
    <3> QED BY <2>3, <3>2, <3>3
  <2>5. CASE k # 0
    <3>1. k - 1 \in 0 .. N /\ Defined(k - 1)
      <4> HIDE DEF Defined
      <4>1. k - 1 \in 0 .. N /\ k \in Int
        BY <2>3, <2>5
      <4> QED BY <2>2, <4>1
    <3>2. PICK f \in [Upto(k - 1) -> V] : Walks(f, Upto(k - 1), stop, z, up)
      <4> HIDE DEF Upto
      <4> QED BY <3>1
    <3> DEFINE h(c) == IF c \in stop THEN z[c] ELSE f[up[c]]
               g == [c \in Upto(k) |-> h(c)]
    <3>3. \A c \in Upto(k) \ stop : up[c] \in Upto(k - 1)
      BY <1>1, <2>3
    <3>4. \A c \in Upto(k) : h(c) \in V
      <4>1. \A c \in Upto(k) \ stop : f[up[c]] \in V
        BY <3>2, <3>3
      <4> QED BY <1>1, <4>1
    <3>5. g \in [Upto(k) -> V]
      BY <3>4
    <3>6. \A c \in Upto(k - 1) : c \in Upto(k) /\ f[c] = h(c)
      <4>1. \A c \in Upto(k - 1) : c \in Upto(k)
        BY <1>1, <2>3
      <4>2. \A c \in Upto(k - 1) : f[c] = h(c)
        <5> HIDE DEF Upto
        <5> QED BY <3>2 DEF Walks
      <4> QED BY <4>1, <4>2
    <3>7. \A c \in Upto(k - 1) : g[c] = f[c]
      BY <3>6
    <3>8. Walks(g, Upto(k), stop, z, up)
      BY <3>3, <3>7 DEF Walks
    <3> QED BY <2>3, <3>5, <3>8
  <2> QED BY <2>4, <2>5
<1>3. Upto(N) = S /\ N \in 0 .. N
  BY <1>1
<1>4. Defined(N)
  <2> HIDE DEF Defined
  <2> QED BY <1>2, <1>3
<1> HIDE DEF Upto
<1> QED BY <1>3, <1>4

(* Of finite sets there is one with the fewest elements.                   *)
LEMMA LeastSet ==
  ASSUME NEW F, F # {}, \A s \in F : IsFiniteSet(s)
  PROVE  \E s \in F : \A t \in F : Cardinality(s) <= Cardinality(t)
<1> DEFINE T == {Cardinality(s) : s \in F}
<1>1. T # {} /\ T \in SUBSET Nat
  BY FS_CardinalityType
<1>2. PICK n \in T : \A m \in T : n <= m
  <2> HIDE DEF T
  <2> QED BY <1>1, LeastNat
<1> QED BY <1>2

(* What is computed of a set from what was computed of the set without one *)
(* of its elements is defined for every subset of a finite set.            *)
ComputesSets(f, F, z, pick, step) ==
  \A s \in F : f[s] = IF s = {} THEN z ELSE step[pick[s]][f[s \ {pick[s]}]]

LEMMA SetRecursion ==
  ASSUME NEW S, IsFiniteSet(S), NEW V, NEW z \in V,
         NEW pick, \A s \in SUBSET S : s # {} => pick[s] \in s,
         NEW step \in [S -> [V -> V]]
  PROVE  \E f \in [SUBSET S -> V] : ComputesSets(f, SUBSET S, z, pick, step)
<1> DEFINE Upto(k) == {s \in SUBSET S : Cardinality(s) <= k}
           Defined(k) == \E f \in [Upto(k) -> V] : ComputesSets(f, Upto(k), z, pick, step)
           Fails == {k \in Nat : ~Defined(k)}
<1>1. \A s \in SUBSET S : IsFiniteSet(s) /\ Cardinality(s) \in Nat
  BY FS_Subset, FS_CardinalityType
<1>2. \A s \in SUBSET S : s # {} => /\ pick[s] \in S /\ s \ {pick[s]} \in SUBSET S
                                  /\ Cardinality(s \ {pick[s]}) = Cardinality(s) - 1
  BY <1>1, FS_RemoveElement
<1>3. Fails = {}
  <2>1. SUFFICES ASSUME Fails # {}
                 PROVE  FALSE
    OBVIOUS
  <2>2. PICK k \in Fails : \A m \in Fails : k <= m
    <3>1. Fails \in SUBSET Nat
      OBVIOUS
    <3> HIDE DEF Fails
    <3> QED BY <2>1, <3>1, LeastNat
  <2>3. CASE k = 0
    <3> DEFINE f == [s \in Upto(k) |-> z]
    <3>1. \A s \in Upto(k) : s = {}
      BY <1>1, <2>3, FS_EmptySet
    <3>2. f \in [Upto(k) -> V]
      OBVIOUS
    <3>3. ComputesSets(f, Upto(k), z, pick, step)
      BY <3>1 DEF ComputesSets
    <3> QED BY <2>2, <3>2, <3>3
  <2>4. CASE k # 0
    <3>1. k \in Nat /\ k - 1 \in Nat /\ Defined(k - 1)
      <4> HIDE DEF Defined
      <4> QED BY <2>2, <2>4
    <3>2. PICK f \in [Upto(k - 1) -> V] : ComputesSets(f, Upto(k - 1), z, pick, step)
      <4> HIDE DEF Upto
      <4> QED BY <3>1
    <3> DEFINE h(s) == IF s = {} THEN z ELSE step[pick[s]][f[s \ {pick[s]}]]
               g == [s \in Upto(k) |-> h(s)]
    <3>3. \A s \in Upto(k) : s # {} => s \ {pick[s]} \in Upto(k - 1)
      BY <1>1, <1>2, <3>1
    <3>4. \A s \in Upto(k) : h(s) \in V
      <4>1. \A s \in Upto(k) : s # {} => f[s \ {pick[s]}] \in V
        BY <3>2, <3>3
      <4> QED BY <1>2, <4>1
    <3>5. g \in [Upto(k) -> V]
      BY <3>4
    <3>6. \A s \in Upto(k - 1) : s \in Upto(k) /\ f[s] = h(s)
      <4>1. \A s \in Upto(k - 1) : s \in Upto(k)
        BY <1>1, <3>1
      <4>2. \A s \in Upto(k - 1) : f[s] = h(s)
        <5> HIDE DEF Upto
        <5> QED BY <3>2 DEF ComputesSets
      <4> QED BY <4>1, <4>2
    <3>7. \A s \in Upto(k - 1) : g[s] = f[s]
      BY <3>6
    <3>8. ComputesSets(g, Upto(k), z, pick, step)
      BY <3>3, <3>7 DEF ComputesSets
    <3> QED BY <2>2, <3>5, <3>8
  <2> QED BY <2>3, <2>4
<1>4. Cardinality(S) \in Nat /\ Upto(Cardinality(S)) = SUBSET S
  BY <1>1, FS_Subset
<1>5. Defined(Cardinality(S))
  <2> HIDE DEF Defined
  <2> QED BY <1>3, <1>4
<1> HIDE DEF Upto
<1> QED BY <1>4, <1>5
=============================================================================
