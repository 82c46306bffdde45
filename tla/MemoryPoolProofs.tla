-------------------------- MODULE MemoryPoolProofs --------------------------
(***************************************************************************)
(* Proofs about MemoryPool, for any set of addresses and sizes, any slack, *)
(* limit and age, and any behaviour of the clock.                          *)
(***************************************************************************)
EXTENDS MemoryPool, WellOrder

(* What the accounting of blocks needs of the types.                       *)
PoolTypes ==
  /\ size \in [Blocks -> Nat]
  /\ asked \in [Blocks -> Nat]
  /\ heap \subseteq Blocks
  /\ free_memory \subseteq Nat \X Blocks

PoolInv == PoolTypes /\ BlocksAccounted /\ FitsRequest

LEMMA PoolInit == Init => PoolInv
BY DEF Init, PoolInv, PoolTypes, BlocksAccounted, FitsRequest, pooled

(* An entry of the free list is determined by its block.                   *)
LEMMA EntryOfBlock ==
  ASSUME PoolInv, NEW entry \in free_memory
  PROVE  /\ entry = <<size[entry[2]], entry[2]>>
         /\ entry[2] \in heap /\ entry[2] \in Blocks /\ entry[2] \notin used
         /\ {e[2] : e \in free_memory \ {entry}} = pooled \ {entry[2]}
<1>1. \A e \in free_memory : e = <<size[e[2]], e[2]>>
  BY DEF PoolInv, PoolTypes, BlocksAccounted
<1>2. entry[2] \in pooled
  BY DEF pooled
<1>3. entry[2] \in heap /\ entry[2] \in Blocks /\ entry[2] \notin used
  BY <1>2 DEF PoolInv, PoolTypes, BlocksAccounted
<1>4. {e[2] : e \in free_memory \ {entry}} = pooled \ {entry[2]}
  BY <1>1 DEF pooled
<1> QED BY <1>1, <1>3, <1>4

LEMMA PoolNext == PoolInv /\ [Next]_vars => PoolInv'
<1> SUFFICES ASSUME PoolInv, [Next]_vars
             PROVE  PoolInv'
  OBVIOUS
<1> USE DEF headers
<1>1. /\ PoolTypes /\ used \subseteq heap /\ pooled \subseteq heap
      /\ used \union pooled = heap /\ used \intersect pooled = {}
      /\ \A entry \in free_memory : entry[1] = size[entry[2]]
      /\ \A b \in used : asked[b] <= size[b] /\ size[b] < asked[b] + Slack
  BY DEF PoolInv, BlocksAccounted, FitsRequest
<1>2. ASSUME NEW n \in Sizes, NEW entry \in free_memory, AllocPooled(n, entry)
      PROVE  PoolInv'
  <2>1. /\ n \in Nat /\ entry[1] \in Nat /\ n <= entry[1]
        /\ entry[1] - n < Slack
    BY <1>1, <1>2, SizesAssumption DEF AllocPooled, Fits, LowerBound, PoolTypes
  <2>2. /\ entry[2] \in heap /\ entry[2] \in Blocks /\ entry[2] \notin used
        /\ pooled' = pooled \ {entry[2]}
    BY <1>2, EntryOfBlock DEF AllocPooled, pooled
  <2>3. PoolTypes'
    BY <1>1, <1>2, <2>1, <2>2 DEF AllocPooled, PoolTypes
  <2>4. BlocksAccounted'
    <3>1. entry[2] \in pooled
      BY DEF pooled
    <3> QED BY <1>1, <1>2, <2>2, <3>1 DEF AllocPooled, BlocksAccounted
  <2>5. FitsRequest'
    <3> SUFFICES ASSUME NEW b \in used'
                 PROVE  asked'[b] <= size[b] /\ size[b] < asked'[b] + Slack
      BY <1>2 DEF AllocPooled, FitsRequest
    <3>1. CASE b = entry[2]
      <4>1. asked'[b] = n /\ size[b] = entry[1]
        BY <1>1, <1>2, <2>2, <3>1 DEF AllocPooled, PoolTypes
      <4> QED BY <4>1, <2>1, SlackAssumption
    <3>2. CASE b # entry[2]
      BY <1>1, <1>2, <3>2 DEF AllocPooled, PoolTypes
    <3> QED BY <3>1, <3>2
  <2> QED BY <2>3, <2>4, <2>5 DEF PoolInv
<1>3. ASSUME NEW n \in Sizes, NEW b \in Blocks, AllocNew(n, b)
      PROVE  PoolInv'
  <2>1. /\ n \in Nat /\ b \notin heap /\ b \notin used /\ b \notin pooled
        /\ pooled' = pooled
    BY <1>1, <1>3, SizesAssumption DEF AllocNew, pooled
  <2>2. PoolTypes'
    BY <1>1, <1>3, <2>1 DEF AllocNew, PoolTypes
  <2>3. \A entry \in free_memory : entry[2] \in Blocks /\ entry[2] # b
    BY <2>1, <1>1 DEF pooled, PoolTypes
  <2>4. BlocksAccounted'
    BY <1>1, <1>3, <2>1, <2>3 DEF AllocNew, BlocksAccounted, PoolTypes
  <2>5. FitsRequest'
    BY <1>1, <1>3, <2>1, SlackAssumption DEF AllocNew, FitsRequest, PoolTypes
  <2> QED BY <2>2, <2>4, <2>5 DEF PoolInv
<1>4. ASSUME NEW b \in Blocks, Recycle(b)
      PROVE  PoolInv'
  <2>1. /\ b \in used /\ used' = used \ {b} /\ size' = size
        /\ asked' = [asked EXCEPT ![b] = 0] /\ size[b] \in Nat
    BY <1>1, <1>4 DEF Recycle, PoolTypes
  <2>2. FitsRequest'
    BY <1>1, <2>1 DEF FitsRequest, PoolTypes
  <2>3. CASE size[b] + free_size < Limit
    <3>1. free_memory' = free_memory \union {<<size[b], b>>} /\ heap' = heap
      BY <1>4, <2>3 DEF Recycle
    <3>2. pooled' = pooled \union {b}
      <4>1. <<size[b], b>>[2] = b
        OBVIOUS
      <4>2. \A x : x \in pooled' <=> \E e \in free_memory' : x = e[2]
        BY DEF pooled
      <4>3. \A x : x \in pooled <=> \E e \in free_memory : x = e[2]
        BY DEF pooled
      <4>4. \A x : x \in pooled' <=> x \in pooled \/ x = b
        BY <3>1, <4>1, <4>2, <4>3
      <4> QED BY <4>4
    <3>3. PoolTypes'
      BY <1>1, <2>1, <3>1 DEF PoolTypes
    <3>4. BlocksAccounted'
      BY <1>1, <2>1, <3>1, <3>2 DEF BlocksAccounted
    <3> QED BY <2>2, <3>3, <3>4 DEF PoolInv
  <2>4. CASE ~(size[b] + free_size < Limit)
    <3>1. free_memory' = free_memory /\ heap' = heap \ {b} /\ pooled' = pooled
      BY <1>4, <2>4 DEF Recycle, pooled
    <3>2. PoolTypes'
      BY <1>1, <2>1, <3>1 DEF PoolTypes
    <3>3. BlocksAccounted'
      BY <1>1, <2>1, <3>1 DEF BlocksAccounted
    <3> QED BY <2>2, <3>2, <3>3 DEF PoolInv
  <2> QED BY <2>3, <2>4
<1>5. ASSUME NEW E \in SUBSET free_memory,
             free_memory' = free_memory \ E,
             heap' = heap \ {entry[2] : entry \in E},
             UNCHANGED <<used, size, asked>>
      PROVE  PoolInv'
  <2>1. \A e \in free_memory : e = <<size[e[2]], e[2]>> /\ e[2] \notin used
    BY EntryOfBlock
  <2>2. pooled' = pooled \ {entry[2] : entry \in E}
    BY <1>5, <2>1 DEF pooled
  <2>3. PoolTypes' /\ FitsRequest'
    BY <1>1, <1>5 DEF PoolTypes, FitsRequest
  <2>4. BlocksAccounted'
    BY <1>1, <1>5, <2>1, <2>2 DEF BlocksAccounted
  <2> QED BY <2>3, <2>4 DEF PoolInv
<1>6. CASE Collect
  BY <1>5, <1>6 DEF Collect, OldEntries
<1>7. CASE CollectAll
  <2>1. free_memory' = free_memory \ free_memory
    BY <1>7 DEF CollectAll
  <2> QED BY <2>1, <1>5, <1>7 DEF CollectAll, pooled
<1>8. ASSUME NEW t \in Times, SetClock(t)
      PROVE  PoolInv'
  BY <1>1, <1>8
     DEF SetClock, PoolInv, PoolTypes, BlocksAccounted, FitsRequest, pooled
<1>9. CASE UNCHANGED vars
  BY <1>1, <1>9
     DEF vars, PoolInv, PoolTypes, BlocksAccounted, FitsRequest, pooled
<1> QED BY <1>2, <1>3, <1>4, <1>6, <1>7, <1>8, <1>9 DEF Next

THEOREM PoolInvariance == Spec => []PoolInv
BY PoolInit, PoolNext, PTL DEF Spec

(* No block is lost, listed twice or handed out while somebody has it,     *)
(* whatever the clock does and however often the list is collected.        *)
THEOREM BlocksStayAccounted == Spec => []BlocksAccounted
<1>1. PoolInv => BlocksAccounted
  BY DEF PoolInv
<1> QED BY <1>1, PoolInvariance, PTL

(* A recycled block always fits the request it serves.                     *)
THEOREM BlocksFit == Spec => []FitsRequest
<1>1. PoolInv => FitsRequest
  BY DEF PoolInv
<1> QED BY <1>1, PoolInvariance, PTL

(***************************************************************************)
(* The size of the free list                                               *)
(***************************************************************************)
Weighed(S) == IsFiniteSet(S) /\ \A e \in S : e[1] \in Nat

(* The fold that computes a total, for every subset of a set of entries.   *)
Folded(f, F) ==
  \A s \in F : f[s] = IF s = {} THEN 0
                      ELSE LET x == CHOOSE x \in s : TRUE
                           IN x[1] + f[s \ {x}]

LEMMA TotalFolds ==
  ASSUME NEW S, Weighed(S)
  PROVE  \E f \in [SUBSET S -> Nat] : Folded(f, SUBSET S) /\ Total(S) = f[S]
<1> DEFINE Body(f) == [s \in SUBSET S |->
                         IF s = {} THEN 0
                         ELSE LET x == CHOOSE x \in s : TRUE
                              IN x[1] + f[s \ {x}]]
           iter == CHOOSE f : f = Body(f)
           pick == [s \in SUBSET S |-> CHOOSE x \in s : TRUE]
           step == [x \in S |-> [v \in Nat |-> x[1] + v]]
<1>1. \A s \in SUBSET S : s # {} => pick[s] \in s
  OBVIOUS
<1>2. step \in [S -> [Nat -> Nat]]
  BY DEF Weighed
<1>3. PICK f \in [SUBSET S -> Nat] : ComputesSets(f, SUBSET S, 0, pick, step)
  <2> DEFINE V == Nat
             z == 0
  <2>1. IsFiniteSet(S) /\ z \in V /\ step \in [S -> [V -> V]]
    BY <1>2 DEF Weighed
  <2> HIDE DEF pick, step, V, z
  <2>2. \E f \in [SUBSET S -> V] : ComputesSets(f, SUBSET S, z, pick, step)
    BY <1>1, <2>1, SetRecursion
  <2> QED BY <2>2 DEF V, z
<1>4. ASSUME NEW s \in SUBSET S, s # {}
      PROVE  f[s] = pick[s][1] + f[s \ {pick[s]}]
  <2>1. pick[s] \in S /\ f[s \ {pick[s]}] \in Nat
    BY <1>1, <1>3, <1>4
  <2> HIDE DEF pick
  <2>2. f[s] = step[pick[s]][f[s \ {pick[s]}]]
    BY <1>3, <1>4 DEF ComputesSets
  <2> QED BY <2>1, <2>2
<1>5. f[{}] = 0
  BY <1>3 DEF ComputesSets
<1>6. f = Body(f)
  BY <1>3, <1>4, <1>5
<1>7. iter = Body(iter)
  <2> HIDE DEF Body
  <2> QED BY <1>6
<1>8. Total(S) = iter[S]
  BY DEF Total, MapThenSumSet, MapThenFoldSet
<1> HIDE DEF iter
<1>9. Folded(iter, SUBSET S) /\ Folded(f, SUBSET S)
  BY <1>6, <1>7 DEF Folded
<1>10. \A s \in SUBSET S : iter[s] = f[s]
  <2> DEFINE Bad == {s \in SUBSET S : iter[s] # f[s]}
  <2>1. SUFFICES ASSUME Bad # {}
                 PROVE  FALSE
    OBVIOUS
  <2>2. \A s \in SUBSET S : IsFiniteSet(s)
    BY FS_Subset DEF Weighed
  <2>3. PICK s \in Bad : \A t \in Bad : Cardinality(s) <= Cardinality(t)
    <3>1. \A t \in Bad : IsFiniteSet(t)
      BY <2>2
    <3> HIDE DEF Bad
    <3> QED BY <2>1, <3>1, LeastSet
  <2> DEFINE x == CHOOSE x \in s : TRUE
  <2>4. s \in SUBSET S /\ s # {}
    BY <1>9, <2>3 DEF Folded
  <2>5. x \in s
    BY <2>4
  <2>6. iter[s] = x[1] + iter[s \ {x}] /\ f[s] = x[1] + f[s \ {x}]
    BY <1>9, <2>4 DEF Folded
  <2> HIDE DEF x
  <2>7. s \ {x} \in Bad
    BY <2>3, <2>4, <2>6
  <2>8. Cardinality(s \ {x}) = Cardinality(s) - 1 /\ Cardinality(s) \in Nat
    BY <2>2, <2>4, <2>5, FS_RemoveElement, FS_CardinalityType
  <2> HIDE DEF Bad
  <2> QED BY <2>3, <2>7, <2>8
<1> QED BY <1>3, <1>8, <1>9, <1>10

(* A total is that of the entries without one of them, and that one.       *)
LEMMA TotalWithout ==
  ASSUME NEW S, Weighed(S)
  PROVE  /\ Total(S) \in Nat
         /\ S = {} => Total(S) = 0
         /\ \A x \in S : Total(S) = x[1] + Total(S \ {x})
<1>1. \A T \in SUBSET S : Weighed(T) /\ Cardinality(T) \in Nat
  BY FS_Subset, FS_CardinalityType DEF Weighed
<1>2. \A T \in SUBSET S : Total(T) \in Nat /\ (T = {} => Total(T) = 0)
  <2>1. ASSUME NEW T \in SUBSET S
        PROVE  Total(T) \in Nat /\ (T = {} => Total(T) = 0)
    <3>1. PICK f \in [SUBSET T -> Nat] : Folded(f, SUBSET T) /\ Total(T) = f[T]
      BY <1>1, TotalFolds
    <3>2. T \in SUBSET T
      OBVIOUS
    <3> QED BY <3>1, <3>2 DEF Folded
  <2> QED BY <2>1
<1> DEFINE Picked(T) == CHOOSE x \in T : TRUE
<1>3. ASSUME NEW T \in SUBSET S, T # {}
      PROVE  Total(T) = Picked(T)[1] + Total(T \ {Picked(T)})
  <2>1. PICK f \in [SUBSET T -> Nat] : Folded(f, SUBSET T) /\ Total(T) = f[T]
    BY <1>1, TotalFolds
  <2> DEFINE R == T \ {Picked(T)}
  <2>2. R \in SUBSET T /\ R \in SUBSET S
    OBVIOUS
  <2>3. PICK g \in [SUBSET R -> Nat] : Folded(g, SUBSET R) /\ Total(R) = g[R]
    BY <1>1, <2>2, TotalFolds
  <2>4. \A s \in SUBSET R : f[s] = g[s]
    <3> DEFINE Bad == {s \in SUBSET R : f[s] # g[s]}
    <3>1. SUFFICES ASSUME Bad # {}
                   PROVE  FALSE
      OBVIOUS
    <3>2. \A s \in SUBSET R : IsFiniteSet(s) /\ s \in SUBSET T
      BY <1>1, <2>2 DEF Weighed
    <3>3. PICK s \in Bad : \A t \in Bad : Cardinality(s) <= Cardinality(t)
      <4>1. \A t \in Bad : IsFiniteSet(t)
        BY <3>2
      <4> HIDE DEF Bad
      <4> QED BY <3>1, <4>1, LeastSet
    <3>4. s \in SUBSET R /\ s \in SUBSET T /\ s # {} /\ IsFiniteSet(s)
      BY <2>1, <2>3, <3>2, <3>3 DEF Folded
    <3> DEFINE x == CHOOSE x \in s : TRUE
    <3>5. x \in s
      BY <3>4
    <3>6. f[s] = x[1] + f[s \ {x}] /\ g[s] = x[1] + g[s \ {x}]
      <4> HIDE DEF R
      <4> QED BY <2>1, <2>3, <3>4 DEF Folded
    <3> HIDE DEF x, R
    <3>7. s \ {x} \in Bad
      BY <3>3, <3>4, <3>6
    <3>8. Cardinality(s \ {x}) = Cardinality(s) - 1 /\ Cardinality(s) \in Nat
      BY <3>4, <3>5, FS_RemoveElement, FS_CardinalityType
    <3> HIDE DEF Bad
    <3> QED BY <3>3, <3>7, <3>8
  <2>5. f[T] = Picked(T)[1] + f[R]
    BY <1>3, <2>1 DEF Folded
  <2> HIDE DEF R
  <2> QED BY <2>1, <2>3, <2>4, <2>5 DEF R
<1>4. \A T \in SUBSET S : T # {} => Picked(T) \in T
  OBVIOUS
<1> HIDE DEF Picked
<1> DEFINE Without(T) == \A x \in T : Total(T) = x[1] + Total(T \ {x})
           Bad == {T \in SUBSET S : ~Without(T)}
<1>5. Bad = {}
  <2>1. SUFFICES ASSUME Bad # {}
                 PROVE  FALSE
    OBVIOUS
  <2>2. PICK T \in Bad : \A U \in Bad : Cardinality(T) <= Cardinality(U)
    <3>1. \A U \in Bad : IsFiniteSet(U)
      BY <1>1 DEF Weighed
    <3> HIDE DEF Bad
    <3> QED BY <2>1, <3>1, LeastSet
  <2>3. PICK x \in T : Total(T) # x[1] + Total(T \ {x})
    BY <2>2
  <2> DEFINE c == Picked(T)
  <2>4. T \in SUBSET S /\ c \in T /\ IsFiniteSet(T) /\ c \in S /\ x \in S
    BY <1>1, <1>4, <2>2, <2>3 DEF Weighed
  <2>5. Total(T) = c[1] + Total(T \ {c})
    BY <1>3, <2>4
  <2> HIDE DEF c
  <2>6. x # c
    BY <2>3, <2>5
  <2>7. \A y \in T : Without(T \ {y})
    <3>1. ASSUME NEW y \in T
          PROVE  Without(T \ {y})
      <4>1. Cardinality(T \ {y}) = Cardinality(T) - 1 /\ Cardinality(T) \in Nat
        BY <2>4, FS_RemoveElement, FS_CardinalityType
      <4>2. ~(Cardinality(T) <= Cardinality(T \ {y}))
        BY <4>1
      <4> HIDE DEF Without
      <4> QED BY <2>2, <2>4, <4>2
    <3> QED BY <3>1
  <2>8. Total(T \ {c}) = x[1] + Total((T \ {c}) \ {x})
    BY <2>4, <2>6, <2>7
  <2>9. Total(T \ {x}) = c[1] + Total((T \ {x}) \ {c})
    BY <2>4, <2>6, <2>7
  <2> DEFINE U == (T \ {x}) \ {c}
  <2>10. (T \ {c}) \ {x} = U
    OBVIOUS
  <2>11. c[1] \in Nat /\ x[1] \in Nat /\ Total(U) \in Nat
    BY <1>2, <2>4 DEF Weighed
  <2>12. Total(T) = c[1] + (x[1] + Total(U)) /\ Total(T \ {x}) = c[1] + Total(U)
    BY <2>5, <2>8, <2>9, <2>10
  <2> HIDE DEF U, Without
  <2> QED BY <2>3, <2>11, <2>12
<1> QED BY <1>2, <1>5

(* The free list's size stays covered by free_size, which is a natural     *)
(* number: it never wraps below zero.                                      *)
SizeInv ==
  /\ PoolInv
  /\ IsFiniteSet(free_memory)
  /\ free_size \in Nat
  /\ FreeSizeCovers

LEMMA ListSizeIsTotal == ListSize = Total(free_memory) /\ ListSize' = Total(free_memory')
BY DEF ListSize

LEMMA EntriesWeighed ==
  ASSUME SizeInv
  PROVE  \A E \in SUBSET free_memory :
           Weighed(E) /\ Total(E) \in Nat /\ Total(E) <= free_size
<1>1. Weighed(free_memory) /\ Total(free_memory) <= free_size
  BY ListSizeIsTotal DEF SizeInv, PoolInv, PoolTypes, Weighed, FreeSizeCovers
<1>2. \A E \in SUBSET free_memory : Weighed(E) /\ IsFiniteSet(E)
  BY <1>1, FS_Subset DEF Weighed
<1> DEFINE Over == {E \in SUBSET free_memory : ~(Total(E) <= free_size)}
           Left(E) == free_memory \ E
<1>3. Over = {}
  <2>1. SUFFICES ASSUME Over # {}
                 PROVE  FALSE
    OBVIOUS
  <2> DEFINE Rest == {Left(E) : E \in Over}
  <2>2. PICK R \in Rest : \A T \in Rest : Cardinality(R) <= Cardinality(T)
    <3>1. Rest # {} /\ \A T \in Rest : IsFiniteSet(T)
      BY <1>2, <2>1
    <3> HIDE DEF Rest
    <3> QED BY <3>1, LeastSet
  <2>3. PICK E \in Over : R = Left(E)
    BY <2>2
  <2>4. R # {}
    BY <1>1, <2>3
  <2>5. PICK x \in R : TRUE
    BY <2>4
  <2> DEFINE F == E \union {x}
  <2>6. F \in SUBSET free_memory /\ x \in F /\ F \ {x} = E /\ Left(F) = R \ {x}
    BY <2>3, <2>5
  <2>7. Total(F) = x[1] + Total(E) /\ x[1] \in Nat /\ Total(E) \in Nat
    <3> HIDE DEF F
    <3>1. Weighed(F) /\ Weighed(E)
      BY <1>2, <2>3, <2>6
    <3> QED BY <2>6, <3>1, TotalWithout DEF Weighed
  <2>8. F \in Over
    <3> HIDE DEF F
    <3> QED BY <2>3, <2>6, <2>7 DEF SizeInv
  <2>9. Cardinality(R \ {x}) = Cardinality(R) - 1 /\ Cardinality(R) \in Nat
    <3>1. IsFiniteSet(R)
      BY <1>2, <2>3
    <3> QED BY <2>5, <3>1, FS_RemoveElement, FS_CardinalityType
  <2>10. R \ {x} \in Rest
    BY <2>6, <2>8
  <2> HIDE DEF Rest
  <2> QED BY <2>2, <2>9, <2>10
<1> QED BY <1>2, <1>3, TotalWithout

LEMMA SizeInit == Init => SizeInv
<1> SUFFICES ASSUME Init
             PROVE  SizeInv
  OBVIOUS
<1>1. IsFiniteSet({}) /\ Weighed({}) /\ Total({}) = 0
  BY FS_EmptySet, TotalWithout DEF Weighed
<1> QED BY <1>1, PoolInit, LimitAssumption, ListSizeIsTotal
       DEF Init, SizeInv, FreeSizeCovers

LEMMA SizeNext == SizeInv /\ [Next]_vars => SizeInv'
<1> SUFFICES ASSUME SizeInv, [Next]_vars
             PROVE  SizeInv'
  OBVIOUS
<1>1. PoolInv'
  BY PoolNext DEF SizeInv
<1>2. /\ Total(free_memory) \in Nat /\ Total(free_memory) <= free_size
      /\ free_size \in Nat /\ free_size < Limit /\ Weighed(free_memory)
      /\ IsFiniteSet(free_memory)
  BY EntriesWeighed DEF SizeInv, FreeSizeCovers
<1>3. ASSUME NEW E \in SUBSET free_memory, free_memory' = E,
             free_size' \in Nat, free_size' < Limit, Total(E) <= free_size'
      PROVE  SizeInv'
  <2>1. IsFiniteSet(E)
    BY <1>2, FS_Subset
  <2> QED BY <1>1, <1>3, <2>1, ListSizeIsTotal DEF SizeInv, FreeSizeCovers
<1>4. ASSUME NEW n \in Sizes, NEW entry \in free_memory, AllocPooled(n, entry)
      PROVE  SizeInv'
  <2>1. entry[1] = size[entry[2]] /\ entry[1] \in Nat
    BY <1>2 DEF SizeInv, PoolInv, BlocksAccounted, Weighed
  <2> DEFINE E == free_memory \ {entry}
  <2>2. free_memory' = E /\ free_size' = free_size - entry[1]
    BY <1>4, <2>1 DEF AllocPooled
  <2>3. Total(free_memory) = entry[1] + Total(E) /\ Total(E) \in Nat
    BY <1>2, TotalWithout, EntriesWeighed
  <2>4. E \in SUBSET free_memory
    OBVIOUS
  <2> HIDE DEF E
  <2>5. free_size' \in Nat /\ free_size' < Limit /\ Total(E) <= free_size'
    BY <1>2, <2>1, <2>2, <2>3, LimitAssumption
  <2> QED BY <1>3, <2>2, <2>4, <2>5
<1>5. ASSUME NEW b \in Blocks, Recycle(b), size[b] + free_size < Limit
      PROVE  SizeInv'
  <2> DEFINE entry == <<size[b], b>>
             F == free_memory \union {entry}
  <2>1. /\ free_memory' = F /\ free_size' = free_size + size[b]
        /\ size[b] \in Nat /\ entry[1] = size[b]
    BY <1>5 DEF Recycle, SizeInv, PoolInv, PoolTypes
  <2>2. entry \notin free_memory
    <3>1. b \in used
      BY <1>5 DEF Recycle
    <3>2. entry[2] = b
      OBVIOUS
    <3> HIDE DEF entry
    <3> QED BY <3>1, <3>2, EntryOfBlock DEF SizeInv
  <2>3. Weighed(F)
    BY <1>2, <2>1, FS_AddElement DEF Weighed
  <2> HIDE DEF entry
  <2>4. F \ {entry} = free_memory /\ entry \in F
    BY <2>2
  <2> HIDE DEF F
  <2>5. Total(F) = size[b] + Total(free_memory)
    BY <2>1, <2>3, <2>4, TotalWithout
  <2>6. free_size' \in Nat /\ free_size' < Limit /\ Total(F) <= free_size'
    BY <1>2, <1>5, <2>1, <2>5, LimitAssumption
  <2> QED BY <1>1, <2>1, <2>3, <2>6, ListSizeIsTotal
         DEF SizeInv, FreeSizeCovers, Weighed
<1>6. ASSUME free_memory' \in SUBSET free_memory, free_size' = free_size
      PROVE  SizeInv'
  <2>1. Total(free_memory') <= free_size'
    BY <1>6, EntriesWeighed
  <2> QED BY <1>2, <1>3, <1>6, <2>1
<1>7. ASSUME NEW n \in Sizes, NEW b \in Blocks, AllocNew(n, b)
      PROVE  SizeInv'
  BY <1>6, <1>7 DEF AllocNew
<1>8. ASSUME NEW b \in Blocks, Recycle(b), ~(size[b] + free_size < Limit)
      PROVE  SizeInv'
  BY <1>6, <1>8 DEF Recycle
<1>9. Collect \/ CollectAll => SizeInv'
  BY <1>6 DEF Collect, CollectAll
<1>10. ASSUME NEW t \in Times, SetClock(t)
       PROVE  SizeInv'
  BY <1>6, <1>10 DEF SetClock
<1>11. CASE UNCHANGED vars
  BY <1>6, <1>11 DEF vars
<1> QED BY <1>4, <1>5, <1>7, <1>8, <1>9, <1>10, <1>11 DEF Next

THEOREM SizeInvariance == Spec => []SizeInv
BY SizeInit, SizeNext, PTL DEF Spec

(* gc never underestimates its free list, and keeps it below its limit.    *)
THEOREM ListStaysCovered == Spec => []FreeSizeCovers
<1>1. SizeInv => FreeSizeCovers
  BY DEF SizeInv
<1> QED BY <1>1, SizeInvariance, PTL

(* The variables have the types the code declares; in particular free_size,*)
(* which is unsigned, is never taken below zero.                           *)
THEOREM TypesCorrect == Spec => []TypeOK
<1>1. Init => TypeOK
  <2> SUFFICES ASSUME Init
               PROVE  TypeOK
    OBVIOUS
  <2>1. /\ size \in [Blocks -> Nat] /\ asked \in [Blocks -> Nat]
        /\ collected_time \in [Blocks -> Times \union {0}]
    BY DEF Init
  <2>2. /\ heap \subseteq Blocks /\ used \subseteq Blocks
        /\ free_memory \subseteq Nat \X Blocks
        /\ free_size \in Nat /\ now \in Times
    BY DEF Init
  <2>3. swept \in BOOLEAN
    BY DEF Init
  <2> QED BY <2>1, <2>2, <2>3 DEF TypeOK
<1>2. TypeOK /\ SizeInv /\ SizeInv' /\ [Next]_vars => TypeOK'
  <2> SUFFICES ASSUME TypeOK, SizeInv, SizeInv', [Next]_vars
               PROVE  TypeOK'
    OBVIOUS
  <2>1. /\ heap' \subseteq Blocks /\ size' \in [Blocks -> Nat] /\ free_size' \in Nat
        /\ asked' \in [Blocks -> Nat] /\ free_memory' \subseteq Nat \X Blocks
        /\ used' \subseteq Blocks
    BY DEF SizeInv, PoolInv, PoolTypes, BlocksAccounted
  <2>2. /\ collected_time' \in [Blocks -> Times \union {0}]
        /\ now' \in Times /\ swept' \in BOOLEAN
    BY DEF TypeOK, Next, AllocPooled, AllocNew, Recycle, Collect, CollectAll,
           SetClock, headers, vars
  <2> QED BY <2>1, <2>2 DEF TypeOK
<1> QED BY <1>1, <1>2, SizeInvariance, PTL DEF Spec
=============================================================================
