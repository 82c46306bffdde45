------------------------- MODULE VTableSearchProofs -------------------------
(***************************************************************************)
(* Proofs about VTableSearch, for every range of hashes and every set of   *)
(* sorted tables.  The inductive invariant is IInv: the type invariant,    *)
(* the loop's invariant (Narrowing) and what is known of the result        *)
(* (ResultMatches, NothingLeft).                                           *)
(***************************************************************************)
EXTENDS VTableSearch, TLAPS

(* The midpoint of two positions lies between them.                        *)
LEMMA Midpoint ==
  ASSUME NEW a \in Int, NEW b \in Int, a <= b
  PROVE  /\ (b + a) \div 2 \in Int
         /\ a <= (b + a) \div 2
         /\ (b + a) \div 2 <= b
  BY SMT

(* The signed difference of two hashes orders them, because hashes use     *)
(* half of the words only.                                                 *)
LEMMA DifferenceOrders ==
  ASSUME NEW a \in Hashes, NEW b \in Hashes
  PROVE  /\ Difference(a, b) = 0 <=> a = b
         /\ Difference(a, b) < 0 <=> a < b
         /\ Difference(a, b) > 0 <=> a > b
  BY HalfAssumption, SMT DEF Difference, Hashes

(* What a table considered is.                                             *)
LEMMA TableFacts ==
  ASSUME NEW t \in Tables
  PROVE  /\ Len(t) \in Nat
         /\ \A p \in 0 .. Len(t) - 1 : t[p + 1] \in Hashes
         /\ \A p, q \in 0 .. Len(t) - 1 : p < q => t[p + 1] < t[q + 1]
<1>1. t \in Seq(Hashes) /\ Sorted(t)
  BY TablesAssumption
<1>2. Len(t) \in Nat /\ \A i \in 1 .. Len(t) : t[i] \in Hashes
  BY <1>1
<1>3. \A p \in 0 .. Len(t) - 1 : p + 1 \in 1 .. Len(t)
  BY <1>2
<1>4. \A p, q \in 0 .. Len(t) - 1 : p < q => t[p + 1] < t[q + 1]
  <2> SUFFICES ASSUME NEW p \in 0 .. Len(t) - 1, NEW q \in 0 .. Len(t) - 1, p < q
               PROVE  t[p + 1] < t[q + 1]
    OBVIOUS
  <2>1. p + 1 \in 1 .. Len(t) /\ q + 1 \in 1 .. Len(t) /\ p + 1 < q + 1
    BY <1>2, <1>3
  <2> QED
    BY <1>1, <2>1 DEF Sorted
<1> QED
  BY <1>2, <1>3, <1>4

(* The loop's invariant holds when a search starts.                        *)
LEMMA InitIInv == Init => IInv
<1> SUFFICES ASSUME Init PROVE IInv
  OBVIOUS
<1>1. Len(table) \in Nat
  BY TableFacts DEF Init
<1>2. TypeOK
  <2>1. Highest(search, table) \in Int /\ Highest(search, table) >= -1
    BY <1>1 DEF Highest
  <2>2. table \in Tables /\ hash_id \in Hashes
        /\ search \in {"find", "class_find"} /\ done \in BOOLEAN
    BY DEF Init
  <2>3. /\ lo \in 0 .. Highest(search, table) + 1
        /\ hi \in -1 .. Highest(search, table)
        /\ result \in Null .. Highest(search, table)
    BY <2>1 DEF Init, Null
  <2> QED
    BY <2>2, <2>3 DEF TypeOK
<1>3. Narrowing
  BY <1>1, SMT DEF Init, Narrowing, Highest, Positions, no_entries
<1>4. ResultMatches /\ NothingLeft
  BY DEF Init, ResultMatches, NothingLeft
<1> QED
  BY <1>2, <1>3, <1>4 DEF IInv

(* A word behind the table is read only once every entry has been left     *)
(* out below.                                                              *)
LEMMA Behind ==
  ASSUME TypeOK, Looping, pivot \notin Positions
  PROVE  lo >= no_entries /\ pivot = no_entries /\ search = "class_find"
<1>1. no_entries \in Nat
  BY TableFacts DEF TypeOK, no_entries
<1>2. Highest(search, table) \in {no_entries - 1, no_entries}
  BY <1>1 DEF Highest, no_entries
<1>3. lo \in Nat /\ hi \in Int /\ lo <= hi /\ hi <= Highest(search, table)
  BY <1>1, <1>2 DEF TypeOK, Looping
<1>4. pivot \in Nat /\ pivot <= hi
  BY <1>3, Midpoint DEF pivot
<1>5. pivot >= no_entries
  BY <1>1, <1>4 DEF Positions
<1>6. hi = no_entries /\ pivot = no_entries /\ Highest(search, table) = no_entries
  BY <1>1, <1>2, <1>3, <1>4, <1>5
<1>7. lo >= no_entries
  BY <1>1, <1>3, <1>6 DEF pivot
<1>8. search = "class_find"
  BY <1>1, <1>6 DEF TypeOK, Highest, no_entries
<1> QED
  BY <1>6, <1>7, <1>8

(* Each step of a search keeps the invariant.                              *)
LEMMA NextIInv == IInv /\ [Next]_vars => IInv'
<1> SUFFICES ASSUME IInv, [Next]_vars PROVE IInv'
  OBVIOUS
<1> USE DEF IInv
<1>1. /\ Len(table) \in Nat
      /\ \A p \in Positions : table[p + 1] \in Hashes
      /\ \A p, q \in Positions : p < q => table[p + 1] < table[q + 1]
  BY TableFacts DEF TypeOK, Positions, no_entries
<1>2. /\ Highest(search, table) \in Int
      /\ lo \in Int /\ hi \in Int
  BY <1>1 DEF TypeOK, Highest
<1>3. ASSUME Looping
      PROVE  /\ pivot \in 0 .. Highest(search, table)
             /\ lo <= pivot
             /\ pivot <= hi
  <2>1. lo <= hi
    BY <1>3 DEF Looping
  <2>2. pivot \in Int /\ lo <= pivot /\ pivot <= hi
    BY <1>2, <2>1, Midpoint DEF pivot
  <2> QED
    BY <1>2, <2>2 DEF TypeOK
<1>4. CASE Hit
  <2>1. /\ pivot \in 0 .. Highest(search, table)
        /\ result' = pivot /\ done'
        /\ UNCHANGED <<table, hash_id, search, lo, hi>>
    BY <1>3, <1>4 DEF Hit
  <2>2. TypeOK'
    BY <1>2, <2>1 DEF TypeOK, Highest, Null
  <2>3. Narrowing'
    BY <2>1 DEF Narrowing, Positions, no_entries
  <2>4. ResultMatches'
    <3> SUFFICES ASSUME pivot \in Positions PROVE table[pivot + 1] = hash_id
      BY <2>1 DEF ResultMatches, Positions, no_entries
    <3>1. Difference(hash_id, table[pivot + 1]) = 0
      BY <1>4 DEF Hit, Read
    <3> QED
      BY <1>1, <3>1, DifferenceOrders DEF TypeOK
  <2>5. NothingLeft'
    BY <1>1, <1>2, <1>4, <2>1, Behind DEF Hit, NothingLeft, Positions, no_entries, Null
  <2> QED
    BY <2>2, <2>3, <2>4, <2>5
<1>5. CASE Below
  <2>1. /\ pivot \in 0 .. Highest(search, table)
        /\ pivot <= hi
        /\ hi' = pivot - 1 /\ ~done
        /\ UNCHANGED <<table, hash_id, search, lo, result, done>>
    BY <1>3, <1>5 DEF Below
  <2>2. TypeOK'
    BY <1>2, <2>1 DEF TypeOK, Highest
  <2>3. \A p \in Positions : p >= pivot => hash_id < table[p + 1]
    <3> SUFFICES ASSUME NEW p \in Positions, p >= pivot
                 PROVE  hash_id < table[p + 1]
      OBVIOUS
    <3>1. p \in Int /\ pivot \in Positions
      BY <1>1, <2>1 DEF Positions, no_entries
    <3>2. Difference(hash_id, table[pivot + 1]) < 0
      BY <1>5, <3>1 DEF Below, Read
    <3>3. hash_id < table[pivot + 1]
      BY <1>1, <3>1, <3>2, DifferenceOrders DEF TypeOK
    <3>4. table[pivot + 1] <= table[p + 1]
      <4>1. CASE p = pivot
        BY <1>1, <3>1, <4>1 DEF Hashes
      <4>2. CASE pivot < p
        BY <1>1, <3>1, <4>2 DEF Hashes
      <4> QED
        BY <2>1, <3>1, <4>1, <4>2
    <3> QED
      BY <1>1, <3>1, <3>3, <3>4, HalfAssumption DEF TypeOK, Hashes
  <2>4. Narrowing'
    <3>1. \A p \in Positions : p \in Int /\ (p > pivot - 1 => p >= pivot)
      BY <1>1, <2>1 DEF Positions, no_entries
    <3>2. Positions' = Positions
      BY <2>1 DEF Positions, no_entries
    <3>3. (\A p \in Positions : p < lo => table[p + 1] < hash_id)'
      BY <2>1, <3>2 DEF Narrowing
    <3>4. (\A p \in Positions : p > hi => hash_id < table[p + 1])'
      BY <2>1, <2>3, <3>1, <3>2
    <3> QED
      BY <3>3, <3>4 DEF Narrowing
  <2>5. NothingLeft'
    BY <2>1 DEF NothingLeft
  <2> QED
    BY <2>1, <2>2, <2>4, <2>5 DEF ResultMatches
<1>6. CASE Above
  <2>1. /\ pivot \in 0 .. Highest(search, table)
        /\ lo <= pivot
        /\ lo' = pivot + 1 /\ ~done
        /\ UNCHANGED <<table, hash_id, search, hi, result, done>>
    BY <1>3, <1>6 DEF Above
  <2>2. TypeOK'
    BY <1>2, <2>1 DEF TypeOK, Highest
  <2>3. \A p \in Positions : p <= pivot => table[p + 1] < hash_id
    <3> SUFFICES ASSUME NEW p \in Positions, p <= pivot
                 PROVE  table[p + 1] < hash_id
      OBVIOUS
    <3>1. CASE pivot \in Positions
      <4>1. Difference(hash_id, table[pivot + 1]) > 0
        BY <1>6, <3>1 DEF Above, Read
      <4>2. table[pivot + 1] < hash_id
        BY <1>1, <3>1, <4>1, DifferenceOrders, HalfAssumption DEF TypeOK, Hashes
      <4>3. p \in Int /\ pivot \in Int
        BY <1>1, <3>1 DEF Positions, no_entries
      <4>4. table[p + 1] <= table[pivot + 1]
        <5>1. CASE p = pivot
          BY <1>1, <3>1, <5>1 DEF Hashes
        <5>2. CASE p < pivot
          BY <1>1, <3>1, <5>2 DEF Hashes
        <5> QED
          BY <4>3, <5>1, <5>2
      <4> QED
        BY <1>1, <3>1, <4>2, <4>4, HalfAssumption DEF TypeOK, Hashes
    <3>2. CASE pivot \notin Positions
      <4>1. lo >= no_entries
        BY <1>6, <3>2, Behind DEF Above
      <4> QED
        BY <1>1, <1>2, <4>1 DEF Narrowing, Positions, no_entries
    <3> QED
      BY <3>1, <3>2
  <2>4. Narrowing'
    <3>1. \A p \in Positions : p \in Int /\ (p < pivot + 1 => p <= pivot)
      BY <1>1, <2>1 DEF Positions, no_entries
    <3>2. Positions' = Positions
      BY <2>1 DEF Positions, no_entries
    <3>3. (\A p \in Positions : p < lo => table[p + 1] < hash_id)'
      BY <2>1, <2>3, <3>1, <3>2
    <3>4. (\A p \in Positions : p > hi => hash_id < table[p + 1])'
      BY <2>1, <3>2 DEF Narrowing
    <3> QED
      BY <3>3, <3>4 DEF Narrowing
  <2>5. NothingLeft'
    BY <2>1 DEF NothingLeft
  <2> QED
    BY <2>1, <2>2, <2>4, <2>5 DEF ResultMatches
<1>7. CASE Miss
  BY <1>1, <1>2, <1>7
  DEF Miss, TypeOK, Narrowing, ResultMatches, NothingLeft, Looping, Positions,
      no_entries, Null, Highest
<1>8. CASE UNCHANGED vars
  BY <1>8
  DEF vars, TypeOK, Narrowing, ResultMatches, NothingLeft, Looping, Positions,
      no_entries, Highest
<1> QED
  BY <1>4, <1>5, <1>6, <1>7, <1>8 DEF Next

(* The invariant holds throughout a search.                                *)
THEOREM SearchInvariance == Spec => []IInv
  BY InitIInv, NextIInv, PTL DEF Spec

(* Whatever table of sorted hashes a class has, both searches find the     *)
(* entry of a message that is in it: reading behind the table does not     *)
(* make class_find miss one.                                               *)
THEOREM EntriesAreFound == Spec => []FindsEntries
<1>1. IInv => FindsEntries
  <2> SUFFICES ASSUME IInv, done, NEW p \in Positions, table[p + 1] = hash_id
               PROVE  result = p
    BY DEF FindsEntries
  <2> USE DEF IInv
  <2>1. /\ Len(table) \in Nat
        /\ \A q, r \in Positions : q < r => table[q + 1] < table[r + 1]
        /\ \A q \in Positions : table[q + 1] \in Hashes
    BY TableFacts DEF TypeOK, Positions, no_entries
  <2>2. p \in Int /\ lo \in Int /\ hi \in Int /\ no_entries \in Nat
    BY <2>1 DEF TypeOK, Positions, no_entries, Highest
  <2>3. ~(hash_id < hash_id)
    BY DEF TypeOK, Hashes
  <2>4. lo <= p /\ p <= hi
    BY <2>2, <2>3 DEF Narrowing
  <2>5. p < no_entries /\ 0 <= p
    BY <2>2 DEF Positions
  <2>6. Looping
    BY <2>2, <2>4, <2>5 DEF Looping
  <2>7. result \in Positions
    BY <2>2, <2>4, <2>5, <2>6 DEF NothingLeft
  <2>8. table[result + 1] = hash_id
    BY <2>7 DEF ResultMatches
  <2>9. ~(result < p) /\ ~(p < result)
    BY <2>1, <2>3, <2>7, <2>8
  <2> QED
    BY <2>2, <2>7, <2>9 DEF Positions
<1> QED
  BY <1>1, SearchInvariance, PTL

(* find returns an entry with the hash, or null, and never anything else.  *)
THEOREM FindReturnsEntries == Spec => []FindsOnlyEntries
<1>1. IInv => FindsOnlyEntries
  <2> SUFFICES ASSUME IInv, done, search = "find", result # Null
               PROVE  result \in Positions /\ table[result + 1] = hash_id
    BY DEF FindsOnlyEntries
  <2>1. Len(table) \in Nat
    BY TableFacts DEF IInv, TypeOK
  <2>2. result \in Positions
    BY <2>1 DEF IInv, TypeOK, Highest, Positions, no_entries, Null
  <2> QED
    BY <2>2 DEF IInv, ResultMatches
<1> QED
  BY <1>1, SearchInvariance, PTL

(* find reads nothing but the table, class_find at most the word behind it.*)
THEOREM ReadsStayClose == Spec => []ReadsTable
<1>1. IInv => ReadsTable
  <2> SUFFICES ASSUME IInv, ~done, Looping
               PROVE  /\ pivot \in 0 .. no_entries
                      /\ search = "find" => pivot \in Positions
    BY DEF ReadsTable
  <2>1. no_entries \in Nat
    BY TableFacts DEF IInv, TypeOK, no_entries
  <2>2. CASE pivot \in Positions
    BY <2>1, <2>2 DEF Positions
  <2>3. CASE pivot \notin Positions
    BY <2>1, <2>3, Behind DEF IInv
  <2> QED
    BY <2>2, <2>3
<1> QED
  BY <1>1, SearchInvariance, PTL
=============================================================================
