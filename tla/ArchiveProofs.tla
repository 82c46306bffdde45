--------------------------- MODULE ArchiveProofs ----------------------------
(***************************************************************************)
(* Proofs about Archive, for any objects that refer to each other in any   *)
(* way, in lists or by properties, and any number of calls of get_object,  *)
(* also of those the stream has failed for.                                *)
(*                                                                         *)
(* The argument: writing only appends to the index, so that a position     *)
(* once written stays the position of the same object.  While objects are  *)
(* read, their numbers grow from the outmost call to the inmost, and what  *)
(* an object below a call refers to is below that call too: so if a call   *)
(* returns and nobody keeps its object, none of the objects that go is     *)
(* referred to by one that stays.                                          *)
(*                                                                         *)
(* In a tree the calls are the path from the object that is read to the    *)
(* first, which is where the parents are: a reference to a parent finds it *)
(* in the index, every other makes a new object, and nothing goes.         *)
(***************************************************************************)
EXTENDS Archive, WellOrder

(***************************************************************************)
(* The index                                                               *)
(***************************************************************************)
Indexed == Objects \union {Null}
Links == [to : Indexed, weak : BOOLEAN]
Graph == [Objects -> Seq(Links)]

Distinct(s) == \A p, q \in DOMAIN s : s[p] = s[q] => p = q
Extends(s, t) == Len(s) <= Len(t) /\ \A p \in DOMAIN s : t[p] = s[p]

LEMMA PropertyAdded ==
  ASSUME NEW s \in Seq(Indexed), Distinct(s), NEW o \in Indexed
  PROVE  /\ add_property(s, o) \in Seq(Indexed)
         /\ Distinct(add_property(s, o))
         /\ Extends(s, add_property(s, o))
         /\ o \in Range(add_property(s, o))
         /\ \A p \in DOMAIN add_property(s, o) : p \in DOMAIN s \/ add_property(s, o)[p] = o
<1>1. CASE o \in Range(s)
  BY <1>1 DEF add_property, Extends
<1>2. CASE o \notin Range(s)
  <2> DEFINE t == Append(s, o)
  <2>1. /\ t \in Seq(Indexed) /\ Len(t) = Len(s) + 1 /\ Len(s) \in Nat
        /\ DOMAIN t = DOMAIN s \union {Len(s) + 1}
        /\ \A p \in DOMAIN s : t[p] = s[p]
        /\ t[Len(s) + 1] = o
    OBVIOUS
  <2> HIDE DEF t
  <2>2. \A p \in DOMAIN s : s[p] # o
    BY <1>2 DEF Range
  <2>3. Distinct(t)
    BY <2>1, <2>2 DEF Distinct
  <2>4. o \in Range(t)
    BY <2>1 DEF Range
  <2> QED BY <1>2, <2>1, <2>3, <2>4 DEF add_property, Extends, t
<1> QED BY <1>1, <1>2

LEMMA ExtendsTwice ==
  ASSUME NEW s \in Seq(Indexed), NEW t \in Seq(Indexed), NEW u \in Seq(Indexed),
         Extends(s, t), Extends(t, u)
  PROVE  Extends(s, u) /\ Range(t) \subseteq Range(u)
<1>1. /\ DOMAIN s = 1 .. Len(s) /\ DOMAIN t = 1 .. Len(t) /\ DOMAIN u = 1 .. Len(u)
      /\ Len(s) \in Nat /\ Len(t) \in Nat /\ Len(u) \in Nat
  OBVIOUS
<1>2. DOMAIN s \subseteq DOMAIN t /\ DOMAIN t \subseteq DOMAIN u /\ Len(s) <= Len(u)
  BY <1>1 DEF Extends
<1> QED BY <1>2 DEF Extends, Range

(* What AddReferences adds, one reference after the other.                 *)
AddedUpTo(idx, refs, f) ==
  f = [k \in 0 .. Len(refs) |->
         IF k = 0 THEN idx ELSE add_property(f[k - 1], refs[k].to)]

LEMMA AddedExists ==
  ASSUME NEW idx \in Seq(Indexed), NEW refs \in Seq(Links)
  PROVE  \E f : AddedUpTo(idx, refs, f)
<1> DEFINE N == Len(refs)
           V == Seq(Indexed)
           down == [n \in 1 .. N |-> n - 1]
           step == [n \in 1 .. N |-> [s \in V |-> add_property(s, refs[n].to)]]
<1>1. /\ N \in Nat /\ idx \in V
      /\ down \in [1 .. N -> Nat] /\ \A n \in 1 .. N : down[n] < n /\ down[n] = n - 1
  <2>1. N \in Nat /\ idx \in V
    OBVIOUS
  <2>2. \A n \in 1 .. N : down[n] = n - 1 /\ n - 1 \in Nat
    BY <2>1
  <2> QED BY <2>1, <2>2
<1>2. \A n \in 1 .. N : refs[n].to \in Indexed
  <2>1. \A n \in 1 .. N : refs[n] \in Links
    OBVIOUS
  <2> QED BY <2>1 DEF Links
<1>3. step \in [1 .. N -> [V -> V]]
  <2>1. ASSUME NEW s \in V, NEW o \in Indexed
        PROVE  add_property(s, o) \in V
    BY <2>1 DEF add_property
  <2> QED BY <1>2, <2>1
<1>4. \A n \in 1 .. N : \A s \in V : step[n][s] = add_property(s, refs[n].to)
  OBVIOUS
<1> HIDE DEF N, V, down, step
<1>5. PICK f \in [0 .. N -> V] : Computes(f, N, idx, down, step)
  BY <1>1, <1>3, ChainRecursion
<1>6. \A k \in 0 .. N : f[k] = IF k = 0 THEN idx ELSE add_property(f[k - 1], refs[k].to)
  <2>1. f[0] = idx
    BY <1>5 DEF Computes
  <2>2. ASSUME NEW k \in 1 .. N
        PROVE  f[k] = add_property(f[k - 1], refs[k].to)
    <3>1. k - 1 \in 0 .. N
      BY <1>1
    <3>2. f[k] = step[k][f[k - 1]] /\ f[k - 1] \in V
      BY <1>1, <1>5, <3>1 DEF Computes
    <3> QED BY <1>4, <3>2
  <2> QED BY <1>1, <2>1, <2>2
<1>7. f = [k \in 0 .. N |-> f[k]]
  BY <1>5
<1>8. AddedUpTo(idx, refs, f)
  BY <1>6, <1>7 DEF AddedUpTo, N
<1> QED BY <1>8

(* The index grows at its end, and has what o refers to afterwards.        *)
LEMMA Grown ==
  ASSUME graph \in Graph, NEW idx \in Seq(Indexed), Distinct(idx), NEW o \in Objects
  PROVE  /\ AddReferences(idx, o) \in Seq(Indexed)
         /\ Distinct(AddReferences(idx, o))
         /\ Extends(idx, AddReferences(idx, o))
         /\ \A k \in DOMAIN graph[o] : graph[o][k].to \in Range(AddReferences(idx, o))
         /\ \A p \in DOMAIN AddReferences(idx, o) :
              p \in DOMAIN idx
                \/ \E k \in DOMAIN graph[o] : AddReferences(idx, o)[p] = graph[o][k].to
<1> DEFINE refs == graph[o]
           f == CHOOSE g : AddedUpTo(idx, refs, g)
           N == Len(refs)
<1>1. refs \in Seq(Links)
  BY DEF Graph
<1>2. AddReferences(idx, o) = f[N]
  BY DEF AddReferences, AddedUpTo
<1> HIDE DEF refs
<1>3. AddedUpTo(idx, refs, f)
  <2>1. \E g : AddedUpTo(idx, refs, g)
    BY <1>1, AddedExists
  <2> QED BY <2>1
<1> HIDE DEF f
<1>4. /\ N \in Nat /\ DOMAIN refs = 1 .. N
      /\ \A k \in DOMAIN refs : refs[k].to \in Indexed
  <2>1. N \in Nat /\ DOMAIN refs = 1 .. N
    BY <1>1
  <2>2. \A k \in DOMAIN refs : refs[k] \in Links
    BY <1>1
  <2> QED BY <2>1, <2>2 DEF Links
<1>5. /\ f[0] = idx
      /\ \A k \in 1 .. N : f[k] = add_property(f[k - 1], refs[k].to)
  BY <1>3, <1>4 DEF AddedUpTo
<1> HIDE DEF N
<1> DEFINE Good(k) == /\ f[k] \in Seq(Indexed) /\ Distinct(f[k]) /\ Extends(idx, f[k])
                      /\ \A l \in 1 .. k : refs[l].to \in Range(f[k])
                      /\ \A p \in DOMAIN f[k] :
                           p \in DOMAIN idx \/ \E l \in 1 .. k : f[k][p] = refs[l].to
           Bad == {k \in 0 .. N : ~Good(k)}
<1>6. Bad = {}
  <2> SUFFICES ASSUME Bad # {} PROVE FALSE
    OBVIOUS
  <2>1. Bad \in SUBSET Nat
    BY <1>4
  <2>2. PICK k \in Bad : \A m \in Bad : k <= m
    <3> HIDE DEF Bad
    <3> QED BY <2>1, LeastNat
  <2>3. Good(0)
    BY <1>5 DEF Extends
  <2>4. k \in 1 .. N /\ k - 1 \in 0 .. N /\ k \in Nat
    BY <1>4, <2>1, <2>2, <2>3
  <2>5. Good(k - 1)
    <3> HIDE DEF Good
    <3>1. k - 1 \notin Bad
      <4> HIDE DEF Bad
      <4> QED BY <2>2, <2>4
    <3> QED BY <2>4, <3>1
  <2> DEFINE s == f[k - 1]
             x == refs[k].to
  <2>6. s \in Seq(Indexed) /\ Distinct(s) /\ Extends(idx, s) /\ x \in Indexed /\ f[k] = add_property(s, x)
    BY <1>4, <1>5, <2>4, <2>5
  <2>7. /\ \A l \in 1 .. k - 1 : refs[l].to \in Range(s)
        /\ \A p \in DOMAIN s : p \in DOMAIN idx \/ \E l \in 1 .. k - 1 : s[p] = refs[l].to
    BY <2>5
  <2> HIDE DEF s, x
  <2>8. /\ f[k] \in Seq(Indexed) /\ Distinct(f[k]) /\ Extends(s, f[k])
        /\ x \in Range(f[k])
        /\ \A p \in DOMAIN f[k] : p \in DOMAIN s \/ f[k][p] = x
    BY <2>6, PropertyAdded
  <2>9. Extends(idx, f[k])
    BY <2>6, <2>8, ExtendsTwice
  <2>10. Range(s) \subseteq Range(f[k])
    BY <2>6, <2>8, ExtendsTwice
  <2>11. \A l \in 1 .. k : refs[l].to \in Range(f[k])
    BY <2>4, <2>7, <2>8, <2>10 DEF x
  <2>12. \A p \in DOMAIN f[k] :
           p \in DOMAIN idx \/ \E l \in 1 .. k : f[k][p] = refs[l].to
    <3> SUFFICES ASSUME NEW p \in DOMAIN f[k], p \notin DOMAIN idx
                 PROVE  \E l \in 1 .. k : f[k][p] = refs[l].to
      OBVIOUS
    <3>1. CASE p \in DOMAIN s
      <4>1. PICK l \in 1 .. k - 1 : s[p] = refs[l].to
        BY <2>7, <3>1
      <4>2. l \in 1 .. k /\ f[k][p] = s[p]
        BY <2>4, <2>8, <3>1 DEF Extends
      <4> QED BY <4>1, <4>2
    <3>2. CASE p \notin DOMAIN s
      BY <2>4, <2>8, <3>2 DEF x
    <3> QED BY <3>1, <3>2
  <2> QED BY <2>2, <2>8, <2>9, <2>11, <2>12
<1>7. Good(N)
  BY <1>4, <1>6
<1> QED BY <1>2, <1>4, <1>7 DEF refs

(***************************************************************************)
(* The invariant of the writer                                             *)
(***************************************************************************)
Wanted == [at : Nat, weak : BOOLEAN]
FileEntries == [null : BOOLEAN, refs : Seq(Wanted)]

WriteTypes ==
  /\ graph \in Graph
  /\ index \in Seq(Indexed)
  /\ file \in Seq(FileEntries)
  /\ synced \in BOOLEAN
  /\ Len(file) <= Len(index)
  /\ synced => file # <<>> /\ Len(file) = Len(index)

(* What is written of an object, for the index as it is now: the positions *)
(* of what it refers to.                                                   *)
Leads(p) ==
  /\ \A k \in DOMAIN file[p].refs : file[p].refs[k].at \in DOMAIN index
  /\ index[p] # Null =>
       /\ DOMAIN file[p].refs = DOMAIN graph[index[p]]
       /\ \A k \in DOMAIN file[p].refs :
            index[file[p].refs[k].at] = graph[index[p]][k].to

WriteInv ==
  /\ WriteTypes
  /\ Distinct(index)
  /\ \A p \in DOMAIN file : Leads(p)

LEMMA SequenceOf ==
  ASSUME NEW S, NEW n \in Nat, NEW f \in [1 .. n -> S]
  PROVE  f \in Seq(S) /\ Len(f) = n
OBVIOUS

LEMMA EntryWritten ==
  ASSUME graph \in Graph, NEW idx \in Seq(Indexed), NEW o \in Objects,
         \A k \in DOMAIN graph[o] : graph[o][k].to \in Range(idx)
  PROVE  /\ Entry(idx, o) \in FileEntries
         /\ DOMAIN Entry(idx, o).refs = DOMAIN graph[o]
         /\ \A k \in DOMAIN graph[o] :
              /\ Entry(idx, o).refs[k].at \in DOMAIN idx
              /\ idx[Entry(idx, o).refs[k].at] = graph[o][k].to
<1> DEFINE refs == [k \in DOMAIN graph[o] |->
                      [at   |-> Position(idx, graph[o][k].to),
                       weak |-> graph[o][k].weak /\ o \notin Lists]]
<1>1. o # Null
  BY ListsAssumption
<1>2. Entry(idx, o) = [null |-> FALSE, refs |-> refs]
  BY <1>1 DEF Entry
<1>3. \A k \in DOMAIN graph[o] :
        /\ Position(idx, graph[o][k].to) \in DOMAIN idx
        /\ idx[Position(idx, graph[o][k].to)] = graph[o][k].to
  BY DEF Range, Position
<1>4. graph[o] \in Seq(Links) /\ DOMAIN graph[o] = 1 .. Len(graph[o]) /\ Len(graph[o]) \in Nat
  BY DEF Graph
<1>5. \A k \in DOMAIN graph[o] : refs[k] \in Wanted
  <2>1. DOMAIN idx \subseteq Nat
    OBVIOUS
  <2> QED BY <1>3, <2>1 DEF Wanted
<1>6. refs \in Seq(Wanted)
  <2>1. DOMAIN refs = 1 .. Len(graph[o])
    BY <1>4
  <2>2. refs \in [1 .. Len(graph[o]) -> Wanted]
    BY <1>4, <1>5, <2>1
  <2> HIDE DEF refs
  <2> QED BY <1>4, <2>2, SequenceOf
<1>7. /\ DOMAIN refs = DOMAIN graph[o]
      /\ \A k \in DOMAIN graph[o] : refs[k].at = Position(idx, graph[o][k].to)
  OBVIOUS
<1> HIDE DEF refs
<1>8. Entry(idx, o).refs = refs /\ Entry(idx, o) \in FileEntries
  BY <1>2, <1>6 DEF FileEntries
<1> QED BY <1>3, <1>7, <1>8

LEMMA InitWrites == Init => WriteInv
<1> SUFFICES ASSUME Init PROVE WriteInv
  OBVIOUS
<1>1. graph \in Graph
  BY GraphsAssumption DEF Init, Graph, Links, Indexed
<1>2. index \in Seq(Indexed) /\ file \in Seq(FileEntries) /\ Len(file) <= Len(index)
  BY DEF Init
<1>3. DOMAIN index = {} /\ DOMAIN file = {} /\ synced = FALSE
  BY DEF Init
<1> QED BY <1>1, <1>2, <1>3 DEF WriteInv, WriteTypes, Distinct

LEMMA ObjectWritten ==
  ASSUME WriteInv, WriteObject
  PROVE  WriteInv'
<1> DEFINE o == index[Len(file) + 1]
           grown == IF o = Null THEN index ELSE AddReferences(index, o)
           entry == Entry(grown, o)
<1>1. /\ ~synced /\ Len(file) < Len(index)
      /\ index' = grown /\ file' = Append(file, entry)
      /\ graph' = graph /\ synced' = synced
  BY DEF WriteObject
<1>2. /\ graph \in Graph /\ index \in Seq(Indexed) /\ file \in Seq(FileEntries)
      /\ Len(file) \in Nat /\ Len(index) \in Nat /\ Distinct(index)
      /\ DOMAIN file = 1 .. Len(file) /\ DOMAIN index = 1 .. Len(index)
  BY DEF WriteInv, WriteTypes
<1>3. Len(file) + 1 \in DOMAIN index /\ o \in Indexed
  BY <1>1, <1>2
<1>4. /\ grown \in Seq(Indexed) /\ Distinct(grown) /\ Extends(index, grown)
      /\ o # Null => \A k \in DOMAIN graph[o] : graph[o][k].to \in Range(grown)
  <2>1. CASE o = Null
    BY <1>2, <2>1 DEF Extends
  <2>2. CASE o # Null
    <3>1. o \in Objects
      BY <1>3, <2>2 DEF Indexed
    <3> HIDE DEF o
    <3> QED BY <1>2, <2>2, <3>1, Grown
  <2> QED BY <2>1, <2>2
<1> HIDE DEF o, grown
<1>5. /\ entry \in FileEntries
      /\ o # Null => /\ DOMAIN entry.refs = DOMAIN graph[o]
                     /\ \A k \in DOMAIN entry.refs : grown[entry.refs[k].at] = graph[o][k].to
      /\ \A k \in DOMAIN entry.refs : entry.refs[k].at \in DOMAIN grown
  <2>1. CASE o = Null
    <3>1. entry = [null |-> TRUE, refs |-> <<>>]
      BY <2>1 DEF Entry
    <3> QED BY <2>1, <3>1 DEF FileEntries
  <2>2. CASE o # Null
    <3>1. o \in Objects
      BY <1>3, <2>2 DEF Indexed
    <3> QED BY <1>2, <1>4, <2>2, <3>1, EntryWritten
  <2> QED BY <2>1, <2>2
<1> HIDE DEF entry
<1>6. /\ DOMAIN index \subseteq DOMAIN grown /\ Len(index) <= Len(grown)
      /\ \A p \in DOMAIN index : grown[p] = index[p]
      /\ Len(grown) \in Nat
  BY <1>2, <1>4 DEF Extends
<1>7. /\ file' \in Seq(FileEntries) /\ Len(file') = Len(file) + 1
      /\ file'[Len(file) + 1] = entry
      /\ \A p \in DOMAIN file : file'[p] = file[p]
      /\ DOMAIN file' = DOMAIN file \union {Len(file) + 1}
  BY <1>1, <1>2, <1>5
<1>8. WriteTypes'
  <2>1. Len(file') <= Len(index')
    BY <1>1, <1>2, <1>6, <1>7
  <2>2. /\ graph' \in Graph /\ index' \in Seq(Indexed)
        /\ file' \in Seq(FileEntries) /\ synced' = FALSE
    <3>1. graph' = graph /\ index' = grown /\ synced' = synced /\ ~synced
      BY <1>1
    <3>2. synced \in BOOLEAN
      BY DEF WriteInv, WriteTypes
    <3> QED BY <1>2, <1>4, <1>7, <3>1, <3>2
  <2> QED BY <2>1, <2>2 DEF WriteTypes
<1>9. ASSUME NEW p \in DOMAIN file'
      PROVE  Leads(p)'
  <2>1. CASE p = Len(file) + 1
    <3>1. file'[p] = entry /\ grown[p] = o
      BY <1>3, <1>6, <1>7, <2>1 DEF o
    <3> QED BY <1>1, <1>5, <3>1 DEF Leads
  <2>2. CASE p # Len(file) + 1
    <3>1. p \in DOMAIN file /\ file'[p] = file[p] /\ p \in DOMAIN index /\ Leads(p)
      BY <1>1, <1>2, <1>7, <2>2 DEF WriteInv
    <3>2. \A k \in DOMAIN file[p].refs : file[p].refs[k].at \in DOMAIN index
      BY <3>1 DEF Leads
    <3>3. grown[p] = index[p] /\ \A k \in DOMAIN file[p].refs :
            grown[file[p].refs[k].at] = index[file[p].refs[k].at]
      BY <1>6, <3>1, <3>2
    <3> QED BY <1>1, <1>6, <3>1, <3>2, <3>3 DEF Leads
  <2> QED BY <2>1, <2>2
<1>10. Distinct(index')
  BY <1>1, <1>4
<1> QED BY <1>8, <1>9, <1>10 DEF WriteInv

LEMMA WritesNext == WriteInv /\ [Next]_vars => WriteInv'
<1> SUFFICES ASSUME WriteInv, [Next]_vars PROVE WriteInv'
  OBVIOUS
<1>1. ASSUME UNCHANGED writer
      PROVE  WriteInv'
  BY <1>1 DEF writer, WriteInv, WriteTypes, Leads
<1>2. ASSUME NEW o \in Objects, set_object(o)
      PROVE  WriteInv'
  <2>1. index' = <<o>> /\ file' = <<>> /\ synced' = FALSE /\ graph' = graph
    BY <1>2 DEF set_object
  <2>2. /\ index' \in Seq(Indexed) /\ Len(index') = 1 /\ DOMAIN index' = {1}
        /\ DOMAIN file' = {} /\ Len(file') = 0 /\ file' \in Seq(FileEntries)
    BY <2>1 DEF Indexed
  <2>3. WriteTypes'
    <3>1. graph' \in Graph /\ synced' = FALSE /\ Len(file') <= Len(index')
      BY <2>1, <2>2 DEF WriteInv, WriteTypes
    <3> QED BY <2>2, <3>1 DEF WriteTypes
  <2> QED BY <2>2, <2>3 DEF WriteInv, Distinct
<1>3. CASE WriteObject
  BY <1>3, ObjectWritten
<1>4. CASE WriteIndex
  <2>1. /\ file # <<>> /\ Len(file) = Len(index) /\ synced' = TRUE
        /\ UNCHANGED <<graph, index, file>>
    BY <1>4 DEF WriteIndex
  <2> QED BY <2>1 DEF WriteInv, WriteTypes, Leads
<1>5. CASE Open \/ get_object \/ KeepInner \/ Drop \/ ReadNew \/ ReadCached \/ Return
  BY <1>1, <1>5 DEF Open, get_object, KeepInner, Drop, ReadNew, ReadCached, Return,
                    Receive, Make
<1> QED BY <1>1, <1>2, <1>3, <1>4, <1>5 DEF Next, vars, writer

(* However the objects refer to each other, in cycles too: at any time of  *)
(* sync, what has been written leads to the objects it led to in memory,   *)
(* and each object has one entry.                                          *)
THEOREM WritesAsIs == Spec => []WrittenAsIs
<1>1. WriteInv => WrittenAsIs
  <2> SUFFICES ASSUME WriteInv PROVE WrittenAsIs
    OBVIOUS
  <2>1. ASSUME NEW p \in DOMAIN file, index[p] # Null
        PROVE  [k \in DOMAIN file[p].refs |-> index[file[p].refs[k].at]]
                 = [k \in DOMAIN graph[index[p]] |-> graph[index[p]][k].to]
    BY <2>1 DEF WriteInv, Leads
  <2> QED BY <2>1 DEF WriteInv, Distinct, WrittenAsIs
<1> QED BY InitWrites, WritesNext, <1>1, PTL DEF Spec

(***************************************************************************)
(* The invariant of the reader                                             *)
(***************************************************************************)
Made == [obj : Nat, weak : BOOLEAN]
HeapObjects == [entry : Nat, wants : Seq(Wanted), refs : Seq(Made)]

ReadTypes ==
  /\ stream \in {"none", "closed", "open", "failed"}
  /\ heap \in Seq(HeapObjects)
  /\ alive \subseteq DOMAIN heap
  /\ calls \in Seq(Nat)
  /\ held \in Made
  /\ held.obj \in DOMAIN heap \union {0}
  /\ IF stream = "none" THEN cache = <<>>
     ELSE cache \in [DOMAIN file -> DOMAIN heap \union {0}]

(* The reader begins when the file is written, and has nothing before.     *)
Begun ==
  /\ stream # "none" => synced
  /\ stream \in {"none", "closed"} => heap = <<>> /\ calls = <<>>

(* What an object was told to read, and has read so far.                   *)
ObjectRead(n) ==
  LET o == heap[n]
  IN /\ o.entry \in DOMAIN file
     /\ Len(o.refs) <= Len(o.wants)
     /\ \A k \in DOMAIN o.wants : o.wants[k].at \in DOMAIN file
     /\ \A k \in DOMAIN o.refs : o.refs[k].obj \in DOMAIN heap \union {0}
     /\ stream = "open" => o.wants = file[o.entry].refs

(* A reference that was read is for the entry that was wanted.             *)
ReadRight(n) ==
  \A k \in DOMAIN heap[n].refs :
    LET ref  == heap[n].refs[k]
        want == heap[n].wants[k]
    IN /\ IF ref.obj = 0 THEN file[want.at].null ELSE heap[ref.obj].entry = want.at
       /\ want.weak => ref.weak

(* The cache has the object that lives of each entry.                      *)
CacheRight ==
  /\ \A p \in DOMAIN cache : cache[p] # 0 => heap[cache[p]].entry = p
  /\ \A n \in alive : cache[heap[n].entry] = n

(* The calls in progress are of objects that live, made one after another, *)
(* each by the one before for a reference it is about to get.              *)
CallsNest ==
  /\ \A k \in DOMAIN calls : calls[k] \in alive
  /\ \A j, k \in DOMAIN calls : j < k => calls[k] < calls[j]
  /\ \A k \in DOMAIN calls : k + 1 \in DOMAIN calls =>
       LET o == heap[calls[k + 1]]
       IN /\ Len(o.refs) < Len(o.wants)
          /\ o.wants[Len(o.refs) + 1].at = heap[calls[k]].entry
  /\ calls # <<>> => heap[calls[Len(calls)]].entry = 1

(* Strong references lead to younger objects; what an object older than a  *)
(* call refers to is older than that call as well.                         *)
Ages ==
  \A n \in DOMAIN heap : \A k \in DOMAIN heap[n].refs :
    LET ref == heap[n].refs[k]
    IN /\ ~ref.weak /\ ref.obj # 0 => n < ref.obj
       /\ \A m \in Range(calls) : n < m => ref.obj < m

(* The variable keeps what it was given; while objects are read, nothing.  *)
HeldRight ==
  ~held.weak /\ held.obj # 0 => calls = <<>> /\ held.obj \in alive

(* What a living object keeps lives.                                       *)
OwnedAlive == Closed(heap, alive)

(* StrongOnesLead while the program has not kept an inner object.          *)
StrongLeads ==
  \A n \in alive : \A k \in DOMAIN heap[n].refs :
    ~heap[n].wants[k].weak /\ heap[n].refs[k].obj # 0
      => heap[n].refs[k].obj \in alive

AliveKept == alive \subseteq Kept(heap, calls, held)

ReadInv ==
  /\ ReadTypes /\ Begun
  /\ \A n \in DOMAIN heap : ObjectRead(n)
  /\ stream = "open" => \A n \in DOMAIN heap : ReadRight(n)
  /\ CacheRight /\ CallsNest /\ Ages /\ HeldRight /\ AliveKept
  /\ OwnedAlive /\ StrongOnesLead

(***************************************************************************)
(* What roots keep                                                         *)
(***************************************************************************)
LEMMA KeptClosed ==
  ASSUME NEW h, NEW roots, roots \subseteq DOMAIN h
  PROVE  /\ KeptBy(h, roots) \subseteq DOMAIN h
         /\ roots \subseteq KeptBy(h, roots)
         /\ Closed(h, KeptBy(h, roots))
BY DEF KeptBy, Closed, Owned

LEMMA KeptLeast ==
  ASSUME NEW h, NEW roots, NEW S \in SUBSET DOMAIN h, roots \subseteq S, Closed(h, S)
  PROVE  KeptBy(h, roots) \subseteq S
BY DEF KeptBy

LEMMA KeptGrows ==
  ASSUME NEW h, NEW roots, NEW more, NEW K, roots \subseteq DOMAIN h, roots \subseteq K,
         Closed(more, K), \A n \in DOMAIN h : Owned(h, n) \subseteq Owned(more, n)
  PROVE  KeptBy(h, roots) \subseteq K
<1> DEFINE S == K \intersect DOMAIN h
<1>1. Closed(h, S)
  <2>1. \A n : Owned(h, n) \subseteq DOMAIN h
    BY DEF Owned
  <2> QED BY <2>1 DEF Closed
<1>2. S \in SUBSET DOMAIN h /\ roots \subseteq S
  OBVIOUS
<1> HIDE DEF S
<1>3. KeptBy(h, roots) \subseteq S
  BY <1>1, <1>2, KeptLeast
<1> QED BY <1>3 DEF S

(***************************************************************************)
(* Before anything is read, and when nothing is left                       *)
(***************************************************************************)
LEMMA NothingRead ==
  ASSUME heap' = <<>>, alive' = {}, calls' = <<>>, held' \in Made, held'.obj = 0,
         stream' \in {"none", "closed"},
         stream' # "none" => synced' /\ cache' \in [DOMAIN file' -> {0}],
         stream' = "none" => cache' = <<>>
  PROVE  ReadInv'
<1>1. DOMAIN heap' = {} /\ DOMAIN calls' = {} /\ Range(calls') = {}
  BY DEF Range
<1>2. ReadTypes'
  <2>1. heap' \in Seq(HeapObjects) /\ calls' \in Seq(Nat)
    OBVIOUS
  <2> QED BY <1>1, <2>1 DEF ReadTypes
<1>3. Begun'
  BY DEF Begun
<1>4. CacheRight'
  BY DEF CacheRight
<1>5. CallsNest' /\ Ages' /\ HeldRight'
  BY <1>1 DEF CallsNest, Ages, HeldRight
<1>6. AliveKept' /\ OwnedAlive' /\ StrongOnesLead'
  BY DEF AliveKept, OwnedAlive, Closed, StrongOnesLead
<1> QED BY <1>1, <1>2, <1>3, <1>4, <1>5, <1>6 DEF ReadInv

(* Every object has been destroyed, and no call is in progress.            *)
LEMMA Emptied ==
  ASSUME ReadInv, UNCHANGED <<writer, heap, cache, calls>>, calls = <<>>, alive' = {},
         held' \in Made, held'.obj \in DOMAIN heap \union {0},
         held'.weak \/ held'.obj = 0,
         \/ stream' = stream
         \/ stream = "closed" /\ stream' = "open"
         \/ stream # "none" /\ stream' = "failed"
  PROVE  ReadInv'
<1>1. DOMAIN calls' = {} /\ Range(calls') = {}
  BY DEF Range
<1>2. /\ ReadTypes /\ Begun /\ \A n \in DOMAIN heap : ObjectRead(n)
      /\ stream = "open" => \A n \in DOMAIN heap : ReadRight(n)
      /\ CacheRight /\ Ages
  BY DEF ReadInv
<1>3. ReadTypes' /\ Begun'
  BY <1>2 DEF ReadTypes, Begun, writer
<1>4. stream' = "open" => stream = "open" \/ DOMAIN heap = {}
  BY <1>2 DEF Begun
<1>5. \A n \in DOMAIN heap' : ObjectRead(n)'
  BY <1>2, <1>4 DEF ObjectRead, writer
<1>6. stream' = "open" => \A n \in DOMAIN heap' : ReadRight(n)'
  BY <1>2, <1>4 DEF ReadRight, writer
<1>7. CacheRight'
  BY <1>2 DEF CacheRight
<1>8. Ages' /\ CallsNest' /\ HeldRight'
  BY <1>1, <1>2 DEF Ages, CallsNest, HeldRight
<1>9. AliveKept' /\ OwnedAlive' /\ StrongOnesLead'
  BY DEF AliveKept, OwnedAlive, Closed, StrongOnesLead
<1> QED BY <1>3, <1>5, <1>6, <1>7, <1>8, <1>9 DEF ReadInv

(***************************************************************************)
(* get_object makes an object                                              *)
(***************************************************************************)
LEMMA FileType ==
  ASSUME WriteInv, synced
  PROVE  /\ 1 \in DOMAIN file /\ DOMAIN file = DOMAIN index /\ DOMAIN file \subseteq Nat
         /\ \A p \in DOMAIN file :
              /\ file[p] \in FileEntries /\ file[p].refs \in Seq(Wanted)
              /\ \A k \in DOMAIN file[p].refs : file[p].refs[k].at \in DOMAIN file
<1>1. /\ file \in Seq(FileEntries) /\ index \in Seq(Indexed) /\ file # <<>>
      /\ Len(file) = Len(index)
  BY DEF WriteInv, WriteTypes
<1>2. 1 \in DOMAIN file /\ DOMAIN file = DOMAIN index /\ DOMAIN file \subseteq Nat
  BY <1>1
<1>3. \A p \in DOMAIN file : file[p] \in FileEntries
  BY <1>1
<1>4. \A p \in DOMAIN file : file[p].refs \in Seq(Wanted)
  BY <1>3 DEF FileEntries
<1> QED BY <1>2, <1>3, <1>4 DEF WriteInv, Leads

LEMMA WantsType ==
  ASSUME WriteInv, synced, NEW p \in DOMAIN file, NEW str, NEW wants \in Wants(p, str)
  PROVE  /\ wants \in Seq(Wanted)
         /\ \A k \in DOMAIN wants : wants[k].at \in DOMAIN file
         /\ str = "open" => wants = file[p].refs
<1>1. CASE str = "open"
  BY <1>1, FileType DEF Wants
<1>2. CASE str # "open" /\ index[p] \notin Lists
  <2> DEFINE want == [at |-> 1, weak |-> TRUE]
             refs == file[p].refs
  <2>1. wants = [k \in DOMAIN refs |-> want]
    BY <1>2 DEF Wants
  <2>2. want \in Wanted /\ want.at \in DOMAIN file
    BY FileType DEF Wanted
  <2>3. refs \in Seq(Wanted)
    BY FileType
  <2> HIDE DEF want, refs
  <2>4. DOMAIN refs = 1 .. Len(refs) /\ Len(refs) \in Nat
    BY <2>3
  <2>5. wants \in [1 .. Len(refs) -> Wanted]
    BY <2>1, <2>2, <2>4
  <2>6. wants \in Seq(Wanted)
    BY <2>4, <2>5, SequenceOf
  <2> QED BY <1>2, <2>1, <2>2, <2>6
<1>3. CASE str # "open" /\ index[p] \in Lists
  <2> DEFINE any == {[at |-> q, weak |-> FALSE] : q \in DOMAIN file}
  <2>1. PICK n \in 0 .. MaxElements : wants \in [1 .. n -> any]
    BY <1>3 DEF Wants
  <2>2. any \subseteq Wanted /\ \A x \in any : x.at \in DOMAIN file
    <3>1. DOMAIN file \subseteq Nat
      BY FileType
    <3>2. \A q \in DOMAIN file : [at |-> q, weak |-> FALSE] \in Wanted
      BY <3>1 DEF Wanted
    <3> QED BY <3>2
  <2> HIDE DEF any
  <2>3. wants \in [1 .. n -> Wanted] /\ n \in Nat
    BY <2>1, <2>2
  <2>4. wants \in Seq(Wanted)
    BY <2>3, SequenceOf
  <2> QED BY <1>3, <2>1, <2>2, <2>4
<1> QED BY <1>1, <1>2, <1>3

LEMMA ObjectMade ==
  ASSUME ReadTypes, NEW x \in HeapObjects, x.refs = <<>>, NEW h, h = Append(heap, x)
  PROVE  /\ h \in Seq(HeapObjects)
         /\ DOMAIN h = DOMAIN heap \union {Len(heap) + 1} /\ Len(heap) \in Nat
         /\ Len(heap) + 1 \notin DOMAIN heap /\ DOMAIN heap = 1 .. Len(heap)
         /\ h[Len(heap) + 1] = x
         /\ \A n \in DOMAIN heap : h[n] = heap[n]
         /\ \A n \in DOMAIN heap : Owned(heap, n) \subseteq Owned(h, n)
<1>1. /\ h \in Seq(HeapObjects)
      /\ DOMAIN h = DOMAIN heap \union {Len(heap) + 1} /\ Len(heap) \in Nat
      /\ Len(heap) + 1 \notin DOMAIN heap /\ DOMAIN heap = 1 .. Len(heap)
      /\ h[Len(heap) + 1] = x
      /\ \A n \in DOMAIN heap : h[n] = heap[n]
  BY DEF ReadTypes
<1>2. \A n \in DOMAIN heap : Owned(heap, n) \subseteq Owned(h, n)
  BY <1>1 DEF Owned
<1> QED BY <1>1, <1>2

LEMMA ObjectType ==
  ASSUME ReadTypes, NEW n \in DOMAIN heap
  PROVE  /\ heap[n] \in HeapObjects /\ n \in Nat /\ n # 0
         /\ heap[n].entry \in Nat
         /\ heap[n].wants \in Seq(Wanted) /\ heap[n].refs \in Seq(Made)
         /\ Len(heap[n].wants) \in Nat /\ Len(heap[n].refs) \in Nat
<1>1. heap[n] \in HeapObjects /\ n \in Nat /\ n # 0
  BY DEF ReadTypes
<1>2. /\ heap[n].entry \in Nat
      /\ heap[n].wants \in Seq(Wanted) /\ heap[n].refs \in Seq(Made)
  BY <1>1 DEF HeapObjects
<1> QED BY <1>1, <1>2

Pushed(t, x, s) ==
  /\ t \in Seq(Nat) /\ Len(t) = Len(s) + 1 /\ t[1] = x /\ t # <<>>
  /\ \A k \in DOMAIN t : k # 1 => k - 1 \in DOMAIN s /\ t[k] = s[k - 1]
  /\ \A k \in DOMAIN s : k + 1 \in DOMAIN t /\ t[k + 1] = s[k]
  /\ 1 \in DOMAIN t /\ Range(t) = Range(s) \union {x}

LEMMA CallPushed ==
  ASSUME NEW s \in Seq(Nat), NEW x \in Nat, NEW t, t = <<x>> \o s
  PROVE  Pushed(t, x, s)
<1>1. /\ t \in Seq(Nat) /\ Len(t) = Len(s) + 1 /\ t[1] = x /\ t # <<>>
      /\ \A k \in DOMAIN t : k # 1 => k - 1 \in DOMAIN s /\ t[k] = s[k - 1]
      /\ \A k \in DOMAIN s : k + 1 \in DOMAIN t /\ t[k + 1] = s[k]
      /\ 1 \in DOMAIN t
  OBVIOUS
<1>2. Range(t) = Range(s) \union {x}
  <2>1. \A k \in DOMAIN t : t[k] \in Range(s) \union {x}
    BY <1>1 DEF Range
  <2>2. \A k \in DOMAIN s : s[k] \in Range(t)
    <3> TAKE k \in DOMAIN s
    <3>1. k + 1 \in DOMAIN t /\ t[k + 1] = s[k]
      BY <1>1
    <3> QED BY <3>1 DEF Range
  <2>3. x \in Range(t)
    BY <1>1 DEF Range
  <2> QED BY <2>1, <2>2, <2>3 DEF Range
<1> QED BY <1>1, <1>2 DEF Pushed

(* While objects are read, and when none is, unless an inner one is kept.  *)
LEMMA LeadWhole ==
  ASSUME ReadInv, calls # <<>> \/ ~Narrowed
  PROVE  StrongLeads
<1>1. ReadTypes /\ HeldRight /\ StrongOnesLead
  BY DEF ReadInv
<1>2. 0 \notin DOMAIN heap
  BY <1>1 DEF ReadTypes
<1>3. ~Narrowed
  BY <1>1, <1>2 DEF HeldRight, Narrowed
<1> QED BY <1>1, <1>3 DEF StrongOnesLead, StrongLeads

LEMMA MakeRead ==
  ASSUME WriteInv, ReadInv, NEW p \in DOMAIN file, ~Loaded(p), Make(p),
         stream # "none",
         \/ stream' = stream /\ Reading /\ p = wanted.at
         \/ /\ calls = <<>> /\ p = 1 /\ ~Narrowed
            /\ stream' = IF stream = "closed" THEN "open" ELSE "failed"
  PROVE  ReadInv'
<1> DEFINE N == Len(heap) + 1
<1>1. /\ ReadTypes /\ Begun /\ synced /\ CacheRight /\ CallsNest /\ Ages
      /\ HeldRight /\ AliveKept /\ OwnedAlive
      /\ \A n \in DOMAIN heap : ObjectRead(n)
      /\ stream = "open" => \A n \in DOMAIN heap : ReadRight(n)
  BY DEF ReadInv, Begun
<1>2. PICK wants \in Wants(p, stream') :
        /\ heap' = Append(heap, [entry |-> p, wants |-> wants, refs |-> <<>>])
        /\ alive' = alive \union {N}
        /\ cache' = [cache EXCEPT ![p] = N]
        /\ calls' = <<N>> \o calls
        /\ UNCHANGED <<writer, held>>
  BY DEF Make, Record
<1>3. /\ wants \in Seq(Wanted)
      /\ \A k \in DOMAIN wants : wants[k].at \in DOMAIN file
      /\ stream' = "open" => wants = file[p].refs
      /\ p \in Nat
  BY <1>1, WantsType, FileType
<1> DEFINE x == [entry |-> p, wants |-> wants, refs |-> <<>>]
<1>4. x \in HeapObjects /\ x.refs = <<>> /\ x.entry = p /\ x.wants = wants
  BY <1>3 DEF HeapObjects
<1> HIDE DEF x
<1>5. /\ heap' \in Seq(HeapObjects)
      /\ DOMAIN heap' = DOMAIN heap \union {N} /\ Len(heap) \in Nat
      /\ N \notin DOMAIN heap /\ DOMAIN heap = 1 .. Len(heap)
      /\ heap'[N] = x
      /\ \A n \in DOMAIN heap : heap'[n] = heap[n]
      /\ \A n \in DOMAIN heap : Owned(heap, n) \subseteq Owned(heap', n)
  BY <1>1, <1>2, <1>4, ObjectMade DEF x
<1>6. N \in Nat /\ N # 0 /\ \A n \in DOMAIN heap : n < N /\ n \in Nat
  BY <1>5
<1>7. /\ calls \in Seq(Nat) /\ calls' = <<N>> \o calls
      /\ \A k \in DOMAIN calls : calls[k] \in DOMAIN heap
  BY <1>1, <1>2 DEF ReadTypes, CallsNest
<1> HIDE DEF N
<1>8. /\ calls' \in Seq(Nat) /\ Len(calls') = Len(calls) + 1 /\ calls'[1] = N
      /\ calls' # <<>> /\ 1 \in DOMAIN calls'
      /\ \A k \in DOMAIN calls' : k # 1 => k - 1 \in DOMAIN calls /\ calls'[k] = calls[k - 1]
      /\ \A k \in DOMAIN calls : k + 1 \in DOMAIN calls' /\ calls'[k + 1] = calls[k]
      /\ Range(calls') = Range(calls) \union {N}
  <2>1. calls \in Seq(Nat) /\ N \in Nat /\ calls' = <<N>> \o calls
    BY <1>6, <1>7
  <2>2. Pushed(calls', N, calls)
    BY <2>1, CallPushed
  <2> QED BY <2>2 DEF Pushed
<1>9. /\ UNCHANGED <<graph, index, synced, file, held>>
      /\ stream' \in {"open", "closed", "failed"}
      /\ stream' = "closed" => stream = "closed" /\ calls # <<>>
  <2>1. Reading => calls # <<>>
    BY DEF Reading
  <2> QED BY <1>1, <1>2, <2>1 DEF writer, ReadTypes
<1>10. stream' # "closed"
  BY <1>1, <1>9 DEF Begun
<1>11. ReadTypes'
  <2>1. cache \in [DOMAIN file -> DOMAIN heap \union {0}]
    BY <1>1 DEF ReadTypes
  <2>2. cache' \in [DOMAIN file' -> DOMAIN heap' \union {0}]
    BY <1>2, <1>5, <1>9, <2>1 DEF N
  <2>3. alive' \subseteq DOMAIN heap'
    BY <1>1, <1>2, <1>5 DEF ReadTypes, N
  <2> QED BY <1>1, <1>5, <1>8, <1>9, <2>2, <2>3 DEF ReadTypes
<1>12. Begun'
  BY <1>1, <1>9, <1>10 DEF Begun
<1>13. stream' = "open" => stream = "open" \/ DOMAIN heap = {}
  BY <1>1 DEF Begun
<1>14. ASSUME NEW n \in DOMAIN heap'
       PROVE  ObjectRead(n)'
  <2>1. CASE n = N
    <3>1. Len(x.refs) = 0 /\ Len(x.wants) \in Nat /\ DOMAIN x.refs = {}
      BY <1>3, <1>4
    <3> QED BY <1>3, <1>4, <1>5, <1>9, <2>1, <3>1 DEF ObjectRead
  <2>2. CASE n # N
    <3>1. n \in DOMAIN heap /\ heap'[n] = heap[n] /\ ObjectRead(n)
      BY <1>1, <1>5, <2>2
    <3> QED BY <1>5, <1>9, <1>13, <3>1 DEF ObjectRead
  <2> QED BY <2>1, <2>2
<1>15. ASSUME stream' = "open", NEW n \in DOMAIN heap'
       PROVE  ReadRight(n)'
  <2>1. CASE n = N
    BY <1>4, <1>5, <2>1 DEF ReadRight
  <2>2. CASE n # N
    <3>1. n \in DOMAIN heap /\ heap'[n] = heap[n] /\ ObjectRead(n) /\ ReadRight(n)
      BY <1>1, <1>5, <1>13, <1>15, <2>2
    <3>2. \A k \in DOMAIN heap[n].refs : heap[n].refs[k].obj # 0 =>
            heap'[heap[n].refs[k].obj] = heap[heap[n].refs[k].obj]
      BY <1>5, <3>1 DEF ObjectRead
    <3> QED BY <1>9, <3>1, <3>2 DEF ReadRight
  <2> QED BY <2>1, <2>2
<1>16. /\ DOMAIN cache = DOMAIN file /\ \A q \in DOMAIN cache : cache[q] \in DOMAIN heap \union {0}
       /\ \A q \in DOMAIN cache : cache'[q] = IF q = p THEN N ELSE cache[q]
       /\ DOMAIN cache' = DOMAIN file
  BY <1>1, <1>2 DEF ReadTypes, N
<1>17. CacheRight'
  <2>1. ASSUME NEW q \in DOMAIN cache', cache'[q] # 0
        PROVE  heap'[cache'[q]].entry = q
    <3>1. CASE q = p
      BY <1>4, <1>5, <1>16, <3>1
    <3>2. CASE q # p
      <4>1. cache'[q] = cache[q] /\ cache[q] \in DOMAIN heap
        BY <1>16, <2>1, <3>2
      <4> QED BY <1>1, <1>5, <1>16, <2>1, <4>1 DEF CacheRight
    <3> QED BY <3>1, <3>2
  <2>2. ASSUME NEW n \in alive'
        PROVE  cache'[heap'[n].entry] = n
    <3>1. CASE n = N
      BY <1>4, <1>5, <1>16, <3>1
    <3>2. CASE n # N
      <4>1. n \in alive /\ n \in DOMAIN heap
        BY <1>1, <1>2, <3>2 DEF ReadTypes, N
      <4>2. cache[heap[n].entry] = n /\ heap[n].entry \in DOMAIN file
        BY <1>1, <4>1 DEF CacheRight, ObjectRead
      <4>3. heap[n].entry # p
        BY <4>1, <4>2 DEF Loaded
      <4> QED BY <1>5, <1>16, <4>1, <4>2, <4>3
    <3> QED BY <3>1, <3>2
  <2> QED BY <2>1, <2>2 DEF CacheRight
<1>18. CallsNest'
  <2>1. \A k \in DOMAIN calls' : calls'[k] \in alive'
    BY <1>1, <1>2, <1>8 DEF CallsNest, N
  <2>2. ASSUME NEW j \in DOMAIN calls', NEW k \in DOMAIN calls', j < k
        PROVE  calls'[k] < calls'[j]
    <3>1. j \in Nat /\ k \in Nat /\ k # 1
      BY <1>8, <2>2
    <3>2. k - 1 \in DOMAIN calls /\ calls'[k] = calls[k - 1]
      BY <1>8, <3>1
    <3>3. CASE j = 1
      BY <1>6, <1>7, <1>8, <3>2, <3>3
    <3>4. CASE j # 1
      <4>1. j - 1 \in DOMAIN calls /\ calls'[j] = calls[j - 1] /\ j - 1 < k - 1
        BY <1>8, <2>2, <3>1, <3>4
      <4> QED BY <1>1, <3>2, <4>1 DEF CallsNest
    <3> QED BY <3>3, <3>4
  <2>3. ASSUME NEW k \in DOMAIN calls', k + 1 \in DOMAIN calls'
        PROVE  LET o == heap'[calls'[k + 1]]
               IN /\ Len(o.refs) < Len(o.wants)
                  /\ o.wants[Len(o.refs) + 1].at = heap'[calls'[k]].entry
    <3>1. /\ k \in DOMAIN calls /\ k + 1 # 1 /\ calls'[k + 1] = calls[k]
          /\ heap'[calls[k]] = heap[calls[k]]
      <4>1. k \in Nat /\ k + 1 # 1
        BY <1>8
      <4>2. (k + 1) - 1 \in DOMAIN calls /\ calls'[k + 1] = calls[(k + 1) - 1] /\ (k + 1) - 1 = k
        BY <1>8, <2>3, <4>1
      <4> QED BY <1>5, <1>7, <4>1, <4>2
    <3>2. CASE k = 1
      <4>1. calls # <<>> /\ calls[1] = reader
        BY <1>7, <3>1, <3>2 DEF reader
      <4>2. Reading /\ p = wanted.at
        BY <4>1
      <4> QED BY <1>4, <1>5, <1>8, <3>1, <3>2, <4>1, <4>2 DEF Reading, wanted
    <3>3. CASE k # 1
      <4>1. k - 1 \in DOMAIN calls /\ (k - 1) + 1 = k /\ calls'[k] = calls[k - 1]
            /\ heap'[calls[k - 1]] = heap[calls[k - 1]]
        BY <1>5, <1>7, <1>8, <3>3
      <4>2. LET o == heap[calls[(k - 1) + 1]]
            IN /\ Len(o.refs) < Len(o.wants)
               /\ o.wants[Len(o.refs) + 1].at = heap[calls[k - 1]].entry
        BY <1>1, <3>1, <4>1 DEF CallsNest
      <4> QED BY <3>1, <4>1, <4>2
    <3> QED BY <3>2, <3>3
  <2>4. heap'[calls'[Len(calls')]].entry = 1
    <3>1. CASE calls = <<>>
      <4>1. p = 1
        BY <3>1 DEF Reading
      <4>2. Len(calls') = 1
        BY <1>8, <3>1
      <4> QED BY <1>4, <1>5, <1>8, <4>1, <4>2
    <3>2. CASE calls # <<>>
      <4>1. Len(calls) \in DOMAIN calls /\ Len(calls') = Len(calls) + 1
        BY <1>7, <1>8, <3>2
      <4>2. calls'[Len(calls')] = calls[Len(calls)]
        BY <1>8, <4>1
      <4> QED BY <1>1, <1>5, <1>7, <3>2, <4>1, <4>2 DEF CallsNest
    <3> QED BY <3>1, <3>2
  <2> QED BY <2>1, <2>2, <2>3, <2>4 DEF CallsNest
<1>19. Ages'
  <2> SUFFICES ASSUME NEW n \in DOMAIN heap', NEW k \in DOMAIN heap'[n].refs
               PROVE  LET ref == heap'[n].refs[k]
                      IN /\ ~ref.weak /\ ref.obj # 0 => n < ref.obj
                         /\ \A m \in Range(calls') : n < m => ref.obj < m
    BY DEF Ages
  <2>1. n # N /\ n \in DOMAIN heap /\ heap'[n] = heap[n]
    BY <1>4, <1>5
  <2>2. heap[n].refs[k].obj < N
    BY <1>1, <1>6, <2>1 DEF ObjectRead
  <2> QED BY <1>1, <1>8, <2>1, <2>2 DEF Ages
<1>20. held'.weak \/ held'.obj = 0
  <2> SUFFICES ASSUME ~held.weak, held.obj # 0 PROVE FALSE
    BY <1>9
  <2>1. calls = <<>> /\ held.obj \in alive
    BY <1>1 DEF HeldRight
  <2>2. p = 1 /\ ~Narrowed
    BY <2>1 DEF Reading
  <2>3. heap[held.obj].entry = 1
    BY <1>1, <2>1, <2>2 DEF ReadTypes, Narrowed
  <2>4. cache[1] = held.obj
    BY <1>1, <2>1, <2>3 DEF CacheRight
  <2> QED BY <2>1, <2>2, <2>4 DEF Loaded
<1>21. AliveKept'
  <2> DEFINE new == Roots(heap, calls, held)'
             old == Roots(heap, calls, held)
             K == KeptBy(heap', new)
  <2>1. /\ new \subseteq DOMAIN heap' /\ old \subseteq new /\ old \subseteq DOMAIN heap
        /\ N \in new
    <3>1. Range(calls) \subseteq DOMAIN heap
      BY <1>7 DEF Range
    <3>2. old = Range(calls) \union {n \in DOMAIN heap : held = Strong(n)}
      BY DEF Roots, Range
    <3>3. new = Range(calls') \union {n \in DOMAIN heap' : held' = Strong(n)}
      BY DEF Roots, Range
    <3> QED BY <1>5, <1>8, <1>9, <3>1, <3>2, <3>3
  <2>2. K = Kept(heap, calls, held)' /\ KeptBy(heap, old) = Kept(heap, calls, held)
    BY DEF Kept
  <2> HIDE DEF new, old, K
  <2>3. new \subseteq K /\ Closed(heap', K)
    BY <2>1, KeptClosed DEF K
  <2>4. KeptBy(heap, old) \subseteq K
    BY <1>5, <2>1, <2>3, KeptGrows
  <2> QED BY <1>1, <1>2, <2>1, <2>2, <2>3, <2>4 DEF AliveKept, N
<1>22. StrongLeads
  BY LeadWhole DEF Reading
<1>23. StrongOnesLead'
  <2> SUFFICES ASSUME NEW n \in alive', NEW k \in DOMAIN heap'[n].refs,
                      ~heap'[n].wants[k].weak, heap'[n].refs[k].obj # 0
               PROVE  heap'[n].refs[k].obj \in alive'
    BY DEF StrongOnesLead
  <2>1. n # N
    BY <1>4, <1>5
  <2>2. n \in alive /\ heap'[n] = heap[n]
    BY <1>1, <1>2, <1>5, <2>1 DEF ReadTypes, N
  <2> QED BY <1>2, <1>22, <2>2 DEF StrongLeads
<1>24. OwnedAlive'
  <2> SUFFICES ASSUME NEW n \in alive', NEW m \in Owned(heap', n) PROVE m \in alive'
    BY DEF OwnedAlive, Closed
  <2>1. n # N
    BY <1>4, <1>5 DEF Owned, Range
  <2>2. n \in alive /\ n \in DOMAIN heap /\ heap'[n] = heap[n]
    BY <1>1, <1>2, <1>5, <2>1 DEF ReadTypes, N
  <2>3. PICK k \in DOMAIN heap[n].refs : heap[n].refs[k] = Strong(m)
    BY <2>2 DEF Owned, Range
  <2>4. m \in DOMAIN heap' /\ m # 0 /\ m \in DOMAIN heap \union {0}
    <3>1. m \in DOMAIN heap' /\ m # 0
      BY <1>1, <1>5, <1>6 DEF Owned, ReadTypes
    <3>2. heap[n].refs[k].obj = m
      BY <2>3 DEF Strong
    <3> QED BY <1>1, <2>2, <3>1, <3>2 DEF ObjectRead
  <2>5. m \in Owned(heap, n)
    BY <2>2, <2>3, <2>4 DEF Owned, Range
  <2> QED BY <1>1, <1>2, <2>2, <2>5 DEF OwnedAlive, Closed
<1> QED BY <1>11, <1>12, <1>14, <1>15, <1>17, <1>18, <1>19, <1>9, <1>20, <1>21, <1>23,
           <1>24
        DEF ReadInv, HeldRight
(***************************************************************************)
(* A call gets a reference                                                 *)
(***************************************************************************)
WithRef(r, ref) == [heap EXCEPT ![r].refs = Append(@, ref)]

(* h is the heap in which r has ref as well.                               *)
Gets(h, r, ref) ==
  /\ h \in Seq(HeapObjects) /\ DOMAIN h = DOMAIN heap
  /\ \A n \in DOMAIN heap : n # r => h[n] = heap[n] /\ Owned(h, n) = Owned(heap, n)
  /\ h[r].entry = heap[r].entry /\ h[r].wants = heap[r].wants
  /\ Len(h[r].refs) = Len(heap[r].refs) + 1
  /\ \A k \in DOMAIN h[r].refs :
       IF k = Len(heap[r].refs) + 1 THEN h[r].refs[k] = ref
       ELSE k \in DOMAIN heap[r].refs /\ h[r].refs[k] = heap[r].refs[k]
  /\ Owned(h, r) = Owned(heap, r) \union {m \in DOMAIN heap : ref = Strong(m)}

LEMMA Given ==
  ASSUME ReadTypes, NEW r \in DOMAIN heap, NEW ref \in Made, NEW h, h = WithRef(r, ref)
  PROVE  Gets(h, r, ref)
<1> DEFINE o == [heap[r] EXCEPT !.refs = Append(@, ref)]
<1>1. heap[r] \in HeapObjects /\ heap[r].refs \in Seq(Made) /\ Len(heap[r].refs) \in Nat
  BY ObjectType
<1>2. o \in HeapObjects
  <2>1. \A x \in HeapObjects : \A s \in Seq(Made) : [x EXCEPT !.refs = s] \in HeapObjects
    BY DEF HeapObjects
  <2>2. Append(heap[r].refs, ref) \in Seq(Made)
    BY <1>1
  <2> QED BY <1>1, <2>1, <2>2
<1>3. /\ o.entry = heap[r].entry /\ o.wants = heap[r].wants
      /\ o.refs = Append(heap[r].refs, ref)
  BY <1>1 DEF HeapObjects
<1>4. h = [heap EXCEPT ![r] = o]
  BY DEF WithRef
<1> HIDE DEF o
<1>5. /\ heap \in Seq(HeapObjects) /\ h \in Seq(HeapObjects) /\ DOMAIN h = DOMAIN heap
      /\ h[r] = o /\ \A n \in DOMAIN heap : n # r => h[n] = heap[n]
  BY <1>2, <1>4 DEF ReadTypes
<1> DEFINE old == heap[r].refs
           new == h[r].refs
<1>6. /\ Len(new) = Len(old) + 1 /\ new = Append(old, ref)
      /\ \A k \in DOMAIN new :
           IF k = Len(old) + 1 THEN new[k] = ref ELSE k \in DOMAIN old /\ new[k] = old[k]
  BY <1>1, <1>3, <1>5
<1>7. Range(new) = Range(old) \union {ref}
  <2>1. /\ DOMAIN new = DOMAIN old \union {Len(old) + 1} /\ new[Len(old) + 1] = ref
        /\ \A k \in DOMAIN old : new[k] = old[k]
    BY <1>1, <1>6
  <2> HIDE DEF new, old
  <2> QED BY <2>1 DEF Range
<1>8. Owned(h, r) = Owned(heap, r) \union {m \in DOMAIN heap : ref = Strong(m)}
  BY <1>5, <1>7 DEF Owned
<1>9. \A n \in DOMAIN heap : n # r => Owned(h, n) = Owned(heap, n)
  BY <1>5 DEF Owned
<1> QED BY <1>3, <1>5, <1>6, <1>8, <1>9 DEF Gets

(* The reference is for the entry that the call wants next.                *)
Fits(r, ref) ==
  LET o    == heap[r]
      want == o.wants[Len(o.refs) + 1]
  IN /\ Len(o.refs) < Len(o.wants)
     /\ IF ref.obj = 0 THEN file[want.at].null ELSE heap[ref.obj].entry = want.at
     /\ want.weak => ref.weak

LEMMA GivenRight ==
  ASSUME ReadInv, NEW r \in DOMAIN heap, NEW ref \in Made,
         ref.obj \in DOMAIN heap \union {0}, Fits(r, ref),
         Gets(heap', r, ref), UNCHANGED <<writer, stream>>
  PROVE  /\ \A n \in DOMAIN heap' : ObjectRead(n)'
         /\ stream' = "open" => \A n \in DOMAIN heap' : ReadRight(n)'
         /\ \A n \in DOMAIN heap : heap'[n].entry = heap[n].entry /\ heap'[n].wants = heap[n].wants
<1>1. /\ ReadTypes /\ \A n \in DOMAIN heap : ObjectRead(n)
      /\ stream = "open" => \A n \in DOMAIN heap : ReadRight(n)
  BY DEF ReadInv
<1>2. /\ file' = file /\ stream' = stream
      /\ DOMAIN heap' = DOMAIN heap
      /\ \A n \in DOMAIN heap : n # r => heap'[n] = heap[n]
      /\ heap'[r].entry = heap[r].entry /\ heap'[r].wants = heap[r].wants
      /\ Len(heap'[r].refs) = Len(heap[r].refs) + 1
      /\ \A k \in DOMAIN heap'[r].refs :
           IF k = Len(heap[r].refs) + 1 THEN heap'[r].refs[k] = ref
           ELSE k \in DOMAIN heap[r].refs /\ heap'[r].refs[k] = heap[r].refs[k]
  BY DEF Gets, writer
<1>3. \A n \in DOMAIN heap : heap'[n].entry = heap[n].entry /\ heap'[n].wants = heap[n].wants
  BY <1>2
<1>4. ASSUME NEW n \in DOMAIN heap'
      PROVE  ObjectRead(n)'
  <2>1. CASE n = r
    <3>1. Len(heap[r].refs) \in Nat /\ Len(heap[r].wants) \in Nat
      BY <1>1, ObjectType
    <3>2. Len(heap'[r].refs) <= Len(heap'[r].wants)
      BY <1>2, <3>1 DEF Fits
    <3>3. \A k \in DOMAIN heap'[r].refs : heap'[r].refs[k].obj \in DOMAIN heap \union {0}
      BY <1>1, <1>2 DEF ObjectRead
    <3> QED BY <1>1, <1>2, <2>1, <3>2, <3>3 DEF ObjectRead
  <2>2. CASE n # r
    <3>1. heap'[n] = heap[n] /\ ObjectRead(n)
      BY <1>1, <1>2, <2>2
    <3> QED BY <1>2, <3>1 DEF ObjectRead
  <2> QED BY <2>1, <2>2
<1>5. ASSUME stream' = "open", NEW n \in DOMAIN heap'
      PROVE  ReadRight(n)'
  <2>1. n \in DOMAIN heap /\ ReadRight(n) /\ ObjectRead(n)
    BY <1>1, <1>2, <1>5
  <2> SUFFICES ASSUME NEW k \in DOMAIN heap'[n].refs
               PROVE  LET x    == heap'[n].refs[k]
                          want == heap'[n].wants[k]
                      IN /\ IF x.obj = 0 THEN file'[want.at].null
                            ELSE heap'[x.obj].entry = want.at
                         /\ want.weak => x.weak
    BY DEF ReadRight
  <2>2. CASE n = r /\ k = Len(heap[r].refs) + 1
    <3>1. heap'[n].refs[k] = ref
      BY <1>2, <2>2
    <3>2. heap'[n].wants[k] = heap[r].wants[Len(heap[r].refs) + 1]
      BY <1>2, <2>2
    <3> DEFINE want == heap[r].wants[Len(heap[r].refs) + 1]
    <3>3. /\ IF ref.obj = 0 THEN file[want.at].null ELSE heap[ref.obj].entry = want.at
          /\ want.weak => ref.weak
      BY DEF Fits
    <3>4. ref.obj # 0 => heap'[ref.obj].entry = heap[ref.obj].entry
      BY <1>3
    <3> HIDE DEF want
    <3>5. /\ IF ref.obj = 0 THEN file'[want.at].null ELSE heap'[ref.obj].entry = want.at
          /\ want.weak => ref.weak
      BY <1>2, <3>3, <3>4
    <3> QED BY <3>1, <3>2, <3>5 DEF want
  <2>3. CASE ~ (n = r /\ k = Len(heap[r].refs) + 1)
    <3>1. k \in DOMAIN heap[n].refs /\ heap'[n].refs[k] = heap[n].refs[k]
      BY <1>2, <2>1, <2>3
    <3>2. heap[n].refs[k].obj \in DOMAIN heap \union {0}
      BY <2>1, <3>1 DEF ObjectRead
    <3> QED BY <1>2, <1>3, <2>1, <3>1, <3>2 DEF ReadRight
  <2> QED BY <2>2, <2>3
<1> QED BY <1>3, <1>4, <1>5

(* The calls that go on are those in progress without, it may be, the      *)
(* inmost; the first of them gets the reference.                           *)
Going(s) ==
  /\ s \in Seq(Nat) /\ s # <<>>
  /\ \A k \in DOMAIN s : s[k] \in alive
  /\ \A j, k \in DOMAIN s : j < k => s[k] < s[j]
  /\ \A k \in DOMAIN s : k + 1 \in DOMAIN s =>
       LET o == heap[s[k + 1]]
       IN /\ Len(o.refs) < Len(o.wants)
          /\ o.wants[Len(o.refs) + 1].at = heap[s[k]].entry
  /\ heap[s[Len(s)]].entry = 1
  /\ Range(s) \subseteq Range(calls)

LEMMA GivenCalls ==
  ASSUME ReadInv, NEW s, Going(s), NEW ref \in Made,
         ref.obj \in alive \union {0}, Fits(s[1], ref),
         ~ref.weak /\ ref.obj # 0 => s[1] < ref.obj,
         Gets(heap', s[1], ref), UNCHANGED <<writer, stream, cache, held>>,
         calls # <<>>, calls' = s,
         alive' = Kept(heap', s, held') \intersect alive,
         StrongOnesLead'
  PROVE  ReadInv'
<1> DEFINE r == s[1]
<1>1. /\ ReadTypes /\ Begun /\ CacheRight /\ HeldRight /\ Ages /\ OwnedAlive
      /\ \A n \in DOMAIN heap : ObjectRead(n)
      /\ alive \subseteq DOMAIN heap /\ ref.obj \in DOMAIN heap \union {0}
  BY DEF ReadInv, ReadTypes
<1>2. /\ s \in Seq(Nat) /\ s # <<>> /\ 1 \in DOMAIN s /\ Len(s) \in DOMAIN s
      /\ DOMAIN s = 1 .. Len(s) /\ Len(s) \in Nat
      /\ \A k \in DOMAIN s : s[k] \in DOMAIN heap /\ s[k] \in alive
      /\ r \in DOMAIN heap
  BY <1>1 DEF Going
<1>3. /\ heap' \in Seq(HeapObjects) /\ DOMAIN heap' = DOMAIN heap
      /\ \A n \in DOMAIN heap : n # r => heap'[n] = heap[n]
      /\ Len(heap'[r].refs) = Len(heap[r].refs) + 1
      /\ \A k \in DOMAIN heap'[r].refs :
           IF k = Len(heap[r].refs) + 1 THEN heap'[r].refs[k] = ref
           ELSE k \in DOMAIN heap[r].refs /\ heap'[r].refs[k] = heap[r].refs[k]
  BY DEF Gets
<1>4. /\ \A n \in DOMAIN heap' : ObjectRead(n)'
      /\ stream' = "open" => \A n \in DOMAIN heap' : ReadRight(n)'
      /\ \A n \in DOMAIN heap : heap'[n].entry = heap[n].entry /\ heap'[n].wants = heap[n].wants
  <2>1. r \in DOMAIN heap /\ Fits(r, ref) /\ Gets(heap', r, ref) /\ UNCHANGED <<writer, stream>>
    BY <1>2
  <2> HIDE DEF r
  <2> QED BY <1>1, <2>1, GivenRight
<1> HIDE DEF r
<1>5. /\ calls' = s /\ UNCHANGED <<graph, index, synced, file, stream, cache, held>>
      /\ alive' \subseteq alive
  BY DEF writer
<1>6. ReadTypes'
  BY <1>1, <1>2, <1>3, <1>5 DEF ReadTypes
<1>7. Begun'
  <2>1. stream \notin {"none", "closed"}
    BY <1>1 DEF Begun
  <2> QED BY <1>1, <1>5, <2>1 DEF Begun
<1>8. CacheRight'
  <2>1. DOMAIN cache = {} \/ cache \in [DOMAIN file -> DOMAIN heap \union {0}]
    BY <1>1 DEF ReadTypes
  <2>2. \A p \in DOMAIN cache : cache[p] # 0 => cache[p] \in DOMAIN heap
    BY <2>1
  <2> QED BY <1>1, <1>4, <1>5, <2>2 DEF CacheRight
<1>9. Range(s) \subseteq alive'
  <2> DEFINE roots == Roots(heap', s, held')
  <2>1. roots \subseteq DOMAIN heap' /\ \A k \in DOMAIN s : s[k] \in roots
    BY <1>2, <1>3 DEF Roots
  <2>2. Kept(heap', s, held') = KeptBy(heap', roots)
    BY DEF Kept
  <2> HIDE DEF roots
  <2>3. roots \subseteq KeptBy(heap', roots)
    BY <2>1, KeptClosed
  <2> QED BY <1>2, <2>1, <2>2, <2>3 DEF Range
<1>10. CallsNest'
  <2>1. \A k \in DOMAIN s : s[k] \in alive'
    BY <1>9 DEF Range
  <2>2. \A j, k \in DOMAIN s : j < k => s[k] < s[j]
    BY DEF Going
  <2>3. ASSUME NEW k \in DOMAIN s, k + 1 \in DOMAIN s
        PROVE  LET o == heap'[s[k + 1]]
               IN /\ Len(o.refs) < Len(o.wants)
                  /\ o.wants[Len(o.refs) + 1].at = heap'[s[k]].entry
    <3>1. s[k + 1] < r /\ s[k + 1] \in DOMAIN heap /\ s[k] \in DOMAIN heap
      <4>1. 1 < k + 1
        BY <1>2
      <4> QED BY <1>2, <2>2, <2>3, <4>1 DEF r
    <3>2. heap'[s[k + 1]] = heap[s[k + 1]] /\ heap'[s[k]].entry = heap[s[k]].entry
      <4>1. s[k + 1] # r
        BY <1>1, <1>2, <3>1, ObjectType
      <4> QED BY <1>3, <1>4, <3>1, <4>1
    <3> QED BY <2>3, <3>2 DEF Going
  <2>4. heap'[s[Len(s)]].entry = 1
    BY <1>2, <1>4 DEF Going
  <2> QED BY <1>5, <2>1, <2>2, <2>3, <2>4 DEF CallsNest
<1>11. Ages'
  <2> SUFFICES ASSUME NEW n \in DOMAIN heap', NEW k \in DOMAIN heap'[n].refs
               PROVE  LET x == heap'[n].refs[k]
                      IN /\ ~x.weak /\ x.obj # 0 => n < x.obj
                         /\ \A m \in Range(s) : n < m => x.obj < m
    BY <1>5 DEF Ages
  <2>1. CASE n = r /\ k = Len(heap[r].refs) + 1
    <3>1. heap'[n].refs[k] = ref
      BY <1>3, <2>1
    <3>2. \A m \in Range(s) : ~(r < m)
      <4> SUFFICES ASSUME NEW j \in DOMAIN s PROVE ~(r < s[j])
        BY DEF Range
      <4>1. r \in Nat /\ s[j] \in Nat /\ j \in Nat
        BY <1>2 DEF r
      <4>2. CASE j = 1
        BY <4>1, <4>2 DEF r
      <4>3. CASE j # 1
        <5>1. s[j] < r
          BY <1>2, <4>3 DEF r, Going
        <5> QED BY <4>1, <5>1
      <4> QED BY <4>2, <4>3
    <3> QED BY <2>1, <3>1, <3>2 DEF r
  <2>2. CASE ~ (n = r /\ k = Len(heap[r].refs) + 1)
    <3>1. n \in DOMAIN heap /\ k \in DOMAIN heap[n].refs /\ heap'[n].refs[k] = heap[n].refs[k]
      BY <1>3, <2>2
    <3> QED BY <1>1, <3>1 DEF Ages, Going
  <2> QED BY <2>1, <2>2
<1>12. HeldRight'
  BY <1>1, <1>5 DEF HeldRight
<1>13. AliveKept'
  BY <1>5 DEF AliveKept
<1>14. OwnedAlive'
  <2>1. Closed(heap', Kept(heap', s, held'))
    <3>1. Roots(heap', s, held') \subseteq DOMAIN heap'
      BY <1>2, <1>3 DEF Roots
    <3> QED BY <3>1, KeptClosed DEF Kept
  <2>2. ASSUME NEW n \in alive, NEW m \in Owned(heap', n)
        PROVE  m \in alive
    <3>1. n \in DOMAIN heap /\ m \in DOMAIN heap /\ m # 0
      BY <1>1, <1>3, <2>2, ObjectType DEF Owned
    <3>2. PICK k \in DOMAIN heap'[n].refs : heap'[n].refs[k] = Strong(m)
      BY <2>2 DEF Owned, Range
    <3>3. CASE n = r /\ k = Len(heap[r].refs) + 1
      <4>1. ref = Strong(m)
        BY <1>3, <3>2, <3>3
      <4> QED BY <3>1, <4>1 DEF Strong
    <3>4. CASE ~ (n = r /\ k = Len(heap[r].refs) + 1)
      <4>1. k \in DOMAIN heap[n].refs /\ heap[n].refs[k] = Strong(m)
        BY <1>3, <3>1, <3>2, <3>4
      <4>2. m \in Owned(heap, n)
        BY <3>1, <4>1 DEF Owned, Range
      <4> QED BY <1>1, <2>2, <4>2 DEF OwnedAlive, Closed
    <3> QED BY <3>3, <3>4
  <2>3. alive' = Kept(heap', s, held') \intersect alive
    OBVIOUS
  <2> QED BY <2>1, <2>2, <2>3 DEF OwnedAlive, Closed
<1> QED BY <1>4, <1>6, <1>7, <1>8, <1>10, <1>11, <1>12, <1>13, <1>14 DEF ReadInv
LEMMA FlaggedType ==
  ASSUME NEW want \in Wanted, NEW ref \in Made
  PROVE  /\ Flagged(want, ref) \in Made
         /\ Flagged(want, ref).obj = ref.obj
         /\ Flagged(want, ref).weak = (ref.weak \/ want.weak)
BY DEF Flagged, Made, Wanted

(* What a call in progress does when it is given a reference.              *)
LEMMA CallReceives ==
  ASSUME NEW s, s # <<>>, NEW ref, Receive(s, ref)
  PROVE  LET o == heap[s[1]]
         IN /\ heap' = WithRef(s[1], Flagged(o.wants[Len(o.refs) + 1], ref))
            /\ held' = held /\ calls' = s /\ UNCHANGED <<writer, cache>>
            /\ alive' = Kept(heap', s, held') \intersect alive
BY DEF Receive, WithRef

LEMMA Calling ==
  ASSUME ReadInv, calls # <<>>
  PROVE  /\ calls[1] = reader /\ calls \in Seq(Nat) /\ 1 \in DOMAIN calls
         /\ reader \in DOMAIN heap /\ reader \in alive
         /\ reader \in Nat /\ reader \in Range(calls)
         /\ \A m \in Range(calls) : m <= reader /\ m \in alive /\ m \in DOMAIN heap
         /\ Roots(heap, calls, held) = Range(calls)
         /\ held.weak \/ held.obj = 0
<1>1. ReadTypes /\ CallsNest /\ HeldRight
  BY DEF ReadInv
<1>2. calls \in Seq(Nat) /\ calls[1] = reader /\ 1 \in DOMAIN calls /\ DOMAIN calls \subseteq Nat \ {0}
  BY <1>1 DEF ReadTypes, reader
<1>3. \A k \in DOMAIN calls : calls[k] \in alive /\ calls[k] \in DOMAIN heap /\ calls[k] \in Nat
  BY <1>1, <1>2 DEF ReadTypes, CallsNest
<1>4. \A k \in DOMAIN calls : calls[k] <= reader
  <2> TAKE k \in DOMAIN calls
  <2>1. CASE k = 1
    BY <1>2, <1>3, <2>1
  <2>2. CASE k # 1
    <3>1. 1 < k
      BY <1>2, <2>2
    <3> QED BY <1>1, <1>2, <1>3, <3>1 DEF CallsNest
  <2> QED BY <2>1, <2>2
<1>5. held.weak \/ held.obj = 0
  BY <1>1 DEF HeldRight
<1>6. \A n \in DOMAIN heap : held # Strong(n)
  <2>1. \A n \in DOMAIN heap : ~Strong(n).weak /\ Strong(n).obj = n /\ n # 0
    BY <1>1, ObjectType DEF Strong
  <2> QED BY <1>5, <2>1
<1>7. Roots(heap, calls, held) = Range(calls)
  BY <1>6 DEF Roots, Range
<1> QED BY <1>2, <1>3, <1>4, <1>5, <1>7 DEF Range

(* A reference to an object that is there already keeps nothing alive, and *)
(* the object is there for another reason.                                 *)
LEMMA CachedGiven ==
  ASSUME WriteInv, ReadInv, ReadCached, NEW ref, ref = Flagged(wanted, Cached(wanted.at))
  PROVE  /\ Gets(heap', reader, ref) /\ Fits(reader, ref)
         /\ ref \in Made /\ ref.obj \in alive \union {0} /\ (ref.weak \/ ref.obj = 0)
         /\ ref.weak = (Cached(wanted.at).weak \/ wanted.weak)
         /\ Loaded(wanted.at)
         /\ alive' = alive /\ alive' = Kept(heap', calls, held') \intersect alive
         /\ UNCHANGED <<writer, stream, cache, calls, held>>
<1> DEFINE r == reader
           want == wanted
<1>1. /\ ReadTypes /\ CacheRight /\ CallsNest /\ AliveKept
      /\ \A n \in DOMAIN heap : ObjectRead(n)
  BY DEF ReadInv
<1>2. /\ calls # <<>> /\ Len(heap[r].refs) < Len(heap[r].wants)
      /\ Loaded(want.at) /\ Receive(calls, Cached(want.at)) /\ stream' = stream
  BY DEF ReadCached, Reading
<1>3. /\ calls[1] = r /\ calls \in Seq(Nat) /\ r \in DOMAIN heap /\ r \in alive
      /\ Roots(heap, calls, held) = Range(calls) /\ Range(calls) \subseteq DOMAIN heap
  BY <1>2, Calling
<1>4. want \in Wanted /\ want.at \in DOMAIN file /\ want = heap[r].wants[Len(heap[r].refs) + 1]
  <2>1. /\ heap[r].wants \in Seq(Wanted) /\ Len(heap[r].refs) \in Nat
        /\ Len(heap[r].wants) \in Nat
    BY <1>1, <1>3, ObjectType
  <2>2. Len(heap[r].refs) + 1 \in DOMAIN heap[r].wants
    BY <1>2, <2>1
  <2> QED BY <1>1, <1>3, <2>1, <2>2 DEF ObjectRead, wanted
<1>5. /\ Cached(want.at) \in Made
      /\ Cached(want.at).obj \in alive \union {0}
      /\ Cached(want.at).obj = 0 => file[want.at].null
      /\ Cached(want.at).obj # 0 => /\ heap[Cached(want.at).obj].entry = want.at
                                    /\ Cached(want.at).weak
  <2>1. CASE file[want.at].null
    BY <2>1 DEF Cached, Strong, Made
  <2>2. CASE ~file[want.at].null
    <3>1. cache[want.at] \in alive /\ Cached(want.at) = Weak(cache[want.at])
      BY <1>2, <2>2 DEF Loaded, Cached
    <3>2. cache[want.at] \in DOMAIN heap /\ cache[want.at] \in Nat /\ cache[want.at] # 0
      BY <1>1, <3>1, ObjectType DEF ReadTypes
    <3>3. want.at \in DOMAIN cache
      <4>1. stream # "none"
        BY <1>2 DEF ReadInv, Begun
      <4> QED BY <1>1, <1>4, <4>1 DEF ReadTypes
    <3> QED BY <1>1, <3>1, <3>2, <3>3 DEF CacheRight, Weak, Made
  <2> QED BY <2>1, <2>2
<1>6. ref = Flagged(want, Cached(want.at))
  OBVIOUS
<1> HIDE DEF want
<1>7. /\ ref \in Made /\ ref.obj = Cached(want.at).obj
      /\ ref.weak = (Cached(want.at).weak \/ want.weak)
  <2> DEFINE x == Cached(want.at)
  <2>1. want \in Wanted /\ x \in Made
    BY <1>4, <1>5
  <2> HIDE DEF x
  <2>2. /\ Flagged(want, x) \in Made /\ Flagged(want, x).obj = x.obj
        /\ Flagged(want, x).weak = (x.weak \/ want.weak)
    BY <2>1, FlaggedType
  <2> QED BY <1>6, <2>2, SMTT(30) DEF x
<1>8. /\ heap' = WithRef(r, ref) /\ held' = held /\ calls' = calls
      /\ UNCHANGED <<writer, cache>>
      /\ alive' = Kept(heap', calls, held') \intersect alive
  BY <1>2, <1>3, <1>4, <1>6, CallReceives
<1>9. ref.obj \in DOMAIN heap \union {0} /\ ref.obj \in alive \union {0} /\ (ref.weak \/ ref.obj = 0)
  BY <1>1, <1>5, <1>7 DEF ReadTypes
<1>10. Fits(r, ref)
  BY <1>2, <1>4, <1>5, <1>7, Zenon DEF Fits
<1> HIDE DEF r
<1>11. Gets(heap', r, ref)
  BY <1>1, <1>3, <1>7, <1>8, Given
<1>12. alive \subseteq alive'
  <2> DEFINE roots == Roots(heap, calls, held)
             K == KeptBy(heap', roots)
  <2>1. DOMAIN heap' = DOMAIN heap /\ \A n \in DOMAIN heap : Owned(heap, n) \subseteq Owned(heap', n)
    BY <1>3, <1>11 DEF Gets
  <2>2. /\ Roots(heap', calls, held') = roots
        /\ roots \subseteq DOMAIN heap /\ KeptBy(heap, roots) = Kept(heap, calls, held)
    BY <1>3, <1>8, <2>1 DEF Roots, Kept
  <2>3. Kept(heap', calls, held') = K
    BY <2>2 DEF Kept
  <2> HIDE DEF roots, K
  <2>4. roots \subseteq K /\ Closed(heap', K)
    BY <2>1, <2>2, KeptClosed DEF K
  <2>5. KeptBy(heap, roots) \subseteq K
    BY <2>1, <2>2, <2>4, KeptGrows
  <2> QED BY <1>1, <1>8, <2>2, <2>3, <2>5 DEF AliveKept
<1> QED BY <1>2, <1>7, <1>8, <1>9, <1>10, <1>11, <1>12 DEF r, want

LEMMA CachedRead ==
  ASSUME WriteInv, ReadInv, ReadCached
  PROVE  ReadInv'
<1> DEFINE r == reader
           ref == Flagged(wanted, Cached(wanted.at))
<1>1. ReadTypes /\ CallsNest /\ StrongLeads /\ calls # <<>>
  <2>1. calls # <<>>
    BY DEF ReadCached, Reading
  <2> QED BY <2>1, LeadWhole DEF ReadInv
<1>2. calls[1] = r /\ calls \in Seq(Nat)
  BY <1>1, Calling
<1>3. /\ Gets(heap', r, ref) /\ Fits(r, ref)
      /\ ref \in Made /\ ref.obj \in alive \union {0} /\ (ref.weak \/ ref.obj = 0)
      /\ alive' = alive /\ alive' = Kept(heap', calls, held') \intersect alive
      /\ UNCHANGED <<writer, stream, cache, calls, held>>
  BY CachedGiven
<1> HIDE DEF ref, r
<1>4. Going(calls)
  BY <1>1, <1>2 DEF Going, CallsNest
<1>5. ref.obj \in alive \union {0}
  BY <1>3
<1>6. StrongOnesLead'
  <2> SUFFICES ASSUME NEW n \in alive', NEW k \in DOMAIN heap'[n].refs,
                      ~heap'[n].wants[k].weak, heap'[n].refs[k].obj # 0
               PROVE  heap'[n].refs[k].obj \in alive'
    BY DEF StrongOnesLead
  <2>1. n \in alive /\ n \in DOMAIN heap
    BY <1>1, <1>3 DEF ReadTypes
  <2>2. CASE n = r /\ k = Len(heap[r].refs) + 1
    BY <1>3, <2>2 DEF Gets
  <2>3. CASE ~ (n = r /\ k = Len(heap[r].refs) + 1)
    <3>1. /\ k \in DOMAIN heap[n].refs /\ heap'[n].refs[k] = heap[n].refs[k]
          /\ heap'[n].wants = heap[n].wants
      BY <1>3, <2>1, <2>3 DEF Gets
    <3> QED BY <1>1, <1>3, <2>1, <3>1 DEF StrongLeads
  <2> QED BY <2>2, <2>3
<1>7. /\ Fits(calls[1], ref) /\ Gets(heap', calls[1], ref)
      /\ (~ref.weak /\ ref.obj # 0 => calls[1] < ref.obj)
      /\ UNCHANGED <<writer, stream, cache, held>>
  BY <1>2, <1>3
<1> QED BY <1>1, <1>3, <1>4, <1>5, <1>6, <1>7, GivenCalls

(***************************************************************************)
(* A call returns                                                          *)
(***************************************************************************)
LEMMA Outer ==
  ASSUME ReadInv, calls # <<>>, Tail(calls) # <<>>
  PROVE  /\ Going(Tail(calls))
         /\ Tail(calls)[1] \in DOMAIN heap /\ Tail(calls)[1] < reader
         /\ \A m \in Range(Tail(calls)) : m < reader
         /\ Range(calls) \subseteq Range(Tail(calls)) \union {reader}
         /\ LET o == heap[Tail(calls)[1]]
            IN /\ Len(o.refs) < Len(o.wants)
               /\ o.wants[Len(o.refs) + 1].at = heap[reader].entry
<1> DEFINE s == Tail(calls)
<1>1. ReadTypes /\ CallsNest /\ calls \in Seq(Nat) /\ calls[1] = reader
  BY Calling DEF ReadInv
<1>2. /\ s \in Seq(Nat) /\ Len(calls) = Len(s) + 1 /\ Len(s) \in Nat
      /\ DOMAIN s = 1 .. Len(s) /\ DOMAIN calls = 1 .. Len(s) + 1
      /\ \A k \in DOMAIN s : s[k] = calls[k + 1]
      /\ 1 \in DOMAIN s
  BY <1>1
<1> HIDE DEF s
<1>3. \A k \in DOMAIN s : k \in Nat /\ k + 1 \in DOMAIN calls /\ 1 < k + 1 /\ 1 \in DOMAIN calls
  BY <1>2
<1>4. \A k \in DOMAIN s : s[k] \in alive /\ s[k] < reader
  BY <1>1, <1>2, <1>3 DEF CallsNest
<1>5. \A j, k \in DOMAIN s : j < k => s[k] < s[j]
  <2> TAKE j, k \in DOMAIN s
  <2>1. j < k => j + 1 < k + 1
    BY <1>3
  <2> QED BY <1>1, <1>2, <1>3, <2>1 DEF CallsNest
<1>6. ASSUME NEW k \in DOMAIN s, k + 1 \in DOMAIN s
      PROVE  LET o == heap[s[k + 1]]
             IN /\ Len(o.refs) < Len(o.wants)
                /\ o.wants[Len(o.refs) + 1].at = heap[s[k]].entry
  <2>1. /\ k + 1 \in DOMAIN calls /\ (k + 1) + 1 \in DOMAIN calls
        /\ s[k] = calls[k + 1] /\ s[k + 1] = calls[(k + 1) + 1]
    BY <1>2, <1>3, <1>6
  <2> QED BY <1>1, <2>1 DEF CallsNest
<1>7. heap[s[Len(s)]].entry = 1
  <2>1. Len(s) \in DOMAIN s /\ s[Len(s)] = calls[Len(calls)]
    BY <1>2
  <2> QED BY <1>1, <2>1 DEF CallsNest
<1>8. Range(s) \subseteq Range(calls) /\ Range(calls) \subseteq Range(s) \union {reader}
  <2>1. \A k \in DOMAIN s : s[k] \in Range(calls)
    BY <1>2, <1>3 DEF Range
  <2>2. \A k \in DOMAIN calls : calls[k] \in Range(s) \union {reader}
    <3> TAKE k \in DOMAIN calls
    <3>1. CASE k = 1
      BY <1>1, <3>1
    <3>2. CASE k # 1
      <4>1. k - 1 \in DOMAIN s /\ (k - 1) + 1 = k
        BY <1>2, <3>2
      <4> QED BY <1>2, <4>1 DEF Range
    <3> QED BY <3>1, <3>2
  <2> QED BY <2>1, <2>2 DEF Range
<1>9. LET o == heap[s[1]]
      IN /\ Len(o.refs) < Len(o.wants)
         /\ o.wants[Len(o.refs) + 1].at = heap[reader].entry
  <2>1. 1 + 1 \in DOMAIN calls /\ 1 \in DOMAIN calls /\ s[1] = calls[1 + 1]
    BY <1>2, <1>3
  <2> QED BY <1>1, <2>1 DEF CallsNest
<1>10. \A m \in Range(s) : m < reader
  BY <1>4 DEF Range
<1>11. Going(s)
  BY <1>2, <1>4, <1>5, <1>6, <1>7, <1>8 DEF Going
<1>12. s[1] \in DOMAIN heap /\ s[1] < reader
  BY <1>1, <1>2, <1>4 DEF ReadTypes
<1> QED BY <1>8, <1>9, <1>10, <1>11, <1>12 DEF s

(* The caller's reference is strong: it keeps what the call kept.          *)
LEMMA StrongReturn ==
  ASSUME ReadInv, calls # <<>>, Tail(calls) # <<>>,
         NEW r, r = Tail(calls)[1], NEW ref, ref = Strong(reader),
         Gets(heap', r, ref), held' = held,
         alive' = Kept(heap', Tail(calls), held') \intersect alive
  PROVE  alive \subseteq alive'
<1> DEFINE roots == Roots(heap, calls, held)
           new   == Roots(heap', Tail(calls), held')
           K     == KeptBy(heap', new)
<1>1. /\ ReadTypes /\ AliveKept
      /\ roots = Range(calls) /\ reader \in DOMAIN heap /\ Range(calls) \subseteq DOMAIN heap
  BY Calling DEF ReadInv
<1>2. /\ DOMAIN heap' = DOMAIN heap /\ reader \in Owned(heap', r)
      /\ \A n \in DOMAIN heap : Owned(heap, n) \subseteq Owned(heap', n)
  BY <1>1 DEF Gets
<1>3. /\ Going(Tail(calls)) /\ Range(calls) \subseteq Range(Tail(calls)) \union {reader}
      /\ Range(Tail(calls)) \subseteq Range(calls)
      /\ r \in Range(Tail(calls))
  <2>1. Going(Tail(calls)) /\ Range(calls) \subseteq Range(Tail(calls)) \union {reader}
    BY Outer
  <2>2. 1 \in DOMAIN Tail(calls) /\ Range(Tail(calls)) \subseteq Range(calls)
    BY <2>1 DEF Going
  <2> QED BY <2>1, <2>2 DEF Range
<1>4. Range(Tail(calls)) \subseteq new /\ new \subseteq DOMAIN heap'
  BY <1>1, <1>2, <1>3 DEF Roots, Range
<1>5. Kept(heap', Tail(calls), held') = K /\ KeptBy(heap, roots) = Kept(heap, calls, held)
  BY DEF Kept
<1> HIDE DEF roots, new, K
<1>6. new \subseteq K /\ Closed(heap', K)
  BY <1>4, KeptClosed DEF K
<1>7. roots \subseteq K /\ roots \subseteq DOMAIN heap
  BY <1>1, <1>2, <1>3, <1>4, <1>6 DEF Closed
<1>8. KeptBy(heap, roots) \subseteq K
  BY <1>2, <1>6, <1>7, KeptGrows
<1> QED BY <1>1, <1>5, <1>8 DEF AliveKept

(* It is weak: the object goes, and of what is older, nothing.             *)
LEMMA WeakReturn ==
  ASSUME ReadInv, calls # <<>>, Tail(calls) # <<>>,
         NEW r, r = Tail(calls)[1], NEW ref, ref.weak, Gets(heap', r, ref), held' = held,
         alive' = Kept(heap', Tail(calls), held') \intersect alive
  PROVE  /\ \A n \in alive' : n < reader
         /\ \A n \in alive : n < reader => n \in alive'
<1> DEFINE roots == Roots(heap, calls, held)
           new   == Roots(heap', Tail(calls), held')
           K     == KeptBy(heap', new)
           below == {n \in DOMAIN heap : n < reader}
           all   == (K \union {n \in DOMAIN heap : reader <= n}) \intersect DOMAIN heap
<1>1. /\ ReadTypes /\ AliveKept /\ Ages
      /\ roots = Range(calls) /\ reader \in DOMAIN heap /\ Range(calls) \subseteq DOMAIN heap
      /\ held.weak \/ held.obj = 0
      /\ reader \in Range(calls)
      /\ DOMAIN heap \subseteq Nat \ {0} /\ reader \in Nat
  <2>1. ReadTypes /\ AliveKept /\ Ages
    BY DEF ReadInv
  <2> QED BY <2>1, Calling, ObjectType
<1>2. DOMAIN heap' = DOMAIN heap /\ \A n \in DOMAIN heap : Owned(heap', n) = Owned(heap, n)
  <2>1. \A m : ref # Strong(m)
    BY DEF Strong
  <2> QED BY <2>1 DEF Gets
<1>3. /\ Range(calls) \subseteq Range(Tail(calls)) \union {reader}
      /\ Range(Tail(calls)) \subseteq Range(calls)
      /\ \A m \in Range(Tail(calls)) : m < reader
  <2>1. /\ Range(calls) \subseteq Range(Tail(calls)) \union {reader}
        /\ Going(Tail(calls)) /\ \A m \in Range(Tail(calls)) : m < reader
    BY Outer
  <2> QED BY <2>1 DEF Going
<1>4. new = Range(Tail(calls))
  <2>1. \A n \in DOMAIN heap : held # Strong(n)
    <3>1. \A n \in DOMAIN heap : ~Strong(n).weak /\ Strong(n).obj = n /\ n # 0
      BY <1>1 DEF Strong
    <3> QED BY <1>1, <3>1
  <2> QED BY <1>2, <2>1 DEF Roots, Range
<1>5. Kept(heap', Tail(calls), held') = K /\ KeptBy(heap, roots) = Kept(heap, calls, held)
  BY DEF Kept
<1>6. \A n \in DOMAIN heap : \A m \in Owned(heap, n) :
        /\ m \in DOMAIN heap /\ n < m /\ (n < reader => m < reader)
  <2> TAKE n \in DOMAIN heap
  <2> TAKE m \in Owned(heap, n)
  <2>1. PICK k \in DOMAIN heap[n].refs : heap[n].refs[k] = Strong(m)
    BY DEF Owned, Range
  <2>2. m \in DOMAIN heap /\ m # 0
    BY <1>1 DEF Owned
  <2> QED BY <1>1, <2>1, <2>2 DEF Ages, Strong
<1> HIDE DEF roots, new
<1>7. K \subseteq below
  <2>1. below \in SUBSET DOMAIN heap' /\ new \subseteq below
    BY <1>1, <1>2, <1>3, <1>4
  <2>2. Closed(heap', below)
    BY <1>2, <1>6 DEF Closed
  <2> HIDE DEF below
  <2> QED BY <2>1, <2>2, KeptLeast
<1>8. new \subseteq K /\ Closed(heap', K)
  <2>1. new \subseteq DOMAIN heap'
    BY <1>1, <1>2, <1>3, <1>4
  <2> QED BY <2>1, KeptClosed
<1>9. KeptBy(heap, roots) \subseteq all
  <2> HIDE DEF K
  <2>1. all \in SUBSET DOMAIN heap /\ roots \subseteq all
    BY <1>1, <1>3, <1>4, <1>8
  <2>2. Closed(heap, all)
    <3> SUFFICES ASSUME NEW n \in all, NEW m \in Owned(heap, n) PROVE m \in all
      BY DEF Closed
    <3>1. n \in DOMAIN heap /\ m \in DOMAIN heap /\ n < m /\ n \in Nat /\ m \in Nat
      BY <1>1, <1>6
    <3>2. CASE n \in K
      BY <1>2, <1>8, <3>1, <3>2 DEF Closed
    <3>3. CASE reader <= n
      BY <1>1, <3>1, <3>3
    <3> QED BY <3>2, <3>3
  <2> HIDE DEF all
  <2> QED BY <2>1, <2>2, KeptLeast
<1> HIDE DEF K
<1>10. \A n \in alive' : n < reader
  BY <1>5, <1>7
<1>11. \A n \in alive : n < reader => n \in alive'
  <2> TAKE n \in alive
  <2>1. n \in all
    BY <1>1, <1>5, <1>9 DEF AliveKept
  <2>2. n < reader => ~(reader <= n)
    BY <1>1, SMTT(30) DEF ReadTypes
  <2> QED BY <1>5, <2>1, <2>2
<1> QED BY <1>10, <1>11
(* What the caller gets.                                                   *)
Returned(r) == Flagged(heap[r].wants[Len(heap[r].refs) + 1], Strong(reader))

LEMMA ReturnGiven ==
  ASSUME WriteInv, ReadInv, Return, Tail(calls) # <<>>,
         NEW r, r = Tail(calls)[1],
         NEW want, want = heap[r].wants[Len(heap[r].refs) + 1],
         NEW ref, ref = Returned(r)
  PROVE  /\ Gets(heap', r, ref) /\ Fits(r, ref) /\ r \in DOMAIN heap
         /\ ref \in Made /\ ref.obj = reader /\ ref.weak = want.weak
         /\ ~want.weak => ref = Strong(reader)
         /\ alive' = Kept(heap', Tail(calls), held') \intersect alive
         /\ calls' = Tail(calls)
         /\ UNCHANGED <<writer, stream, cache, held>>
<1> DEFINE s == Tail(calls)
<1>1. /\ ReadTypes /\ CacheRight /\ Ages
      /\ \A n \in DOMAIN heap : ObjectRead(n)
  BY DEF ReadInv
<1>2. calls # <<>> /\ Receive(s, Strong(reader)) /\ stream' = stream
  BY DEF Return
<1>3. /\ Going(s) /\ r \in DOMAIN heap /\ r < reader
      /\ Len(heap[r].refs) < Len(heap[r].wants) /\ want.at = heap[reader].entry
  BY <1>2, Outer
<1>4. reader \in DOMAIN heap /\ reader \in alive /\ reader \in Nat /\ reader # 0 /\ reader \in Range(calls)
  <2>1. reader \in DOMAIN heap /\ reader \in alive /\ reader \in Nat /\ reader \in Range(calls)
    BY <1>2, Calling
  <2> QED BY <1>1, <2>1, ObjectType
<1>5. want \in Wanted
  <2>1. /\ heap[r].wants \in Seq(Wanted) /\ Len(heap[r].refs) \in Nat
        /\ Len(heap[r].wants) \in Nat
    BY <1>1, <1>3, ObjectType
  <2>2. Len(heap[r].refs) + 1 \in DOMAIN heap[r].wants
    BY <1>3, <2>1, SMTT(30)
  <2> QED BY <2>1, <2>2
<1>6. s # <<>> /\ r = s[1]
  OBVIOUS
<1> HIDE DEF s
<1>7. /\ heap' = WithRef(r, ref) /\ held' = held /\ calls' = s
      /\ UNCHANGED <<writer, cache>>
      /\ alive' = Kept(heap', s, held') \intersect alive
  BY <1>2, <1>6, CallReceives DEF Returned
<1>8. Fits(r, ref) /\ ref \in Made /\ ref.obj = reader /\ ref.weak = want.weak
  <2>1. Strong(reader) \in Made /\ Strong(reader).obj = reader /\ ~Strong(reader).weak
    BY <1>4 DEF Strong, Made
  <2>2. ref \in Made /\ ref.obj = reader /\ ref.weak = (FALSE \/ want.weak)
    BY <1>5, <2>1, FlaggedType, Zenon DEF Returned
  <2>3. want.weak \in BOOLEAN
    BY <1>5 DEF Wanted
  <2>4. ref.weak = want.weak
    BY <2>2, <2>3, SMTT(30)
  <2>5. Fits(r, ref)
    BY <1>3, <1>4, <2>2, <2>4 DEF Fits
  <2> QED BY <2>2, <2>4, <2>5
<1>9. ~want.weak => ref = Strong(reader)
  <2>1. ref.weak \in BOOLEAN
    BY <1>8 DEF Made
  <2> QED BY <1>8, <2>1 DEF Made, Strong
<1>10. Gets(heap', r, ref)
  BY <1>1, <1>3, <1>7, <1>8, Given
<1> QED BY <1>2, <1>3, <1>7, <1>8, <1>9, <1>10 DEF s

LEMMA CallReturns ==
  ASSUME WriteInv, ReadInv, Return, Tail(calls) # <<>>
  PROVE  ReadInv'
<1> DEFINE s == Tail(calls)
           r == s[1]
           want == heap[r].wants[Len(heap[r].refs) + 1]
           ref == Returned(r)
<1>1. ReadTypes /\ Ages /\ StrongLeads
  BY LeadWhole DEF ReadInv, Return
<1>2. calls # <<>> /\ s # <<>>
  BY DEF Return
<1>3. Going(s) /\ r < reader
  BY <1>2, Outer
<1>4. reader \in DOMAIN heap /\ reader \in alive /\ reader \in Nat /\ reader \in Range(calls)
  BY <1>2, Calling
<1>5. /\ Gets(heap', r, ref) /\ Fits(r, ref) /\ r \in DOMAIN heap
      /\ ref \in Made /\ ref.obj = reader /\ ref.weak = want.weak
      /\ ~want.weak => ref = Strong(reader)
      /\ alive' = Kept(heap', s, held') \intersect alive
      /\ calls' = s
      /\ UNCHANGED <<writer, stream, cache, held>>
  BY ReturnGiven
<1> HIDE DEF s, ref
<1>6. StrongOnesLead'
  <2> SUFFICES ASSUME NEW n \in alive', NEW k \in DOMAIN heap'[n].refs,
                      ~heap'[n].wants[k].weak, heap'[n].refs[k].obj # 0
               PROVE  heap'[n].refs[k].obj \in alive'
    BY DEF StrongOnesLead
  <2>1. n \in alive /\ n \in DOMAIN heap
    BY <1>1, <1>5 DEF ReadTypes
  <2>2. heap'[n].wants = heap[n].wants
    BY <1>5, <2>1 DEF Gets
  <2>3. CASE n = r /\ k = Len(heap[r].refs) + 1
    <3>1. heap'[n].refs[k] = ref /\ ~want.weak
      BY <1>5, <2>2, <2>3, SMTT(30) DEF Gets
    <3>2. alive \subseteq alive'
      BY <1>2, <1>5, <3>1, StrongReturn DEF s
    <3> QED BY <1>4, <1>5, <3>1, <3>2
  <2>4. CASE ~ (n = r /\ k = Len(heap[r].refs) + 1)
    <3>1. k \in DOMAIN heap[n].refs /\ heap'[n].refs[k] = heap[n].refs[k]
      BY <1>5, <2>1, <2>4 DEF Gets
    <3>2. heap[n].refs[k].obj \in alive
      BY <1>1, <2>1, <2>2, <3>1 DEF StrongLeads
    <3>3. CASE ~want.weak
      <4>1. alive \subseteq alive'
        BY <1>2, <1>5, <3>3, StrongReturn DEF s
      <4> QED BY <3>1, <3>2, <4>1
    <3>4. CASE want.weak
      <4>1. ref.weak
        BY <1>5, <3>4
      <4>2. /\ \A m \in alive' : m < reader
            /\ \A m \in alive : m < reader => m \in alive'
        BY <1>2, <1>5, <4>1, WeakReturn DEF s
      <4>3. heap[n].refs[k].obj < reader
        BY <1>1, <1>4, <2>1, <3>1, <4>2 DEF Ages
      <4> QED BY <3>1, <3>2, <4>2, <4>3
    <3> QED BY <3>3, <3>4
  <2> QED BY <2>3, <2>4
<1>7. /\ Fits(s[1], ref) /\ Gets(heap', s[1], ref)
      /\ (~ref.weak /\ ref.obj # 0 => s[1] < ref.obj)
      /\ ref.obj \in alive \union {0}
  BY <1>3, <1>4, <1>5
<1> QED BY <1>2, <1>3, <1>5, <1>6, <1>7, GivenCalls

(* The outmost call: the program's variable keeps the object.              *)
LEMMA LastGiven ==
  ASSUME WriteInv, ReadInv, Return, Tail(calls) = <<>>
  PROVE  /\ calls # <<>> /\ calls' = <<>> /\ held' = Strong(reader)
         /\ alive' = alive /\ Range(calls) = {reader} /\ heap[reader].entry = 1
         /\ reader \in DOMAIN heap /\ reader \in alive /\ reader \in Nat
         /\ UNCHANGED <<writer, stream, heap, cache>>
<1>1. /\ ReadTypes /\ Begun /\ CacheRight /\ Ages /\ CallsNest /\ AliveKept
      /\ \A n \in DOMAIN heap : ObjectRead(n)
      /\ stream = "open" => \A n \in DOMAIN heap : ReadRight(n)
  BY DEF ReadInv
<1>2. /\ calls # <<>> /\ calls' = <<>> /\ held' = Strong(reader)
      /\ alive' = Kept(heap', <<>>, held') \intersect alive
      /\ heap' = heap /\ stream' = stream /\ UNCHANGED <<writer, cache>>
  BY DEF Return, Receive
<1>3. /\ calls[1] = reader /\ reader \in DOMAIN heap /\ reader \in alive
      /\ reader \in Nat /\ calls \in Seq(Nat)
      /\ Roots(heap, calls, held) = Range(calls)
  BY <1>2, Calling
<1>4. Len(calls) = 1 /\ DOMAIN calls = {1} /\ Range(calls) = {reader}
  <2>1. Len(Tail(calls)) = Len(calls) - 1 /\ Len(Tail(calls)) = 0 /\ Len(calls) \in Nat
    <3>1. Len(Tail(calls)) = Len(calls) - 1 /\ Len(calls) \in Nat
      <4>1. \A s \in Seq(Nat) : s # <<>> => Len(Tail(s)) = Len(s) - 1 /\ Len(s) \in Nat
        OBVIOUS
      <4> QED BY <1>2, <1>3, <4>1, Zenon
    <3>2. Len(<<>>) = 0
      OBVIOUS
    <3> QED BY <3>1, <3>2
  <2>2. Len(calls) = 1 /\ DOMAIN calls = {1}
    BY <1>3, <2>1
  <2> QED BY <1>3, <2>2 DEF Range
<1>5. heap[reader].entry = 1
  BY <1>1, <1>2, <1>3, <1>4 DEF CallsNest
<1>6. alive' = alive
  <2>1. Roots(heap', <<>>, held') = {reader}
    <3>1. \A n \in DOMAIN heap' : held' = Strong(n) <=> n = reader
      BY <1>2 DEF Strong
    <3>2. Roots(heap', <<>>, held') = {n \in DOMAIN heap' : held' = Strong(n)}
      BY DEF Roots
    <3> QED BY <1>2, <1>3, <3>1, <3>2
  <2>2. Kept(heap', <<>>, held') = Kept(heap, calls, held)
    BY <1>2, <1>3, <1>4, <2>1 DEF Kept
  <2> QED BY <1>1, <1>2, <2>2 DEF AliveKept
<1> QED BY <1>2, <1>3, <1>4, <1>5, <1>6

LEMMA LastReturns ==
  ASSUME WriteInv, ReadInv, Return, Tail(calls) = <<>>
  PROVE  ReadInv'
<1>1. /\ ReadTypes /\ Begun /\ CacheRight /\ Ages /\ CallsNest /\ AliveKept /\ OwnedAlive
      /\ \A n \in DOMAIN heap : ObjectRead(n)
      /\ stream = "open" => \A n \in DOMAIN heap : ReadRight(n)
  BY DEF ReadInv
<1>2. /\ calls # <<>> /\ calls' = <<>> /\ held' = Strong(reader)
      /\ alive' = Kept(heap', <<>>, held') \intersect alive
      /\ heap' = heap /\ stream' = stream /\ UNCHANGED <<writer, cache>>
  BY DEF Return, Receive
<1>3. /\ reader \in DOMAIN heap /\ reader \in alive /\ reader \in Nat
      /\ heap[reader].entry = 1 /\ alive' = alive
  BY LastGiven
<1>4. DOMAIN calls' = {} /\ Range(calls') = {}
  BY <1>2 DEF Range
<1>5. held' \in Made /\ held'.obj = reader
  BY <1>2, <1>3 DEF Made, Strong
<1>6. ReadTypes'
  BY <1>1, <1>2, <1>3, <1>5 DEF ReadTypes, writer
<1>7. Begun'
  BY <1>1, <1>2 DEF Begun, writer
<1>8. /\ \A n \in DOMAIN heap' : ObjectRead(n)'
      /\ stream' = "open" => \A n \in DOMAIN heap' : ReadRight(n)'
  BY <1>1, <1>2 DEF ObjectRead, ReadRight, writer
<1>9. CacheRight' /\ CallsNest' /\ OwnedAlive' /\ StrongOnesLead'
  <2>1. StrongLeads
    BY <1>2, LeadWhole
  <2>2. StrongOnesLead'
    BY <1>2, <1>3, <2>1 DEF StrongOnesLead, StrongLeads
  <2>3. OwnedAlive'
    BY <1>1, <1>2, <1>3 DEF OwnedAlive
  <2> QED BY <1>1, <1>2, <1>3, <1>4, <2>2, <2>3 DEF CacheRight, CallsNest
<1>10. Ages'
  BY <1>1, <1>2, <1>4 DEF Ages
<1>11. HeldRight'
  BY <1>2, <1>3, <1>5 DEF HeldRight
<1>12. AliveKept'
  BY <1>2 DEF AliveKept
<1> QED BY <1>6, <1>7, <1>8, <1>9, <1>10, <1>11, <1>12 DEF ReadInv

(***************************************************************************)
(* The operations                                                          *)
(***************************************************************************)
LEMMA InitReads == Init => ReadInv
<1> SUFFICES ASSUME Init PROVE ReadInv
  OBVIOUS
<1>1. /\ heap = <<>> /\ alive = {} /\ calls = <<>> /\ stream = "none" /\ cache = <<>>
      /\ held \in Made /\ held.obj = 0
  BY DEF Init, None, Weak, Made
<1>2. DOMAIN heap = {} /\ DOMAIN calls = {} /\ Range(calls) = {}
  BY <1>1 DEF Range
<1>3. ReadTypes
  <2>1. heap \in Seq(HeapObjects) /\ calls \in Seq(Nat)
    BY <1>1
  <2> QED BY <1>1, <1>2, <2>1 DEF ReadTypes
<1>4. CacheRight
  BY <1>1 DEF CacheRight
<1>5. /\ Begun /\ CallsNest /\ Ages /\ HeldRight /\ AliveKept /\ OwnedAlive
      /\ StrongOnesLead
  BY <1>1, <1>2 DEF Begun, CallsNest, Ages, HeldRight, AliveKept, OwnedAlive, Closed,
                    StrongOnesLead
<1> QED BY <1>2, <1>3, <1>4, <1>5 DEF ReadInv

(* Before the archive is opened the reader has nothing.                    *)
LEMMA NotOpened ==
  ASSUME ReadInv, stream = "none"
  PROVE  heap = <<>> /\ alive = {} /\ calls = <<>> /\ cache = <<>> /\ held \in Made /\ held.obj = 0
BY DEF ReadInv, ReadTypes, Begun

LEMMA ObjectGot ==
  ASSUME WriteInv, ReadInv, get_object
  PROVE  ReadInv'
<1>1. /\ stream # "none" /\ calls = <<>> /\ ~Narrowed
      /\ stream' = IF stream = "closed" THEN "open" ELSE "failed"
      /\ IF Loaded(1) THEN Receive(<<>>, Cached(1)) ELSE Make(1)
  BY DEF get_object
<1>2. ReadTypes /\ synced /\ 1 \in DOMAIN file
  <2>1. ReadTypes /\ synced
    BY <1>1 DEF ReadInv, Begun
  <2> QED BY <2>1, FileType
<1>3. CASE ~Loaded(1)
  BY <1>1, <1>2, <1>3, MakeRead
<1>4. CASE Loaded(1)
  <2>1. /\ held' = Cached(1) /\ heap' = heap /\ calls' = calls
        /\ alive' = Kept(heap', <<>>, held') \intersect alive
        /\ UNCHANGED <<writer, cache>>
    BY <1>1, <1>4 DEF Receive
  <2>2. /\ held' \in Made /\ held'.obj \in DOMAIN heap \union {0}
        /\ held'.weak \/ held'.obj = 0
    <3>1. CASE file[1].null
      BY <2>1, <3>1 DEF Cached, Strong, Made
    <3>2. CASE ~file[1].null
      <4>1. cache[1] \in DOMAIN heap
        BY <1>2, <1>4, <3>2 DEF Loaded, ReadTypes
      <4>2. cache[1] \in Nat
        BY <1>2, <4>1, ObjectType
      <4> QED BY <2>1, <3>2, <4>1, <4>2 DEF Cached, Weak, Made
    <3> QED BY <3>1, <3>2
  <2>3. Roots(heap', <<>>, held') = {}
    <3>1. \A n \in DOMAIN heap : ~Strong(n).weak /\ Strong(n).obj = n /\ n # 0
      BY <1>2, ObjectType DEF Strong
    <3> QED BY <2>1, <2>2, <3>1 DEF Roots
  <2>4. KeptBy(heap', {}) \subseteq {}
    <3>1. {} \in SUBSET DOMAIN heap' /\ {} \subseteq {} /\ Closed(heap', {})
      BY DEF Closed
    <3> QED BY <3>1, KeptLeast
  <2>5. alive' = {}
    BY <2>1, <2>3, <2>4 DEF Kept
  <2> QED BY <1>1, <2>1, <2>2, <2>5, Emptied
<1> QED BY <1>3, <1>4

(* The variable keeps an inner object in place of the one it had.          *)
LEMMA InnerKept ==
  ASSUME ReadInv, KeepInner
  PROVE  ReadInv'
<1>a. PICK n \in DOMAIN heap :
        \E m \in Owned(heap, n) :
          /\ held = Strong(n) /\ heap[m].entry # 1
          /\ held' = Strong(m)
          /\ alive' = KeptBy(heap, {m}) \intersect alive
  BY DEF KeepInner
<1>1. PICK m \in Owned(heap, n) :
        /\ held = Strong(n) /\ heap[m].entry # 1
        /\ held' = Strong(m)
        /\ alive' = KeptBy(heap, {m}) \intersect alive
  BY <1>a
<1>2. /\ calls = <<>>
      /\ UNCHANGED <<graph, index, synced, file, stream, heap, cache, calls>>
  BY DEF KeepInner, writer
<1>3. /\ ReadTypes /\ Begun /\ CacheRight /\ Ages /\ HeldRight /\ OwnedAlive
      /\ \A l \in DOMAIN heap : ObjectRead(l)
      /\ stream = "open" => \A l \in DOMAIN heap : ReadRight(l)
  BY DEF ReadInv
<1>4. n # 0 /\ m \in DOMAIN heap /\ m \in Nat /\ m # 0
  BY <1>1, <1>3, ObjectType DEF Owned
<1>5. n \in alive /\ m \in alive
  <2>1. n \in alive
    BY <1>1, <1>3, <1>4 DEF HeldRight, Strong
  <2> QED BY <1>1, <1>3, <2>1 DEF OwnedAlive, Closed
<1>6. /\ m \in KeptBy(heap, {m}) /\ Closed(heap, KeptBy(heap, {m}))
  BY <1>4, KeptClosed
<1>7. held'.obj = m /\ ~held'.weak /\ held' \in Made
  BY <1>1, <1>4 DEF Strong, Made
<1>8. DOMAIN calls' = {} /\ Range(calls') = {}
  BY <1>2 DEF Range
<1>9. ReadTypes' /\ Begun'
  BY <1>1, <1>2, <1>3, <1>4, <1>7 DEF ReadTypes, Begun
<1>10. /\ \A l \in DOMAIN heap' : ObjectRead(l)'
       /\ stream' = "open" => \A l \in DOMAIN heap' : ReadRight(l)'
  BY <1>2, <1>3 DEF ObjectRead, ReadRight
<1>11. CacheRight' /\ CallsNest' /\ Ages'
  BY <1>1, <1>2, <1>3, <1>8 DEF CacheRight, CallsNest, Ages
<1>12. HeldRight'
  BY <1>1, <1>2, <1>5, <1>6, <1>7 DEF HeldRight
<1>13. AliveKept'
  <2>1. \A l : Strong(m) = Strong(l) <=> l = m
    BY DEF Strong
  <2>2. Roots(heap', calls', held') = {m}
    BY <1>1, <1>2, <1>4, <1>8, <2>1 DEF Roots
  <2> QED BY <1>1, <1>2, <2>2 DEF AliveKept, Kept
<1>14. OwnedAlive'
  BY <1>1, <1>2, <1>3, <1>6 DEF OwnedAlive, Closed
<1>15. StrongOnesLead'
  <2>1. Narrowed'
    BY <1>1, <1>2, <1>4, <1>7 DEF Narrowed
  <2> QED BY <2>1 DEF StrongOnesLead
<1> QED BY <1>9, <1>10, <1>11, <1>12, <1>13, <1>14, <1>15 DEF ReadInv

LEMMA ReadsNext == WriteInv /\ ReadInv /\ [Next]_vars => ReadInv'
<1> SUFFICES ASSUME WriteInv, ReadInv, [Next]_vars PROVE ReadInv'
  OBVIOUS
<1>1. CASE (\E o \in Objects : set_object(o)) \/ WriteObject \/ WriteIndex
  <2>1. stream = "none" /\ UNCHANGED <<stream, heap, alive, cache, calls, held>>
    <3>1. WriteObject \/ WriteIndex => stream = "none"
      BY DEF WriteObject, WriteIndex, ReadInv, Begun
    <3> QED BY <1>1, <3>1 DEF set_object, WriteObject, WriteIndex
  <2> QED BY <2>1, NotOpened, NothingRead
<1>2. CASE Open
  <2>1. /\ stream = "none" /\ stream' = "closed" /\ synced
        /\ cache' = [p \in DOMAIN file |-> 0]
        /\ UNCHANGED <<writer, heap, alive, calls, held>>
    BY <1>2 DEF Open
  <2>2. cache' \in [DOMAIN file' -> {0}] /\ synced'
    BY <2>1 DEF writer
  <2> QED BY <2>1, <2>2, NotOpened, NothingRead
<1>3. CASE get_object
  BY <1>3, ObjectGot
<1>4. CASE Drop
  <2>1. /\ calls = <<>> /\ held' = None /\ alive' = {} /\ stream' = stream
        /\ UNCHANGED <<writer, heap, cache, calls>>
    BY <1>4 DEF Drop
  <2>2. held' \in Made /\ held'.obj = 0 /\ held'.weak
    BY <2>1 DEF None, Weak, Made
  <2> QED BY <2>1, <2>2, Emptied
<1>5. CASE ReadNew
  <2>1. Reading /\ ~Loaded(wanted.at) /\ stream' = stream /\ Make(wanted.at)
    BY <1>5 DEF ReadNew
  <2>2. /\ calls # <<>> /\ Len(heap[reader].refs) < Len(heap[reader].wants)
        /\ reader \in DOMAIN heap /\ ReadTypes /\ ObjectRead(reader)
    <3>1. calls # <<>> /\ Len(heap[reader].refs) < Len(heap[reader].wants)
      BY <2>1 DEF Reading
    <3> QED BY <3>1, Calling DEF ReadInv
  <2>3. wanted.at \in DOMAIN file
    <3>1. Len(heap[reader].refs) \in Nat /\ Len(heap[reader].wants) \in Nat
          /\ heap[reader].wants \in Seq(Wanted)
      BY <2>2, ObjectType
    <3>2. Len(heap[reader].refs) + 1 \in DOMAIN heap[reader].wants
      BY <2>2, <3>1
    <3> QED BY <2>2, <3>2 DEF ObjectRead, wanted
  <2>4. stream # "none"
    BY <2>2 DEF ReadInv, Begun
  <2> QED BY <2>1, <2>3, <2>4, MakeRead
<1>6. CASE ReadCached
  BY <1>6, CachedRead
<1>7. CASE Return
  BY <1>7, CallReturns, LastReturns
<1>8. CASE UNCHANGED vars
  <2>1. UNCHANGED <<graph, index, synced, file, stream, heap, alive, cache, calls, held>>
    BY <1>8 DEF vars, writer
  <2>2. /\ ReadTypes' /\ Begun' /\ CacheRight' /\ CallsNest' /\ Ages' /\ HeldRight'
        /\ OwnedAlive' /\ StrongOnesLead'
    BY <2>1 DEF ReadInv, ReadTypes, Begun, CacheRight, CallsNest, Ages, HeldRight,
                OwnedAlive, Closed, Owned, StrongOnesLead, Narrowed
  <2>3. AliveKept'
    BY <2>1 DEF ReadInv, AliveKept, Kept, KeptBy, Roots, Closed, Owned
  <2>4. /\ \A n \in DOMAIN heap' : ObjectRead(n)'
        /\ stream' = "open" => \A n \in DOMAIN heap' : ReadRight(n)'
    BY <2>1 DEF ReadInv, ObjectRead, ReadRight
  <2> QED BY <2>2, <2>3, <2>4 DEF ReadInv
<1>9. CASE KeepInner
  BY <1>9, InnerKept
<1> QED BY <1>1, <1>2, <1>3, <1>4, <1>5, <1>6, <1>7, <1>8, <1>9 DEF Next

(* The invariant of the writer and of the reader together: reading relies  *)
(* on what was written only in that its positions are positions.           *)
THEOREM Invariance == Spec => [](WriteInv /\ ReadInv)
BY InitWrites, InitReads, WritesNext, ReadsNext, PTL DEF Spec

(* Whatever the objects share, and however often the archive is asked: no  *)
(* two objects of an entry live at a time; and the first time every        *)
(* reference leads where the file says, and is weak where it says so.      *)
THEOREM OneObjectAlive == Spec => []AliveOnce
<1>1. WriteInv /\ ReadInv => AliveOnce
  <2> SUFFICES ASSUME WriteInv, ReadInv PROVE AliveOnce
    OBVIOUS
  <2>1. \A n, m \in alive : heap[n].entry = heap[m].entry => n = m
    BY DEF ReadInv, CacheRight
  <2>2. ASSUME stream = "open", NEW n \in DOMAIN heap, NEW k \in DOMAIN heap[n].refs
        PROVE  LET ref  == heap[n].refs[k]
                   want == file[heap[n].entry].refs[k]
               IN /\ IF ref.obj = 0 THEN file[want.at].null
                     ELSE heap[ref.obj].entry = want.at
                  /\ want.weak => ref.weak
    <3>1. heap[n].wants = file[heap[n].entry].refs /\ ReadRight(n)
      BY <2>2 DEF ReadInv, ObjectRead
    <3> QED BY <3>1 DEF ReadRight
  <2> QED BY <2>1, <2>2 DEF AliveOnce
<1> QED BY <1>1, Invariance, PTL

(* While objects are read, and as long as the program keeps the one it was *)
(* given: a reference the file does not call weak leads to an object that  *)
(* lives, also after the cache has answered weak references and objects    *)
(* have gone while they were read.  Not so for a program that keeps an     *)
(* inner object only.                                                      *)
THEOREM StrongLead == Spec => []StrongOnesLead
<1>1. ReadInv => StrongOnesLead
  BY DEF ReadInv
<1> QED BY <1>1, Invariance, PTL
(***************************************************************************)
(* Reading a tree                                                          *)
(***************************************************************************)

(* Every entry but the first was added for a reference in an earlier one.  *)
Fetched ==
  \A p \in DOMAIN index : p # 1 =>
    \E q \in DOMAIN file : /\ q < p
                           /\ \E k \in DOMAIN file[q].refs : file[q].refs[k].at = p

(* An entry that is null has no references.                                *)
NullsEmpty == \A p \in DOMAIN file : file[p].null => DOMAIN file[p].refs = {}

(* The reference for which n was made, or is being read.                   *)
Owns(m, k, n) ==
  /\ k \in DOMAIN heap[m].wants
  /\ heap[m].wants[k] = [at |-> heap[n].entry, weak |-> FALSE]
  /\ \/ k \in DOMAIN heap[m].refs
     \/ k = Len(heap[m].refs) + 1 /\ n \in Range(calls) /\ m < n

OwnedRead(n) ==
  /\ ~file[heap[n].entry].null
  /\ n \in Range(calls) \/ Len(heap[n].refs) = Len(heap[n].wants)
  /\ heap[n].entry = 1 \/ \E m \in DOMAIN heap : \E k \in Nat : Owns(m, k, n)
  /\ \A k \in DOMAIN heap[n].refs : heap[n].refs[k].weak = heap[n].wants[k].weak

(* Nothing goes; every object was made for one strong reference, those     *)
(* that are being read for one of the call before.                         *)
TreeRead ==
  /\ alive = DOMAIN heap
  /\ \A n \in DOMAIN heap : OwnedRead(n)
  /\ \A k \in DOMAIN calls : k + 1 \in DOMAIN calls =>
       LET o == heap[calls[k + 1]] IN ~o.wants[Len(o.refs) + 1].weak
  /\ \E n \in DOMAIN heap : heap[n].entry = 1

TreeInv ==
  /\ Fetched /\ NullsEmpty
  /\ stream = "open" /\ Tree(file) /\ (calls # <<>> \/ held = Strong(1)) => TreeRead

LEMMA NullsNext ==
  ASSUME WriteInv, NullsEmpty, [Next]_vars
  PROVE  NullsEmpty'
<1>1. ASSUME UNCHANGED file
      PROVE  NullsEmpty'
  BY <1>1 DEF NullsEmpty
<1>2. ASSUME NEW o \in Objects, set_object(o)
      PROVE  NullsEmpty'
  <2>1. DOMAIN file' = {}
    BY <1>2 DEF set_object
  <2> QED BY <2>1 DEF NullsEmpty
<1>3. CASE WriteObject
  <2>1. PICK idx, o : file' = Append(file, Entry(idx, o))
    BY <1>3 DEF WriteObject
  <2>2. Entry(idx, o).null => DOMAIN Entry(idx, o).refs = {}
    BY DEF Entry
  <2>3. file \in Seq(FileEntries) /\ file' \in Seq(FileEntries)
    BY <1>3, ObjectWritten DEF WriteInv, WriteTypes
  <2> DEFINE entry == Entry(idx, o)
  <2> HIDE DEF entry
  <2>4. \A p \in DOMAIN file' : file'[p] = entry \/ (p \in DOMAIN file /\ file'[p] = file[p])
    <3>1. file' = Append(file, entry)
      BY <2>1 DEF entry
    <3> QED BY <2>3, <3>1
  <2> QED BY <2>2, <2>4 DEF NullsEmpty, entry
<1> QED BY <1>1, <1>2, <1>3
        DEF Next, vars, writer, WriteIndex, Open, get_object, ReadNew, ReadCached,
            Return, KeepInner, Drop, Make, Receive

LEMMA FetchedNext ==
  ASSUME WriteInv, Fetched, [Next]_vars
  PROVE  Fetched'
<1>1. ASSUME UNCHANGED <<index, file>>
      PROVE  Fetched'
  BY <1>1 DEF Fetched
<1>2. ASSUME NEW o \in Objects, set_object(o)
      PROVE  Fetched'
  <2>1. DOMAIN index' = {1}
    BY <1>2 DEF set_object
  <2> QED BY <2>1 DEF Fetched
<1>3. CASE WriteObject
  <2> DEFINE N == Len(file) + 1
             o == index[N]
             grown == AddReferences(index, o)
  <2>1. /\ graph \in Graph /\ index \in Seq(Indexed) /\ file \in Seq(FileEntries)
        /\ Distinct(index) /\ Len(file) < Len(index)
        /\ N \in DOMAIN index /\ o \in Indexed /\ N \in Nat
        /\ DOMAIN index = 1 .. Len(index) /\ Len(index) \in Nat
    <3>1. /\ graph \in Graph /\ index \in Seq(Indexed) /\ file \in Seq(FileEntries)
          /\ Distinct(index) /\ Len(file) < Len(index)
      BY <1>3 DEF WriteObject, WriteInv, WriteTypes
    <3> QED BY <3>1
  <2>2. \E x \in FileEntries : file' = Append(file, x)
    <3>1. WriteInv'
      BY <1>3, ObjectWritten
    <3>2. file' = Append(file, Entry(index', o)) /\ index' = IF o = Null THEN index ELSE grown
      BY <1>3 DEF WriteObject
    <3>3. CASE o = Null
      <4>1. [null |-> TRUE, refs |-> <<>>] \in FileEntries
        BY DEF FileEntries
      <4> HIDE DEF o
      <4>2. file' = Append(file, [null |-> TRUE, refs |-> <<>>])
        BY <3>2, <3>3 DEF Entry
      <4> QED BY <4>1, <4>2
    <3>4. CASE o # Null
      <4>1. o \in Objects
        BY <2>1, <3>4 DEF Indexed
      <4> HIDE DEF o
      <4>2. grown \in Seq(Indexed) /\ \A k \in DOMAIN graph[o] : graph[o][k].to \in Range(grown)
        BY <2>1, <4>1, Grown
      <4> HIDE DEF grown
      <4>3. Entry(grown, o) \in FileEntries
        BY <2>1, <4>1, <4>2, EntryWritten
      <4> QED BY <3>2, <3>4, <4>3
    <3> QED BY <3>3, <3>4
  <2>3. /\ \A p \in DOMAIN file : p \in DOMAIN file' /\ file'[p] = file[p]
        /\ N \in DOMAIN file'
    BY <2>1, <2>2
  <2>4. CASE o = Null
    <3>1. index' = index
      BY <1>3, <2>4 DEF WriteObject
    <3> QED BY <2>3, <3>1 DEF Fetched
  <2>5. CASE o # Null
    <3>1. o \in Objects
      BY <2>1, <2>5 DEF Indexed
    <3>2. index' = grown /\ file' = Append(file, Entry(grown, o))
      BY <1>3, <2>5 DEF WriteObject
    <3> HIDE DEF o
    <3>3. /\ grown \in Seq(Indexed) /\ Distinct(grown)
          /\ \A k \in DOMAIN graph[o] : graph[o][k].to \in Range(grown)
          /\ \A p \in DOMAIN grown :
               p \in DOMAIN index \/ \E k \in DOMAIN graph[o] : grown[p] = graph[o][k].to
      BY <2>1, <3>1, Grown
    <3> HIDE DEF grown
    <3>4. /\ DOMAIN Entry(grown, o).refs = DOMAIN graph[o]
          /\ \A k \in DOMAIN graph[o] :
               /\ Entry(grown, o).refs[k].at \in DOMAIN grown
               /\ grown[Entry(grown, o).refs[k].at] = graph[o][k].to
      BY <2>1, <3>1, <3>3, EntryWritten
    <3>5. file'[N] = Entry(grown, o)
      BY <2>1, <3>2
    <3> SUFFICES ASSUME NEW p \in DOMAIN grown, p # 1
                 PROVE  \E q \in DOMAIN file' :
                          /\ q < p
                          /\ \E k \in DOMAIN file'[q].refs : file'[q].refs[k].at = p
      BY <3>2 DEF Fetched
    <3>6. CASE p \in DOMAIN index
      BY <2>3, <3>6 DEF Fetched
    <3>7. CASE p \notin DOMAIN index
      <4>1. PICK k \in DOMAIN graph[o] : grown[p] = graph[o][k].to
        BY <3>3, <3>7
      <4>2. Entry(grown, o).refs[k].at = p
        BY <3>3, <3>4, <4>1 DEF Distinct
      <4>3. N < p
        <5>1. p \in Nat /\ p # 0 /\ ~(p <= Len(index))
          BY <2>1, <3>3, <3>7
        <5> QED BY <2>1, <5>1
      <4> HIDE DEF N
      <4> QED BY <2>3, <3>4, <3>5, <4>2, <4>3
    <3> QED BY <3>6, <3>7
  <2> QED BY <2>4, <2>5
<1>4. CASE WriteIndex
  BY <1>1, <1>4 DEF WriteIndex
<1>5. CASE Open \/ get_object \/ KeepInner \/ Drop \/ ReadNew \/ ReadCached \/ Return
  BY <1>1, <1>5 DEF Open, get_object, KeepInner, Drop, ReadNew, ReadCached, Return,
                    Receive, Make, writer
<1>6. CASE UNCHANGED vars
  BY <1>1, <1>6 DEF vars, writer
<1> QED BY <1>2, <1>3, <1>4, <1>5, <1>6 DEF Next

(* What is closed under strong parents has whatever one of it is below.    *)
WithinUpTo(t, f) ==
  f = [k \in 0 .. Len(file) |->
         IF k = 0 THEN {t}
         ELSE f[k - 1] \union UNION {StrongFrom(file, q) : q \in f[k - 1]}]

LEMMA WithinExists ==
  ASSUME Len(file) \in Nat, NEW t \in DOMAIN file
  PROVE  \E f : WithinUpTo(t, f)
<1> DEFINE N == Len(file)
           V == SUBSET DOMAIN file
           down == [n \in 1 .. N |-> n - 1]
           wider == [S \in V |-> S \union UNION {StrongFrom(file, q) : q \in S}]
           step == [n \in 1 .. N |-> wider]
<1>1. /\ N \in Nat /\ {t} \in V
      /\ down \in [1 .. N -> Nat] /\ \A n \in 1 .. N : down[n] < n /\ down[n] = n - 1
  OBVIOUS
<1>2. wider \in [V -> V]
  <2>1. \A q : StrongFrom(file, q) \subseteq DOMAIN file
    BY DEF StrongFrom
  <2> QED BY <2>1
<1>3. \A S \in V : wider[S] = S \union UNION {StrongFrom(file, q) : q \in S}
  OBVIOUS
<1> HIDE DEF wider
<1>4. step \in [1 .. N -> [V -> V]] /\ \A n \in 1 .. N : step[n] = wider
  BY <1>2
<1> HIDE DEF N, V, down, step
<1>5. PICK f \in [0 .. N -> V] : Computes(f, N, {t}, down, step)
  BY <1>1, <1>4, ChainRecursion
<1>6. \A k \in 0 .. N :
        f[k] = IF k = 0 THEN {t}
               ELSE f[k - 1] \union UNION {StrongFrom(file, q) : q \in f[k - 1]}
  <2>1. f[0] = {t}
    BY <1>5 DEF Computes
  <2>2. ASSUME NEW k \in 1 .. N
        PROVE  f[k] = f[k - 1] \union UNION {StrongFrom(file, q) : q \in f[k - 1]}
    <3>1. k - 1 \in 0 .. N
      BY <1>1
    <3>2. f[k] = wider[f[k - 1]] /\ f[k - 1] \in V
      BY <1>1, <1>4, <1>5, <3>1 DEF Computes
    <3> QED BY <1>3, <3>2
  <2> QED BY <1>1, <2>1, <2>2
<1>7. f = [k \in 0 .. N |-> f[k]]
  BY <1>5
<1>8. WithinUpTo(t, f)
  BY <1>6, <1>7 DEF WithinUpTo, N
<1> QED BY <1>8

LEMMA ParentsWithin ==
  ASSUME Len(file) \in Nat, NEW t \in DOMAIN file, NEW X,
         \A x \in X : \A q \in DOMAIN file : x \in StrongFrom(file, q) => q \in X,
         NEW x \in X, x \in Below(file, t)
  PROVE  t \in X
<1> DEFINE f == CHOOSE g : WithinUpTo(t, g)
           N == Len(file)
<1>1. Below(file, t) = f[N]
  BY DEF Below, WithinUpTo
<1>2. WithinUpTo(t, f)
  BY WithinExists
<1> HIDE DEF f
<1>3. /\ f[0] = {t}
      /\ \A k \in 1 .. N : f[k] = f[k - 1] \union UNION {StrongFrom(file, q) : q \in f[k - 1]}
  BY <1>2 DEF WithinUpTo
<1> HIDE DEF N
<1>4. N \in Nat
  BY DEF N
<1> SUFFICES ASSUME t \notin X PROVE FALSE
  OBVIOUS
<1> DEFINE Meets == {k \in 0 .. N : \E y \in X : y \in f[k]}
<1>5. N \in Meets /\ Meets \in SUBSET Nat
  BY <1>1, <1>4
<1>6. PICK k \in Meets : \A m \in Meets : k <= m
  <2> HIDE DEF Meets
  <2> QED BY <1>5, LeastNat
<1>7. k \in 1 .. N /\ k - 1 \in 0 .. N
  <2>1. k # 0
    BY <1>3, <1>6
  <2> QED BY <1>4, <1>6, <2>1
<1>8. k - 1 \notin Meets
  <2> HIDE DEF Meets
  <2> QED BY <1>6, <1>7
<1>9. PICK y \in X : y \in f[k]
  BY <1>6
<1>10. y \notin f[k - 1]
  BY <1>7, <1>8, <1>9
<1>11. PICK q \in f[k - 1] : y \in StrongFrom(file, q)
  BY <1>3, <1>7, <1>9, <1>10
<1>12. q \in DOMAIN file
  <2>1. \A m \in 0 .. N : f[m] \subseteq DOMAIN file
    <3> DEFINE Odd == {m \in 0 .. N : ~(f[m] \subseteq DOMAIN file)}
    <3> SUFFICES ASSUME Odd # {} PROVE FALSE
      OBVIOUS
    <3>1. Odd \in SUBSET Nat
      BY <1>4
    <3>2. PICK m \in Odd : \A l \in Odd : m <= l
      <4> HIDE DEF Odd
      <4> QED BY <3>1, LeastNat
    <3>3. m \in 1 .. N /\ m - 1 \in 0 .. N
      <4>1. m # 0
        BY <1>3, <3>2
      <4> QED BY <1>4, <3>2, <4>1
    <3>4. m - 1 \notin Odd
      <4> HIDE DEF Odd
      <4> QED BY <3>2, <3>3
    <3>5. f[m - 1] \subseteq DOMAIN file
      BY <3>3, <3>4
    <3>6. \A l : StrongFrom(file, l) \subseteq DOMAIN file
      BY DEF StrongFrom
    <3> QED BY <1>3, <3>2, <3>3, <3>5, <3>6
  <2> QED BY <1>7, <1>11, <2>1
<1>13. q \in X
  BY <1>9, <1>11, <1>12
<1> QED BY <1>7, <1>8, <1>11, <1>13
(* A reference in the file is the only one, where the file is a tree.      *)
LEMMA OneParent ==
  ASSUME Tree(file), NEW p \in DOMAIN file, ~file[p].null,
         NEW q \in DOMAIN file, NEW i \in DOMAIN file[q].refs,
         file[q].refs[i] = [at |-> p, weak |-> FALSE],
         NEW r \in DOMAIN file, NEW j \in DOMAIN file[r].refs,
         file[r].refs[j] = [at |-> p, weak |-> FALSE]
  PROVE  q = r /\ i = j
<1>1. <<q, i>> \in ReferencesTo(file, p) /\ <<r, j>> \in ReferencesTo(file, p)
  <2>1. <<q, i>> \in ReferencesTo(file, p)
    BY DEF ReferencesTo
  <2>2. <<r, j>> \in ReferencesTo(file, p)
    BY DEF ReferencesTo
  <2> QED BY <2>1, <2>2
<1>2. <<q, i>> = <<r, j>>
  BY <1>1 DEF Tree
<1> QED BY <1>2

LEMMA FirstAlone ==
  ASSUME Tree(file), NEW q \in DOMAIN file, NEW i \in DOMAIN file[q].refs,
         file[q].refs[i] = [at |-> 1, weak |-> FALSE]
  PROVE  FALSE
<1>1. <<q, i>> \in ReferencesTo(file, 1)
  BY DEF ReferencesTo
<1> QED BY <1>1 DEF Tree

(* What an object that is read wants, in the first call.                   *)
LEMMA WantsEntry ==
  ASSUME WriteInv, ReadInv, stream = "open", NEW n \in DOMAIN heap
  PROVE  /\ heap[n].entry \in DOMAIN file /\ heap[n].wants = file[heap[n].entry].refs
         /\ heap[n].wants \in Seq(Wanted)
         /\ \A k \in DOMAIN heap[n].wants :
              /\ heap[n].wants[k] \in Wanted /\ heap[n].wants[k].at \in DOMAIN file
              /\ ~heap[n].wants[k].weak =>
                   heap[n].wants[k] = [at |-> heap[n].wants[k].at, weak |-> FALSE]
<1>1. ReadTypes /\ ObjectRead(n)
  BY DEF ReadInv
<1>2. heap[n].wants \in Seq(Wanted)
  BY <1>1, ObjectType
<1>3. \A k \in DOMAIN heap[n].wants : heap[n].wants[k] \in Wanted
  BY <1>2
<1>4. \A w \in Wanted : ~w.weak => w = [at |-> w.at, weak |-> FALSE]
  BY DEF Wanted
<1> QED BY <1>1, <1>2, <1>3, <1>4 DEF ObjectRead

(* What is read is closed under strong parents.                            *)
LEMMA ParentsRead ==
  ASSUME WriteInv, ReadInv, TreeRead, stream = "open", Tree(file),
         NEW n \in DOMAIN heap, NEW q \in DOMAIN file, heap[n].entry \in StrongFrom(file, q)
  PROVE  \E m \in DOMAIN heap : heap[m].entry = q
<1> DEFINE p == heap[n].entry
<1>1. PICK i \in DOMAIN file[q].refs : file[q].refs[i] = [at |-> p, weak |-> FALSE]
  BY DEF StrongFrom
<1>2. p \in DOMAIN file /\ ~file[p].null
  BY DEF StrongFrom
<1>3. p # 1
  BY <1>1, FirstAlone
<1>4. PICK m \in DOMAIN heap : \E k \in Nat : Owns(m, k, n)
  BY <1>3 DEF TreeRead, OwnedRead
<1>5. PICK k \in DOMAIN heap[m].wants : heap[m].wants[k] = [at |-> p, weak |-> FALSE]
  BY <1>4 DEF Owns
<1>6. heap[m].wants = file[heap[m].entry].refs /\ heap[m].entry \in DOMAIN file
  BY WantsEntry
<1> HIDE DEF p
<1>7. q = heap[m].entry
  BY <1>1, <1>2, <1>5, <1>6, OneParent
<1> QED BY <1>7

(* So are the objects that are being read.                                 *)
LEMMA ParentsCalled ==
  ASSUME WriteInv, ReadInv, TreeRead, stream = "open", Tree(file),
         NEW j \in DOMAIN calls, NEW q \in DOMAIN file,
         heap[calls[j]].entry \in StrongFrom(file, q)
  PROVE  \E k \in DOMAIN calls : heap[calls[k]].entry = q
<1> DEFINE p == heap[calls[j]].entry
           m == calls[j + 1]
           k == Len(heap[m].refs) + 1
<1>1. PICK i \in DOMAIN file[q].refs : file[q].refs[i] = [at |-> p, weak |-> FALSE]
  BY DEF StrongFrom
<1>2. p \in DOMAIN file /\ ~file[p].null
  BY DEF StrongFrom
<1>3. p # 1
  BY <1>1, FirstAlone
<1>4. ReadTypes /\ CallsNest
  BY DEF ReadInv
<1>5. j + 1 \in DOMAIN calls
  <2>1. calls \in Seq(Nat) /\ j \in 1 .. Len(calls) /\ Len(calls) \in Nat /\ calls # <<>>
    BY <1>4 DEF ReadTypes
  <2>2. j # Len(calls)
    BY <1>3, <1>4, <2>1 DEF CallsNest
  <2> QED BY <2>1, <2>2
<1>6. m \in DOMAIN heap
  BY <1>4, <1>5 DEF ReadTypes, CallsNest
<1>7. /\ Len(heap[m].refs) < Len(heap[m].wants) /\ heap[m].wants[k].at = p
      /\ ~heap[m].wants[k].weak
  BY <1>4, <1>5 DEF CallsNest, TreeRead
<1> HIDE DEF m, p
<1>8. k \in DOMAIN heap[m].wants
  <2>1. /\ Len(heap[m].refs) \in Nat /\ Len(heap[m].wants) \in Nat
        /\ heap[m].wants \in Seq(Wanted)
    BY <1>4, <1>6, ObjectType
  <2> QED BY <1>7, <2>1
<1> HIDE DEF k
<1>9. /\ heap[m].wants = file[heap[m].entry].refs /\ heap[m].entry \in DOMAIN file
      /\ heap[m].wants[k] = [at |-> p, weak |-> FALSE]
  BY <1>6, <1>7, <1>8, WantsEntry, Zenon
<1>10. q = heap[m].entry
  BY <1>1, <1>2, <1>8, <1>9, OneParent
<1> QED BY <1>5, <1>10 DEF m

(* A weak reference in a tree leads to an object that is being read; an    *)
(* object for a strong one is not there yet.                               *)
LEMMA TreeWants ==
  ASSUME WriteInv, ReadInv, TreeRead, stream = "open", Tree(file), Reading
  PROVE  /\ reader \in DOMAIN heap /\ wanted \in Wanted /\ wanted.at \in DOMAIN file
         /\ Len(heap[reader].refs) + 1 \in DOMAIN heap[reader].wants
         /\ wanted.weak => Loaded(wanted.at)
         /\ ~wanted.weak /\ Loaded(wanted.at) => file[wanted.at].null
<1> DEFINE r == reader
           p == wanted.at
           i == Len(heap[r].refs) + 1
<1>1. /\ calls # <<>> /\ Len(heap[r].refs) < Len(heap[r].wants)
  BY DEF Reading
<1>2. /\ r \in DOMAIN heap /\ calls \in Seq(Nat) /\ r \in Nat
      /\ \A m \in Range(calls) : m <= r
  BY <1>1, Calling
<1>3. ReadTypes /\ CallsNest /\ CacheRight
  BY DEF ReadInv
<1>4. i \in DOMAIN heap[r].wants /\ wanted = heap[r].wants[i] /\ i \in Nat
  <2>1. /\ Len(heap[r].refs) \in Nat /\ Len(heap[r].wants) \in Nat
        /\ heap[r].wants \in Seq(Wanted)
    BY <1>2, <1>3, ObjectType
  <2> QED BY <1>1, <2>1 DEF wanted
<1>5. /\ wanted \in Wanted /\ p \in DOMAIN file
      /\ heap[r].wants = file[heap[r].entry].refs /\ heap[r].entry \in DOMAIN file
      /\ ~wanted.weak => wanted = [at |-> p, weak |-> FALSE]
  <2> HIDE DEF r, i
  <2> QED BY <1>2, <1>4, WantsEntry
<1>6. ASSUME wanted.weak
      PROVE  Loaded(p)
  <2> DEFINE X == {heap[calls[k]].entry : k \in DOMAIN calls}
  <2>1. heap[r].entry \in Below(file, p)
    BY <1>4, <1>5, <1>6 DEF Tree
  <2>2. heap[r].entry \in X
    BY <1>1, Calling
  <2>3. \A x \in X : \A q \in DOMAIN file : x \in StrongFrom(file, q) => q \in X
    BY ParentsCalled
  <2>4. Len(file) \in Nat
    BY DEF WriteInv, WriteTypes
  <2>5. p \in X
    <3> HIDE DEF X, p, r
    <3> QED BY <1>5, <2>1, <2>2, <2>3, <2>4, ParentsWithin
  <2>6. PICK k \in DOMAIN calls : heap[calls[k]].entry = p
    BY <2>5
  <2>7. calls[k] \in alive /\ cache[p] = calls[k]
    BY <1>3, <2>6 DEF CallsNest, CacheRight
  <2> QED BY <2>7 DEF Loaded
<1>7. ASSUME ~wanted.weak, Loaded(p), ~file[p].null
      PROVE  FALSE
  <2> DEFINE n == cache[p]
  <2>1. n \in alive
    BY <1>7 DEF Loaded
  <2>2. n \in DOMAIN heap /\ n \in Nat /\ n # 0
    BY <1>3, <2>1, ObjectType DEF ReadTypes
  <2>3. heap[n].entry = p
    <3>1. p \in DOMAIN cache
      <4>1. stream # "none"
        OBVIOUS
      <4> QED BY <1>3, <1>5, <4>1 DEF ReadTypes
    <3> QED BY <1>3, <2>2, <3>1 DEF CacheRight
  <2>4. file[heap[r].entry].refs[i] = [at |-> p, weak |-> FALSE]
    BY <1>4, <1>5, <1>7, Zenon
  <2> HIDE DEF n
  <2>5. p # 1
    BY <1>4, <1>5, <2>4, FirstAlone
  <2>6. PICK m \in DOMAIN heap : \E k \in Nat : Owns(m, k, n)
    BY <2>2, <2>3, <2>5 DEF TreeRead, OwnedRead
  <2>7. PICK k \in Nat : Owns(m, k, n)
    BY <2>6
  <2>8. /\ k \in DOMAIN heap[m].wants /\ heap[m].wants[k] = [at |-> p, weak |-> FALSE]
        /\ k \in DOMAIN heap[m].refs \/ (k = Len(heap[m].refs) + 1 /\ n \in Range(calls) /\ m < n)
    BY <2>3, <2>7 DEF Owns
  <2>9. heap[m].wants = file[heap[m].entry].refs /\ heap[m].entry \in DOMAIN file
    BY WantsEntry
  <2>10. heap[m].entry = heap[r].entry /\ k = i
    <3> HIDE DEF p, r, i
    <3> QED BY <1>4, <1>5, <1>7, <2>4, <2>8, <2>9, OneParent
  <2>11. m = r
    <3>1. m \in alive /\ r \in alive
      BY <1>2 DEF TreeRead
    <3>2. cache[heap[m].entry] = m /\ cache[heap[r].entry] = r
      BY <1>3, <3>1 DEF CacheRight
    <3> QED BY <2>10, <3>2
  <2>12. k \notin DOMAIN heap[m].refs
    <3>1. heap[r].refs \in Seq(Made)
      BY <1>2, <1>3, ObjectType
    <3> QED BY <2>10, <2>11, <3>1
  <2>13. n <= r /\ r < n
    BY <1>2, <2>8, <2>11, <2>12
  <2> QED BY <1>2, <2>2, <2>13
<1> QED BY <1>2, <1>4, <1>5, <1>6, <1>7
(***************************************************************************)
(* Nothing of a tree goes                                                  *)
(***************************************************************************)
LEMMA TreeBegins ==
  ASSUME WriteInv, ReadInv, stream = "closed", calls = <<>>, ~Loaded(1), Make(1)
  PROVE  TreeRead'
<1>1. heap = <<>> /\ alive = {} /\ synced
  BY DEF ReadInv, ReadTypes, Begun
<1>2. PICK wants : heap' = Append(heap, [entry |-> 1, wants |-> wants, refs |-> <<>>])
  BY DEF Make
<1>3. alive' = alive \union {Len(heap) + 1} /\ calls' = <<Len(heap) + 1>> \o calls /\ file' = file
  BY DEF Make, writer
<1>4. /\ heap' = <<[entry |-> 1, wants |-> wants, refs |-> <<>>]>>
      /\ alive' = {1} /\ calls' = <<1>>
  BY <1>1, <1>2, <1>3
<1>5. /\ DOMAIN heap' = {1} /\ heap'[1].entry = 1 /\ heap'[1].refs = <<>>
      /\ DOMAIN calls' = {1} /\ 1 \in Range(calls')
  BY <1>4 DEF Range
<1>6. ~file'[1].null
  BY <1>3 DEF Loaded
<1>7. \A n \in DOMAIN heap' : OwnedRead(n)'
  BY <1>5, <1>6 DEF OwnedRead
<1> QED BY <1>4, <1>5, <1>7 DEF TreeRead

LEMMA TreeGrows ==
  ASSUME WriteInv, ReadInv, TreeRead, stream = "open", Tree(file), ReadNew
  PROVE  TreeRead'
<1> DEFINE N == Len(heap) + 1
           p == wanted.at
           r == reader
           i == Len(heap[r].refs) + 1
<1>1. Reading /\ ~Loaded(p) /\ Make(p)
  BY DEF ReadNew
<1>2. /\ r \in DOMAIN heap /\ wanted \in Wanted /\ ~wanted.weak /\ p \in DOMAIN file
      /\ i \in DOMAIN heap[r].wants /\ ~file[p].null
  BY <1>1, TreeWants DEF Loaded
<1>3. ReadTypes /\ CallsNest
  BY DEF ReadInv
<1>4. PICK wants \in Wants(p, stream') :
        /\ heap' = Append(heap, [entry |-> p, wants |-> wants, refs |-> <<>>])
        /\ alive' = alive \union {N}
        /\ calls' = <<N>> \o calls
        /\ file' = file
  BY <1>1 DEF Make, writer
<1>5. /\ synced /\ calls # <<>>
      /\ calls \in Seq(Nat) /\ calls[1] = r /\ 1 \in DOMAIN calls
      /\ \A m \in Range(calls) : m \in DOMAIN heap
  <2>1. calls # <<>> /\ synced
    BY <1>1 DEF Reading, ReadInv, Begun
  <2> QED BY <2>1, Calling
<1> DEFINE x == [entry |-> p, wants |-> wants, refs |-> <<>>]
<1>6. x \in HeapObjects /\ x.refs = <<>> /\ x.entry = p
  <2>1. wants \in Seq(Wanted) /\ p \in Nat
    BY <1>2, <1>5, WantsType, FileType
  <2> QED BY <2>1 DEF HeapObjects
<1>7. wanted = heap[r].wants[i] /\ wanted = [at |-> p, weak |-> FALSE]
  <2>1. \A w \in Wanted : ~w.weak => w = [at |-> w.at, weak |-> FALSE]
    BY DEF Wanted
  <2> QED BY <1>2, <2>1 DEF wanted
<1>8. heap' = Append(heap, x)
  BY <1>4
<1> HIDE DEF x
<1>9. /\ DOMAIN heap' = DOMAIN heap \union {N} /\ Len(heap) \in Nat
      /\ N \notin DOMAIN heap /\ DOMAIN heap = 1 .. Len(heap)
      /\ heap'[N] = x
      /\ \A n \in DOMAIN heap : heap'[n] = heap[n]
  BY <1>3, <1>6, <1>8, ObjectMade
<1>10. N \in Nat /\ \A n \in DOMAIN heap : n < N /\ n # N
  BY <1>9
<1> HIDE DEF N, p, i
<1>11. Pushed(calls', N, calls)
  <2>1. calls \in Seq(Nat) /\ N \in Nat /\ calls' = <<N>> \o calls
    BY <1>4, <1>5, <1>10
  <2> QED BY <2>1, CallPushed
<1>12. /\ Range(calls') = Range(calls) \union {N} /\ calls'[1] = N
       /\ \A k \in DOMAIN calls' : k # 1 => k - 1 \in DOMAIN calls /\ calls'[k] = calls[k - 1]
       /\ DOMAIN calls' \subseteq Nat \ {0}
  BY <1>11 DEF Pushed
<1>13. ASSUME NEW m \in DOMAIN heap, NEW k \in Nat, NEW n \in DOMAIN heap, Owns(m, k, n)
       PROVE  Owns(m, k, n)'
  BY <1>9, <1>12, <1>13 DEF Owns
<1>14. PICK c \in DOMAIN heap, l \in Nat : \A n : n = N => Owns(c, l, n)'
  <2>1. i \in Nat
    <3>1. heap[r].refs \in Seq(Made)
      BY <1>2, <1>3, ObjectType
    <3> QED BY <3>1 DEF i
  <2>2. PICK c \in DOMAIN heap, l \in Nat : c = r /\ l = i
    BY <1>2, <2>1
  <2>3. ASSUME NEW n, n = N
        PROVE  Owns(c, l, n)'
    <3>1. l \in DOMAIN heap'[c].wants /\ heap'[c].wants[l] = [at |-> heap'[n].entry, weak |-> FALSE]
      BY <1>2, <1>6, <1>7, <1>9, <2>2, <2>3
    <3>2. l = Len(heap'[c].refs) + 1 /\ n \in Range(calls') /\ c < n
      BY <1>9, <1>10, <1>12, <2>2, <2>3 DEF i
    <3> QED BY <3>1, <3>2 DEF Owns
  <2> QED BY <2>3
<1>15. ASSUME NEW n \in DOMAIN heap'
       PROVE  OwnedRead(n)'
  <2>1. CASE n = N
    <3>1. c \in DOMAIN heap' /\ Owns(c, l, n)'
      BY <1>9, <1>14, <2>1
    <3>2. ~file'[heap'[n].entry].null /\ n \in Range(calls') /\ DOMAIN heap'[n].refs = {}
      <4>1. heap'[n].entry = p /\ heap'[n].refs = <<>>
        BY <1>6, <1>9, <2>1
      <4>2. n \in Range(calls')
        BY <1>12, <2>1
      <4>3. DOMAIN heap'[n].refs = {}
        BY <4>1
      <4> QED BY <1>2, <1>4, <4>1, <4>2, <4>3
    <3> QED BY <3>1, <3>2 DEF OwnedRead
  <2>2. CASE n # N
    <3>1. n \in DOMAIN heap /\ OwnedRead(n) /\ heap'[n] = heap[n]
      BY <1>9, <2>2 DEF TreeRead
    <3>2. heap'[n].entry = 1 \/ \E m \in DOMAIN heap' : \E k \in Nat : Owns(m, k, n)'
      <4>1. CASE heap[n].entry = 1
        BY <3>1, <4>1
      <4>2. CASE heap[n].entry # 1
        <5>1. PICK m \in DOMAIN heap : \E k \in Nat : Owns(m, k, n)
          BY <3>1, <4>2 DEF OwnedRead
        <5>2. PICK k \in Nat : Owns(m, k, n)
          BY <5>1
        <5>3. Owns(m, k, n)' /\ m \in DOMAIN heap'
          BY <1>9, <1>13, <3>1, <5>2
        <5> QED BY <5>3
      <4> QED BY <4>1, <4>2
    <3> QED BY <1>4, <1>12, <3>1, <3>2 DEF OwnedRead
  <2> QED BY <2>1, <2>2
<1>16. ASSUME NEW k \in DOMAIN calls', k + 1 \in DOMAIN calls'
       PROVE  LET o == heap'[calls'[k + 1]] IN ~o.wants[Len(o.refs) + 1].weak
  <2>1. k \in Nat \ {0} /\ k + 1 # 1 /\ (k + 1) - 1 = k
    BY <1>12
  <2>2. k \in DOMAIN calls /\ calls'[k + 1] = calls[k]
    BY <1>12, <1>16, <2>1
  <2>3. calls[k] \in DOMAIN heap
    BY <1>3, <2>2 DEF ReadTypes, CallsNest
  <2>4. CASE k = 1
    BY <1>2, <1>5, <1>7, <1>9, <2>2, <2>4 DEF i
  <2>5. CASE k # 1
    <3>1. k - 1 \in DOMAIN calls /\ (k - 1) + 1 = k
      BY <1>12, <2>1, <2>5
    <3>2. LET o == heap[calls[(k - 1) + 1]] IN ~o.wants[Len(o.refs) + 1].weak
      BY <2>2, <3>1 DEF TreeRead
    <3> QED BY <1>9, <2>2, <2>3, <3>1, <3>2
  <2> QED BY <2>4, <2>5
<1>17. alive' = DOMAIN heap' /\ \E n \in DOMAIN heap' : heap'[n].entry = 1
  BY <1>4, <1>9, SMTT(30) DEF TreeRead, N
<1> QED BY <1>15, <1>16, <1>17 DEF TreeRead

(* A reference that is given leaves all as it is.                          *)
LEMMA TreeGiven ==
  ASSUME WriteInv, ReadInv, TreeRead, stream = "open", NEW s, Going(s), s # <<>>,
         NEW ref, Gets(heap', s[1], ref), Fits(s[1], ref),
         LET o == heap[s[1]] IN ref.weak = o.wants[Len(o.refs) + 1].weak,
         alive' = alive, calls' = s, UNCHANGED <<writer, stream>>,
         \A k \in DOMAIN s : k + 1 \in DOMAIN s =>
           LET o == heap[s[k + 1]] IN ~o.wants[Len(o.refs) + 1].weak,
         \/ s = calls
         \/ /\ calls # <<>> /\ Range(calls) = Range(s) \union {reader}
            /\ reader \in DOMAIN heap /\ s[1] < reader
            /\ Len(heap[reader].refs) = Len(heap[reader].wants)
            /\ LET o == heap[s[1]]
               IN o.wants[Len(o.refs) + 1] = [at |-> heap[reader].entry, weak |-> FALSE]
  PROVE  TreeRead'
<1> DEFINE r == s[1]
           i == Len(heap[r].refs) + 1
<1>1. ReadTypes /\ alive \subseteq DOMAIN heap
  BY DEF ReadInv, ReadTypes
<1>2. /\ s \in Seq(Nat) /\ 1 \in DOMAIN s /\ r \in Range(s)
      /\ DOMAIN s \subseteq Nat \ {0}
      /\ \A k \in DOMAIN s : s[k] \in DOMAIN heap
      /\ r \in DOMAIN heap
      /\ \A j, k \in DOMAIN s : j < k => s[k] < s[j]
  BY <1>1 DEF Going, Range
<1>3. /\ Len(heap[r].refs) \in Nat /\ Len(heap[r].wants) \in Nat /\ i \in Nat
      /\ heap[r].wants \in Seq(Wanted) /\ heap[r].refs \in Seq(Made)
  BY <1>1, <1>2, ObjectType, SMTT(30)
<1>4. /\ DOMAIN heap' = DOMAIN heap /\ heap' \in Seq(HeapObjects) /\ file' = file
      /\ \A n \in DOMAIN heap : n # r => heap'[n] = heap[n]
      /\ \A n \in DOMAIN heap : heap'[n].entry = heap[n].entry /\ heap'[n].wants = heap[n].wants
      /\ Len(heap'[r].refs) = i
      /\ \A k \in DOMAIN heap'[r].refs :
           IF k = i THEN heap'[r].refs[k] = ref
           ELSE k \in DOMAIN heap[r].refs /\ heap'[r].refs[k] = heap[r].refs[k]
  BY DEF Gets, writer
<1>5. /\ i \in DOMAIN heap'[r].refs /\ \A k \in DOMAIN heap[r].refs : k \in DOMAIN heap'[r].refs
      /\ i \in DOMAIN heap[r].wants
  <2>1. heap'[r] \in HeapObjects
    BY <1>2, <1>4
  <2>2. heap'[r].refs \in Seq(Made)
    BY <2>1, SMTT(30) DEF HeapObjects
  <2>3. DOMAIN heap'[r].refs = 1 .. i /\ DOMAIN heap[r].refs = 1 .. Len(heap[r].refs)
    BY <1>3, <1>4, <2>2, SMTT(30)
  <2>4. Len(heap[r].refs) < Len(heap[r].wants)
    BY DEF Fits
  <2> QED BY <1>3, <2>3, <2>4
<1>6. ref.weak = heap[r].wants[i].weak
  OBVIOUS
<1>7. ASSUME s # calls
      PROVE  /\ Range(calls) = Range(s) \union {reader}
             /\ reader \in DOMAIN heap /\ r < reader
             /\ Len(heap[reader].refs) = Len(heap[reader].wants)
             /\ heap[r].wants[i] = [at |-> heap[reader].entry, weak |-> FALSE]
  BY <1>7
<1>8. Range(s) \subseteq Range(calls) /\ (s = calls => Range(s) = Range(calls))
  BY DEF Going
<1> HIDE DEF r, i
<1>9. ASSUME NEW m \in DOMAIN heap, NEW k \in Nat, NEW n \in DOMAIN heap, Owns(m, k, n),
             n \in Range(s) \/ n \notin Range(calls)
      PROVE  Owns(m, k, n)'
  <2>1. k \in DOMAIN heap[m].wants /\ heap[m].wants[k] = [at |-> heap[n].entry, weak |-> FALSE]
    BY <1>9 DEF Owns
  <2>2. \/ k \in DOMAIN heap'[m].refs
        \/ k = Len(heap'[m].refs) + 1 /\ n \in Range(s) /\ m < n
    <3>1. \/ k \in DOMAIN heap[m].refs
          \/ k = Len(heap[m].refs) + 1 /\ n \in Range(s) /\ m < n
      BY <1>9 DEF Owns
    <3>2. CASE m = r
      BY <1>5, <3>1, <3>2 DEF i
    <3>3. CASE m # r
      BY <1>4, <3>1, <3>3
    <3> QED BY <3>2, <3>3
  <2> QED BY <1>4, <2>1, <2>2 DEF Owns
<1>10. ASSUME NEW n \in DOMAIN heap
       PROVE  heap'[n].entry = 1 \/ \E m \in DOMAIN heap' : \E k \in Nat : Owns(m, k, n)'
  <2> SUFFICES ASSUME heap[n].entry # 1
               PROVE  \E m \in DOMAIN heap' : \E k \in Nat : Owns(m, k, n)'
    BY <1>4
  <2>1. CASE n \in Range(s) \/ n \notin Range(calls)
    <3>1. PICK m \in DOMAIN heap : \E k \in Nat : Owns(m, k, n)
      BY DEF TreeRead, OwnedRead
    <3>2. PICK k \in Nat : Owns(m, k, n)
      BY <3>1
    <3>3. Owns(m, k, n)' /\ m \in DOMAIN heap'
      BY <1>4, <1>9, <2>1, <3>2
    <3> QED BY <3>3
  <2>2. CASE n \notin Range(s) /\ n \in Range(calls)
    <3>1. s # calls
      BY <1>8, <2>2
    <3>2. n = reader /\ heap[r].wants[i] = [at |-> heap[n].entry, weak |-> FALSE]
      BY <1>7, <2>2, <3>1
    <3>3. PICK c \in DOMAIN heap, l \in Nat : c = r /\ l = i
      BY <1>2, <1>3
    <3>4. Owns(c, l, n)'
      BY <1>4, <1>5, <3>2, <3>3 DEF Owns
    <3> QED BY <1>4, <3>3, <3>4
  <2> QED BY <2>1, <2>2
<1>11. ASSUME NEW n \in DOMAIN heap'
       PROVE  OwnedRead(n)'
  <2>1. n \in DOMAIN heap /\ OwnedRead(n)
    BY <1>4, SMTT(30) DEF TreeRead
  <2>2. ~file'[heap'[n].entry].null
    BY <1>4, <2>1 DEF OwnedRead
  <2>3. n \in Range(s) \/ Len(heap'[n].refs) = Len(heap'[n].wants)
    <3> SUFFICES ASSUME n \notin Range(s)
                 PROVE  Len(heap'[n].refs) = Len(heap'[n].wants)
      OBVIOUS
    <3>1. n # r /\ heap'[n] = heap[n]
      BY <1>2, <1>4, <2>1
    <3>2. CASE n \in Range(calls)
      BY <1>7, <1>8, <3>1, <3>2, SMTT(30)
    <3>3. CASE n \notin Range(calls)
      BY <2>1, <3>1, <3>3 DEF OwnedRead
    <3> QED BY <3>2, <3>3
  <2>4. \A k \in DOMAIN heap'[n].refs : heap'[n].refs[k].weak = heap'[n].wants[k].weak
    <3>1. CASE n = r
      <4> TAKE k \in DOMAIN heap'[n].refs
      <4>1. CASE k = i
        BY <1>4, <1>6, <2>1, <3>1, <4>1, SMTT(30)
      <4>2. CASE k # i
        <5>1. k \in DOMAIN heap[n].refs /\ heap'[n].refs[k] = heap[n].refs[k]
          BY <1>4, <3>1, <4>2
        <5> QED BY <1>4, <2>1, <5>1 DEF OwnedRead
      <4> QED BY <4>1, <4>2
    <3>2. CASE n # r
      BY <1>4, <2>1, <3>2 DEF OwnedRead
    <3> QED BY <3>1, <3>2
  <2> QED BY <1>10, <2>1, <2>2, <2>3, <2>4 DEF OwnedRead
<1>12. ASSUME NEW k \in DOMAIN s, k + 1 \in DOMAIN s
       PROVE  LET o == heap'[s[k + 1]] IN ~o.wants[Len(o.refs) + 1].weak
  <2>1. s[k + 1] < r /\ s[k + 1] \in DOMAIN heap
    <3>1. 1 < k + 1
      BY <1>2
    <3> QED BY <1>2, <1>12, <3>1 DEF r
  <2>2. s[k + 1] # r
    <3>1. r \in Nat /\ s[k + 1] \in Nat
      BY <1>1, <1>2, <2>1, ObjectType
    <3> QED BY <2>1, <3>1
  <2>3. heap'[s[k + 1]] = heap[s[k + 1]]
    BY <1>4, <2>1, <2>2
  <2> QED BY <1>12, <2>3
<1>13. alive' = DOMAIN heap' /\ \E n \in DOMAIN heap' : heap'[n].entry = 1
  BY <1>4, SMTT(30) DEF TreeRead
<1> QED BY <1>11, <1>12, <1>13 DEF TreeRead
LEMMA TreeKept ==
  ASSUME WriteInv, ReadInv, TreeRead, stream = "open", Tree(file), ReadCached
  PROVE  TreeRead'
<1> DEFINE ref == Flagged(wanted, Cached(wanted.at))
<1>1. /\ Reading /\ calls # <<>>
  BY DEF ReadCached, Reading
<1>2. /\ Gets(heap', reader, ref) /\ Fits(reader, ref)
      /\ ref.weak = (Cached(wanted.at).weak \/ wanted.weak)
      /\ Loaded(wanted.at) /\ alive' = alive
      /\ UNCHANGED <<writer, stream, cache, calls, held>>
  BY CachedGiven
<1>3. /\ wanted \in Wanted /\ reader \in DOMAIN heap
      /\ ~wanted.weak => file[wanted.at].null
  BY <1>1, <1>2, TreeWants
<1>4. wanted.weak \in BOOLEAN
  BY <1>3 DEF Wanted
<1>5. ref.weak = wanted.weak
  <2>1. CASE wanted.weak = TRUE
    BY <1>2, <2>1
  <2>2. CASE wanted.weak = FALSE
    <3>1. Cached(wanted.at).weak = FALSE
      BY <1>3, <2>2 DEF Cached, Strong
    <3> QED BY <1>2, <2>2, <3>1
  <2> QED BY <1>4, <2>1, <2>2
<1> HIDE DEF ref
<1>6. calls[1] = reader
  BY <1>1, Calling
<1>7. Going(calls)
  BY <1>1, Calling DEF Going, ReadInv, CallsNest
<1>8. \A k \in DOMAIN calls : k + 1 \in DOMAIN calls =>
        LET o == heap[calls[k + 1]] IN ~o.wants[Len(o.refs) + 1].weak
  BY DEF TreeRead
<1>9. ref.weak = heap[calls[1]].wants[Len(heap[calls[1]].refs) + 1].weak
  BY <1>5, <1>6 DEF wanted
<1>10. Gets(heap', calls[1], ref) /\ Fits(calls[1], ref)
  BY <1>2, <1>6
<1> QED BY <1>1, <1>2, <1>7, <1>8, <1>9, <1>10, TreeGiven

LEMMA TreeReturned ==
  ASSUME WriteInv, ReadInv, TreeRead, stream = "open", Tree(file), Return, Tail(calls) # <<>>
  PROVE  TreeRead'
<1> DEFINE s == Tail(calls)
           r == s[1]
           want == heap[r].wants[Len(heap[r].refs) + 1]
           ref == Returned(r)
<1>1. calls # <<>> /\ ~Reading
  BY DEF Return
<1>2. /\ Going(s) /\ r \in DOMAIN heap /\ r < reader
      /\ Range(calls) \subseteq Range(s) \union {reader}
      /\ Len(heap[r].refs) < Len(heap[r].wants) /\ want.at = heap[reader].entry
  BY <1>1, Outer
<1>3. /\ reader \in DOMAIN heap /\ reader \in Range(calls) /\ calls \in Seq(Nat) /\ ReadTypes
      /\ ObjectRead(reader)
  <2>1. reader \in DOMAIN heap /\ reader \in Range(calls) /\ calls \in Seq(Nat)
    BY <1>1, Calling
  <2> QED BY <2>1 DEF ReadInv
<1>4. Len(heap[reader].refs) = Len(heap[reader].wants)
  <2>1. Len(heap[reader].refs) \in Nat /\ Len(heap[reader].wants) \in Nat
    BY <1>3, ObjectType
  <2> QED BY <1>1, <1>3, <2>1 DEF ObjectRead, Reading
<1>5. /\ DOMAIN s = 1 .. Len(s) /\ Len(s) \in Nat /\ 1 \in DOMAIN s
      /\ \A k \in DOMAIN s : k + 1 \in DOMAIN calls /\ s[k] = calls[k + 1] /\ k \in Nat
  BY <1>1, <1>3
<1>6. \A k \in DOMAIN s : k + 1 \in DOMAIN s =>
        LET o == heap[s[k + 1]] IN ~o.wants[Len(o.refs) + 1].weak
  <2> SUFFICES ASSUME NEW k \in DOMAIN s, k + 1 \in DOMAIN s
               PROVE  LET o == heap[s[k + 1]] IN ~o.wants[Len(o.refs) + 1].weak
    OBVIOUS
  <2> HIDE DEF s
  <2>1. k + 1 \in DOMAIN calls /\ (k + 1) + 1 \in DOMAIN calls /\ s[k + 1] = calls[(k + 1) + 1]
    BY <1>5
  <2> QED BY <2>1 DEF TreeRead
<1>7. ~want.weak
  <2>1. 1 + 1 \in DOMAIN calls /\ 1 \in DOMAIN calls /\ r = calls[1 + 1]
    <3>1. 1 \in DOMAIN calls
      BY <1>1, Calling
    <3> HIDE DEF s
    <3> QED BY <1>5, <3>1
  <2> HIDE DEF r
  <2> QED BY <2>1 DEF TreeRead
<1>8. want = [at |-> heap[reader].entry, weak |-> FALSE]
  <2>1. Len(heap[r].refs) + 1 \in DOMAIN heap[r].wants
    <3> HIDE DEF r
    <3>1. /\ Len(heap[r].refs) \in Nat /\ Len(heap[r].wants) \in Nat
          /\ heap[r].wants \in Seq(Wanted)
      BY <1>2, <1>3, ObjectType
    <3> QED BY <1>2, <3>1
  <2> HIDE DEF r
  <2> QED BY <1>2, <1>7, <2>1, WantsEntry
<1>9. /\ Gets(heap', r, ref) /\ Fits(r, ref) /\ r \in DOMAIN heap
      /\ ref \in Made /\ ref.obj = reader /\ ref.weak = want.weak
      /\ ~want.weak => ref = Strong(reader)
      /\ alive' = Kept(heap', s, held') \intersect alive
      /\ calls' = s
      /\ UNCHANGED <<writer, stream, cache, held>>
  BY ReturnGiven
<1> HIDE DEF ref
<1>10. alive' = alive
  <2>1. ref = Strong(reader)
    BY <1>7, <1>9
  <2>2. alive \subseteq alive'
    BY <1>1, <1>9, <2>1, StrongReturn, SMTT(30)
  <2> QED BY <1>9, <2>2
<1>11. Range(calls) = Range(s) \union {reader} /\ s # <<>>
  BY <1>2, <1>3 DEF Going
<1> HIDE DEF s
<1> QED BY <1>1, <1>2, <1>3, <1>4, <1>6, <1>8, <1>9, <1>10, <1>11, TreeGiven

LEMMA TreeDone ==
  ASSUME WriteInv, ReadInv, TreeRead, stream = "open", Return, Tail(calls) = <<>>
  PROVE  TreeRead'
<1>1. /\ calls # <<>> /\ calls' = <<>> /\ alive' = alive
      /\ Range(calls) = {reader} /\ heap[reader].entry = 1
      /\ heap' = heap /\ file' = file /\ ~Reading
  BY LastGiven DEF writer, Return
<1>2. ReadTypes /\ \A n \in DOMAIN heap : ObjectRead(n)
  BY DEF ReadInv
<1>3. DOMAIN calls' = {} /\ Range(calls') = {}
  BY <1>1 DEF Range
<1>4. ASSUME NEW n \in DOMAIN heap'
      PROVE  OwnedRead(n)'
  <2>1. OwnedRead(n) /\ n \in DOMAIN heap
    BY <1>1 DEF TreeRead
  <2>2. Len(heap[n].refs) = Len(heap[n].wants)
    <3>1. CASE n = reader
      <4>1. Len(heap[n].refs) \in Nat /\ Len(heap[n].wants) \in Nat
        BY <1>2, <2>1, ObjectType
      <4> QED BY <1>1, <1>2, <2>1, <3>1, <4>1 DEF ObjectRead, Reading
    <3>2. CASE n # reader
      BY <1>1, <2>1, <3>2 DEF OwnedRead
    <3> QED BY <3>1, <3>2
  <2>3. heap[n].entry = 1 \/ \E m \in DOMAIN heap' : \E k \in Nat : Owns(m, k, n)'
    <3> SUFFICES ASSUME heap[n].entry # 1
                 PROVE  \E m \in DOMAIN heap' : \E k \in Nat : Owns(m, k, n)'
      OBVIOUS
    <3>1. PICK m \in DOMAIN heap : \E k \in Nat : Owns(m, k, n)
      BY <2>1 DEF OwnedRead
    <3>2. PICK k \in Nat : Owns(m, k, n)
      BY <3>1
    <3>3. n # reader /\ n \notin Range(calls)
      BY <1>1
    <3>4. Owns(m, k, n)'
      BY <1>1, <3>2, <3>3 DEF Owns
    <3> QED BY <1>1, <3>4
  <2> QED BY <1>1, <2>1, <2>2, <2>3 DEF OwnedRead
<1> QED BY <1>1, <1>3, <1>4 DEF TreeRead

LEMMA TreeNext ==
  ASSUME WriteInv, ReadInv, TreeInv, [Next]_vars
  PROVE  TreeInv'
<1>1. Fetched' /\ NullsEmpty'
  BY FetchedNext, NullsNext DEF TreeInv
<1> SUFFICES ASSUME stream' = "open", Tree(file'), calls' # <<>> \/ held' = Strong(1)
             PROVE  TreeRead'
  BY <1>1 DEF TreeInv
<1>2. stream = "open" /\ Tree(file) /\ (calls # <<>> \/ held = Strong(1)) => TreeRead
  BY DEF TreeInv
<1>3. CASE (\E o \in Objects : set_object(o)) \/ WriteObject \/ WriteIndex \/ Open
  <2>1. (stream' = stream /\ stream = "none") \/ stream' = "closed"
    <3>1. WriteObject \/ WriteIndex => stream = "none"
      BY DEF WriteObject, WriteIndex, ReadInv, Begun
    <3> QED BY <1>3, <3>1 DEF set_object, WriteObject, WriteIndex, Open
  <2> QED BY <2>1
<1>4. CASE get_object
  <2>1. /\ stream = "closed" /\ calls = <<>>
        /\ IF Loaded(1) THEN Receive(<<>>, Cached(1)) ELSE Make(1)
    BY <1>4 DEF get_object
  <2>2. CASE Loaded(1)
    <3>1. calls' = <<>> /\ held' = Cached(1)
      BY <2>1, <2>2 DEF Receive
    <3>2. Cached(1) # Strong(1)
      BY DEF Cached, Strong, Weak
    <3> QED BY <3>1, <3>2
  <2> QED BY <2>1, <2>2, TreeBegins
<1>5. CASE Drop
  <2>1. calls' = <<>> /\ held' = None
    BY <1>5 DEF Drop
  <2> QED BY <2>1 DEF None, Strong, Weak
<1>8. CASE KeepInner
  <2>a. PICK n \in DOMAIN heap :
          \E m \in Owned(heap, n) : calls' = <<>> /\ held' = Strong(m)
    BY <1>8 DEF KeepInner
  <2>1. PICK m \in Owned(heap, n) : calls' = <<>> /\ held' = Strong(m)
    BY <2>a
  <2>2. n \in Nat /\ m \in Nat /\ n # 0 /\ m # 0 /\ Ages /\ ReadTypes
    <3>1. Ages /\ ReadTypes
      BY DEF ReadInv
    <3> QED BY <2>1, <3>1, ObjectType DEF Owned
  <2>3. n < m
    <3>1. PICK k \in DOMAIN heap[n].refs : heap[n].refs[k] = Strong(m)
      BY <2>1 DEF Owned, Range
    <3> QED BY <2>1, <2>2, <3>1 DEF Ages, Strong
  <2>4. held' # Strong(1)
    BY <2>1, <2>2, <2>3 DEF Strong
  <2> QED BY <2>1, <2>4
<1>6. CASE ReadNew \/ ReadCached \/ Return
  <2>1. stream' = stream /\ file' = file /\ calls # <<>>
    BY <1>6 DEF ReadNew, ReadCached, Return, Reading, Make, Receive, writer
  <2>2. TreeRead /\ stream = "open" /\ Tree(file)
    BY <1>2, <2>1
  <2> QED BY <1>6, <2>2, TreeGrows, TreeKept, TreeReturned, TreeDone
<1>7. CASE UNCHANGED vars
  <2>1. UNCHANGED <<file, stream, heap, alive, calls, held>>
    BY <1>7 DEF vars, writer
  <2>2. TreeRead
    BY <1>2, <2>1
  <2> QED BY <2>1, <2>2 DEF TreeRead, OwnedRead, Owns
<1> QED BY <1>3, <1>4, <1>5, <1>6, <1>7, <1>8 DEF Next

(* Whatever tree of objects with references to parents was written: it     *)
(* comes back whole, with the same references strong and weak.             *)
THEOREM WholeTrees == Spec => []TreesComeBack
<1>1. Init => TreeInv
  BY DEF Init, TreeInv, Fetched, NullsEmpty
<1>2. WriteInv /\ ReadInv /\ TreeInv => TreesComeBack
  <2> SUFFICES ASSUME WriteInv, ReadInv, TreeInv, FirstRead, Tree(file)
               PROVE  /\ alive = DOMAIN heap
                      /\ \A p \in DOMAIN file : ~file[p].null => cache[p] # 0
                      /\ \A n \in DOMAIN heap :
                           [k \in DOMAIN heap[n].refs |-> heap[n].refs[k].weak]
                             = [k \in DOMAIN file[heap[n].entry].refs |->
                                  file[heap[n].entry].refs[k].weak]
    BY DEF TreesComeBack
  <2>1. /\ TreeRead /\ Fetched /\ NullsEmpty /\ stream = "open" /\ calls = <<>>
    BY DEF TreeInv, FirstRead
  <2>2. /\ ReadTypes /\ CacheRight /\ synced /\ \A n \in DOMAIN heap : ObjectRead(n) /\ ReadRight(n)
    BY <2>1 DEF ReadInv, Begun
  <2>3. \A n \in DOMAIN heap :
          /\ DOMAIN heap[n].refs = DOMAIN heap[n].wants
          /\ heap[n].wants = file[heap[n].entry].refs /\ heap[n].entry \in DOMAIN file
          /\ \A k \in DOMAIN heap[n].refs : heap[n].refs[k].weak = heap[n].wants[k].weak
    <3> TAKE n \in DOMAIN heap
    <3>1. n \notin Range(calls)
      BY <2>1 DEF Range
    <3>2. OwnedRead(n)
      BY <2>1 DEF TreeRead
    <3>3. heap[n].wants \in Seq(Wanted) /\ heap[n].refs \in Seq(Made)
      BY <2>2, ObjectType
    <3>4. DOMAIN heap[n].refs = DOMAIN heap[n].wants
      BY <3>1, <3>2, <3>3 DEF OwnedRead
    <3> QED BY <2>1, <3>2, <3>4, WantsEntry DEF OwnedRead
  <2> DEFINE X == {heap[n].entry : n \in DOMAIN heap}
             Missing == {p \in DOMAIN file : ~file[p].null /\ p \notin X}
  <2>4. \A x \in X : \A q \in DOMAIN file : x \in StrongFrom(file, q) => q \in X
    BY <2>1, ParentsRead
  <2>5. \A n \in DOMAIN heap : \A k \in DOMAIN file[heap[n].entry].refs :
          LET want == file[heap[n].entry].refs[k]
          IN ~want.weak /\ ~file[want.at].null => want.at \in X
    <3> SUFFICES ASSUME NEW n \in DOMAIN heap, NEW k \in DOMAIN heap[n].refs,
                        ~file[heap[n].wants[k].at].null
                 PROVE  heap[n].wants[k].at \in X
      BY <2>3
    <3>1. heap[n].refs[k].obj # 0
      BY <2>2 DEF ReadRight
    <3>2. heap[n].refs[k].obj \in DOMAIN heap /\ heap[heap[n].refs[k].obj].entry = heap[n].wants[k].at
      BY <2>2, <3>1 DEF ReadRight, ObjectRead
    <3> QED BY <3>2
  <2>6. 1 \in X
    BY <2>1 DEF TreeRead
  <2>7. Missing = {}
    <3> SUFFICES ASSUME Missing # {} PROVE FALSE
      OBVIOUS
    <3>1. DOMAIN file \subseteq Nat /\ DOMAIN index = DOMAIN file /\ Len(file) \in Nat
      BY <2>2, FileType DEF WriteInv, WriteTypes
    <3>2. PICK p \in Missing : \A m \in Missing : p <= m
      <4>1. Missing \in SUBSET Nat
        BY <3>1
      <4> HIDE DEF Missing
      <4> QED BY <4>1, LeastNat
    <3>3. p # 1 /\ p \in DOMAIN file /\ ~file[p].null /\ p \notin X
      BY <2>6, <3>2
    <3>4. PICK q \in DOMAIN file :
            q < p /\ \E k \in DOMAIN file[q].refs : file[q].refs[k].at = p
      BY <2>1, <3>1, <3>3 DEF Fetched
    <3>5. PICK k \in DOMAIN file[q].refs : file[q].refs[k].at = p
      BY <3>4
    <3>6. q \in X
      <4>1. q \notin Missing
        <5>1. q \in Nat /\ p \in Nat /\ ~(p <= q)
          BY <3>1, <3>3, <3>4
        <5> HIDE DEF Missing
        <5> QED BY <3>2, <5>1
      <4>2. ~file[q].null
        BY <2>1, <3>4, <3>5 DEF NullsEmpty
      <4> QED BY <4>1, <4>2
    <3>7. CASE file[q].refs[k].weak
      <4>1. q \in Below(file, p)
        BY <3>5, <3>7 DEF Tree
      <4> HIDE DEF X
      <4>2. p \in X
        BY <2>4, <3>1, <3>3, <3>6, <4>1, ParentsWithin
      <4> QED BY <3>3, <4>2
    <3>8. CASE ~file[q].refs[k].weak
      BY <2>5, <3>3, <3>5, <3>6, <3>8
    <3> QED BY <3>7, <3>8
  <2>8. \A p \in DOMAIN file : ~file[p].null => cache[p] # 0
    <3> SUFFICES ASSUME NEW p \in DOMAIN file, ~file[p].null PROVE cache[p] # 0
      OBVIOUS
    <3>1. PICK n \in DOMAIN heap : heap[n].entry = p
      BY <2>7
    <3>2. n \in alive /\ n # 0
      BY <2>1, <2>2, ObjectType DEF TreeRead
    <3> QED BY <2>2, <3>1, <3>2 DEF CacheRight
  <2>9. alive = DOMAIN heap
    BY <2>1 DEF TreeRead
  <2> QED BY <2>3, <2>8, <2>9
<1> QED BY InitWrites, InitReads, WritesNext, ReadsNext, <1>1, TreeNext, <1>2, PTL DEF Spec
=============================================================================
