-------------------------- MODULE ReferencesProofs --------------------------
(***************************************************************************)
(* Proofs about References, for any finite set of slots and any set of     *)
(* cells.  The inductive invariant is IInv; one lemma says what dropping a *)
(* reference preserves, since every destroying and assigning operation     *)
(* does that, and one what gaining a reference preserves.                  *)
(***************************************************************************)
EXTENDS References, FiniteSetTheorems, TLAPS

(* The sets the counts are compared with are finite.                       *)
LEMMA HoldersFinite ==
  ASSUME live \subseteq Slots, NEW c
  PROVE  IsFiniteSet(Strong(c)) /\ IsFiniteSet(Weak(c))
BY FS_Subset, SlotsAssumption DEF Strong, Weak

(* When one slot stops pointing, it leaves the holders of its cell and the *)
(* holders of every other cell stay the same.                              *)
LEMMA DropHolder ==
  ASSUME live \subseteq Slots, obj \in [Slots -> Cells \union {None}],
         NEW s \in Slots,
         obj' = [obj EXCEPT ![s] = None],
         weak' = weak,
         live' = live \/ live' = live \ {s},
         NEW c \in Cells
  PROVE  Strong(c)' = Strong(c) \ {s} /\ Weak(c)' = Weak(c) \ {s}
BY CellsAssumption DEF Strong, Weak

(* When a slot that points nowhere is pointed at a cell, it joins that     *)
(* cell's strong or weak holders.                                          *)
LEMMA AddHolder ==
  ASSUME live \subseteq Slots, obj \in [Slots -> Cells \union {None}],
         weak \in [Slots -> BOOLEAN],
         NEW s \in Slots, NEW d, NEW w \in BOOLEAN,
         obj[s] = None,
         obj' = [obj EXCEPT ![s] = d],
         weak' = [weak EXCEPT ![s] = w],
         live' \subseteq Slots, s \in live', live \subseteq live',
         \A m \in live' \ live : obj[m] = None,
         NEW c \in Cells
  PROVE  /\ s \notin Strong(c) /\ s \notin Weak(c)
         /\ Strong(c)' = IF c = d /\ ~w THEN Strong(c) \union {s} ELSE Strong(c)
         /\ Weak(c)' = IF c = d /\ w THEN Weak(c) \union {s} ELSE Weak(c)
<1>1. s \notin Strong(c) /\ s \notin Weak(c)
  BY CellsAssumption DEF Strong, Weak
<1>2. \A m \in Slots : m # s => obj'[m] = obj[m] /\ weak'[m] = weak[m]
  OBVIOUS
<1>3. obj'[s] = d /\ weak'[s] = w
  OBVIOUS
<1>4. \A m \in live' : m # s /\ obj'[m] = c => m \in live
  BY <1>2, CellsAssumption
<1>5. Strong(c)' = IF c = d /\ ~w THEN Strong(c) \union {s} ELSE Strong(c)
  BY <1>1, <1>2, <1>3, <1>4 DEF Strong
<1>6. Weak(c)' = IF c = d /\ w THEN Weak(c) \union {s} ELSE Weak(c)
  BY <1>1, <1>2, <1>3, <1>4 DEF Weak
<1> QED BY <1>1, <1>5, <1>6

(***************************************************************************)
(* The invariant without what an unfinished assignment is waiting for.     *)
(***************************************************************************)
CellsOK ==
  /\ TypeOK
  /\ CountsExact
  /\ NoDangling
  /\ FreshCells
  /\ AliveObjects
  /\ LiveMembers
  /\ DyingStack

(* A reference that counts for a cell keeps the count from being zero.     *)
LEMMA HolderCounts ==
  ASSUME CellsOK, NEW s \in live, obj[s] # None
  PROVE  /\ obj[s] \in Cells
         /\ block[obj[s]] = "allocated"
         /\ ~weak[s] => refs[obj[s]] > 0
         /\ ~weak[s] /\ refs[obj[s]] = 1 =>
              Strong(obj[s]) = {s} /\ obj[s] \notin adopted
         /\ weak[s] /\ obj[s] \notin adopted => wrefs[obj[s]] > 0
<1> DEFINE c == obj[s]
<1>1. c \in Cells /\ live \subseteq Slots
  BY DEF CellsOK, TypeOK
<1>2. block[c] = "allocated"
  BY DEF CellsOK, NoDangling
<1>3. /\ IsFiniteSet(Strong(c)) /\ IsFiniteSet(Weak(c))
      /\ Cardinality(Strong(c)) \in Nat /\ Cardinality(Weak(c)) \in Nat
  BY <1>1, HoldersFinite, FS_CardinalityType
<1>4. /\ refs[c] = Cardinality(Strong(c)) + (IF c \in adopted THEN 1 ELSE 0)
      /\ c \notin adopted => wrefs[c] = Cardinality(Weak(c))
  BY <1>1 DEF CellsOK, CountsExact
<1>5. ~weak[s] => s \in Strong(c) /\ Cardinality(Strong(c)) > 0
  <2>1. ~weak[s] => s \in Strong(c)
    BY DEF Strong
  <2>2. s \in Strong(c) => Cardinality(Strong(c)) # 0
    BY <1>3, FS_EmptySet
  <2> QED BY <2>1, <2>2, <1>3
<1>6. weak[s] => Cardinality(Weak(c)) > 0
  <2>1. weak[s] => s \in Weak(c)
    BY DEF Weak
  <2>2. s \in Weak(c) => Cardinality(Weak(c)) # 0
    BY <1>3, FS_EmptySet
  <2> QED BY <2>1, <2>2, <1>3
<1>7. ~weak[s] /\ refs[c] = 1 => Strong(c) = {s} /\ c \notin adopted
  <2>1. SUFFICES ASSUME ~weak[s], refs[c] = 1
                 PROVE  Strong(c) = {s} /\ c \notin adopted
    OBVIOUS
  <2>2. Cardinality(Strong(c)) = 1 /\ c \notin adopted
    BY <2>1, <1>3, <1>4, <1>5
  <2>3. \E x : Strong(c) = {x}
    BY <2>2, <1>3, FS_Singleton
  <2> QED BY <2>1, <2>2, <2>3, <1>5
<1> QED BY <1>1, <1>2, <1>3, <1>4, <1>5, <1>6, <1>7

(***************************************************************************)
(* Dropping the reference in a live slot, whether the slot lives on or     *)
(* not, keeps the cells in order.                                          *)
(***************************************************************************)
LEMMA DropKeepsCells ==
  ASSUME CellsOK, NEW s \in live, DecReference(s),
         live' = live \/ live' = live \ {s},
         weak' = weak, adopted' = adopted,
         todo' \in Slots \union {None}, source' \in Slots \union {None},
         poisoned' \in BOOLEAN
  PROVE  CellsOK'
<1> DEFINE c == obj[s]
<1>1. /\ live \subseteq Slots /\ s \in Slots
      /\ obj \in [Slots -> Cells \union {None}]
      /\ weak \in [Slots -> BOOLEAN]
      /\ refs \in [Cells -> Nat] /\ wrefs \in [Cells -> Nat]
      /\ dying \in Seq(Cells) /\ deletes \subseteq Cells
      /\ adopted \subseteq Cells
      /\ block \in [Cells -> {"fresh", "allocated", "deleted"}]
      /\ object \in [Cells -> {"none", "alive", "destructing", "destroyed"}]
  BY DEF CellsOK, TypeOK
<1>2. obj' = [obj EXCEPT ![s] = None]
  BY DEF DecReference
<1>3. \A d \in Cells : Strong(d)' = Strong(d) \ {s} /\ Weak(d)' = Weak(d) \ {s}
  BY <1>1, <1>2, DropHolder
<1>4. \A d \in Cells :
        /\ Cardinality(Strong(d)) \in Nat /\ Cardinality(Weak(d)) \in Nat
        /\ Cardinality(Strong(d)') =
             Cardinality(Strong(d)) - (IF s \in Strong(d) THEN 1 ELSE 0)
        /\ Cardinality(Weak(d)') =
             Cardinality(Weak(d)) - (IF s \in Weak(d) THEN 1 ELSE 0)
  <2> SUFFICES ASSUME NEW d \in Cells
               PROVE  /\ Cardinality(Strong(d)) \in Nat
                      /\ Cardinality(Weak(d)) \in Nat
                      /\ Cardinality(Strong(d) \ {s}) =
                           Cardinality(Strong(d))
                             - (IF s \in Strong(d) THEN 1 ELSE 0)
                      /\ Cardinality(Weak(d) \ {s}) =
                           Cardinality(Weak(d))
                             - (IF s \in Weak(d) THEN 1 ELSE 0)
    BY <1>3
  <2>1. IsFiniteSet(Strong(d)) /\ IsFiniteSet(Weak(d))
    BY <1>1, HoldersFinite
  <2> QED BY <2>1, FS_CardinalityType, FS_RemoveElement
<1>5. \A d \in Cells : /\ s \in Strong(d) <=> c = d /\ ~weak[s]
                       /\ s \in Weak(d) <=> c = d /\ weak[s]
  BY DEF Strong, Weak
<1>6. \A d \in Cells :
        /\ refs[d] = Cardinality(Strong(d)) + (IF d \in adopted THEN 1 ELSE 0)
        /\ d \notin adopted => wrefs[d] = Cardinality(Weak(d))
  BY DEF CellsOK, CountsExact
<1>7. c # None =>
        /\ c \in Cells /\ block[c] = "allocated"
        /\ ~weak[s] => refs[c] > 0
        /\ ~weak[s] /\ refs[c] = 1 => c \notin adopted
        /\ weak[s] /\ c \notin adopted => wrefs[c] > 0
  BY HolderCounts
<1>8. c # None /\ weak[s] => DecWeak(s, c)
  BY DEF DecReference
<1>9. c # None /\ ~weak[s] => DecStrong(s, c)
  BY DEF DecReference
<1>10. c = None => UNCHANGED <<refs, wrefs, block, object, dying, deletes>>
  BY DEF DecReference
<1>11. /\ refs' \in [Cells -> Nat] /\ wrefs' \in [Cells -> Nat]
       /\ \A d \in Cells :
            /\ refs'[d] = IF d = c /\ ~weak[s] THEN refs[d] - 1 ELSE refs[d]
            /\ wrefs'[d] = IF d = c /\ weak[s] /\ wrefs[d] > 0
                             THEN wrefs[d] - 1 ELSE wrefs[d]
  <2>1. CASE c = None
    BY <2>1, <1>1, <1>10, CellsAssumption
  <2>2. CASE c # None /\ weak[s]
    <3>1. refs' = refs /\ wrefs' = [wrefs EXCEPT ![c] = IF @ > 0 THEN @ - 1 ELSE 0]
      BY <2>2, <1>8 DEF DecWeak
    <3>2. c \in Cells /\ wrefs[c] \in Nat
      BY <2>2, <1>1, <1>7
    <3>3. wrefs'[c] = IF wrefs[c] > 0 THEN wrefs[c] - 1 ELSE wrefs[c]
      BY <3>1, <3>2, <1>1
    <3>4. wrefs' \in [Cells -> Nat]
      BY <3>1, <3>2, <1>1
    <3> QED BY <2>2, <3>1, <3>2, <3>3, <3>4, <1>1
  <2>3. CASE c # None /\ ~weak[s]
    <3>1. refs' = [refs EXCEPT ![c] = @ - 1] /\ wrefs' = wrefs
      BY <2>3, <1>9 DEF DecStrong
    <3> QED BY <2>3, <3>1, <1>1, <1>7
  <2> QED BY <2>1, <2>2, <2>3, <1>1
<1>12. CountsExact'
  <2> SUFFICES ASSUME NEW d \in Cells
               PROVE  /\ refs'[d] = Cardinality(Strong(d)')
                                      + (IF d \in adopted' THEN 1 ELSE 0)
                      /\ d \notin adopted' => wrefs'[d] = Cardinality(Weak(d)')
    BY DEF CountsExact
  <2>1. /\ Cardinality(Strong(d)') =
             Cardinality(Strong(d)) - (IF c = d /\ ~weak[s] THEN 1 ELSE 0)
        /\ Cardinality(Weak(d)') =
             Cardinality(Weak(d)) - (IF c = d /\ weak[s] THEN 1 ELSE 0)
        /\ Cardinality(Strong(d)) \in Nat /\ Cardinality(Weak(d)) \in Nat
    BY <1>4, <1>5
  <2>2. refs'[d] = Cardinality(Strong(d)') + (IF d \in adopted' THEN 1 ELSE 0)
    BY <2>1, <1>1, <1>6, <1>11
  <2>3. ASSUME d \notin adopted'
        PROVE  wrefs'[d] = Cardinality(Weak(d)')
    <3>1. wrefs[d] = Cardinality(Weak(d))
      BY <2>3, <1>6
    <3>2. c = d /\ weak[s] => wrefs[d] > 0
      BY <2>3, <1>1, <1>7, CellsAssumption
    <3> QED BY <3>1, <3>2, <2>1, <1>1, <1>11
  <2> QED BY <2>2, <2>3
<1>13. \A d \in Cells : refs'[d] = 0 /\ wrefs'[d] = 0 /\ d \notin adopted =>
                          Strong(d)' = {} /\ Weak(d)' = {}
  <2> SUFFICES ASSUME NEW d \in Cells,
                      refs'[d] = 0, wrefs'[d] = 0, d \notin adopted
               PROVE  Strong(d)' = {} /\ Weak(d)' = {}
    OBVIOUS
  <2>1. Cardinality(Strong(d)') = 0 /\ Cardinality(Weak(d)') = 0
    <3>1. /\ Cardinality(Strong(d)') \in Nat
          /\ refs'[d] = Cardinality(Strong(d)')
          /\ wrefs'[d] = Cardinality(Weak(d)')
      BY <1>3, <1>4, <1>12, <1>1, HoldersFinite, FS_Subset, FS_CardinalityType
         DEF CountsExact
    <3> QED BY <3>1
  <2>2. IsFiniteSet(Strong(d)') /\ IsFiniteSet(Weak(d)')
    BY <1>1, <1>3, HoldersFinite, FS_Subset
  <2> QED BY <2>1, <2>2, FS_EmptySet
<1>14. /\ block' \in [Cells -> {"fresh", "allocated", "deleted"}]
       /\ \A d \in Cells : block'[d] # block[d] =>
            /\ d = c /\ block'[d] = "deleted" /\ object[d] # "alive"
            /\ refs'[d] = 0 /\ wrefs'[d] = 0 /\ d \notin adopted
  <2>1. CASE c = None
    BY <2>1, <1>1, <1>10
  <2>2. CASE c # None /\ weak[s]
    <3>1. block' = IF refs[c] = 0 /\ wrefs'[c] = 0
                     THEN [block EXCEPT ![c] = "deleted"] ELSE block
      BY <2>2, <1>8 DEF DecWeak
    <3>2. refs[c] = 0 => c \notin adopted /\ object[c] # "alive"
      BY <2>2, <1>1, <1>4, <1>6, <1>7 DEF CellsOK, AliveObjects
    <3> QED BY <2>2, <3>1, <3>2, <1>1, <1>7, <1>11
  <2>3. CASE c # None /\ ~weak[s]
    <3>1. block' = IF (refs[c] = 1 /\ wrefs[c] = 0)
                        /\ ~(refs[c] = 1 /\ object[c] = "alive")
                     THEN [block EXCEPT ![c] = "deleted"] ELSE block
      BY <2>3, <1>9 DEF DecStrong
    <3> QED BY <2>3, <3>1, <1>1, <1>7, <1>11
  <2> QED BY <2>1, <2>2, <2>3, <1>1
<1>15. NoDangling'
  <2> SUFFICES ASSUME NEW m \in live', obj'[m] # None
               PROVE  block'[obj'[m]] = "allocated"
    BY DEF NoDangling
  <2>1. m \in live /\ m # s /\ obj'[m] = obj[m] /\ obj[m] \in Cells
    BY <1>1, <1>2
  <2>2. block[obj[m]] = "allocated"
    BY <2>1 DEF CellsOK, NoDangling
  <2>3. m \in Strong(obj[m])' \/ m \in Weak(obj[m])'
    BY <2>1 DEF Strong, Weak
  <2> QED BY <2>1, <2>2, <2>3, <1>13, <1>14
<1>16. \/ UNCHANGED <<object, dying, deletes>>
       \/ /\ c \in Cells /\ ~weak[s] /\ refs[c] = 1 /\ object[c] = "alive"
          /\ c \notin adopted /\ refs'[c] = 0
          /\ object' = [object EXCEPT ![c] = "destructing"]
          /\ dying' = <<c>> \o dying
          /\ deletes' = IF wrefs[c] = 0 THEN deletes \union {c} ELSE deletes
  <2>1. CASE c = None
    BY <2>1, <1>10
  <2>2. CASE c # None /\ weak[s]
    BY <2>2, <1>8 DEF DecWeak
  <2>3. CASE c # None /\ ~weak[s]
    <3>1. CASE refs[c] = 1 /\ object[c] = "alive"
      BY <2>3, <3>1, <1>1, <1>7, <1>9, <1>11 DEF DecStrong
    <3>2. CASE ~(refs[c] = 1 /\ object[c] = "alive")
      BY <2>3, <3>2, <1>9 DEF DecStrong
    <3> QED BY <3>1, <3>2
  <2> QED BY <2>1, <2>2, <2>3, <1>1
<1>17. TypeOK'
  <2>1. /\ object' \in [Cells -> {"none", "alive", "destructing", "destroyed"}]
        /\ dying' \in Seq(Cells) /\ deletes' \subseteq Cells
    <3>1. CASE UNCHANGED <<object, dying, deletes>>
      BY <3>1, <1>1
    <3>2. CASE /\ c \in Cells
               /\ object' = [object EXCEPT ![c] = "destructing"]
               /\ dying' = <<c>> \o dying
               /\ deletes' = IF wrefs[c] = 0 THEN deletes \union {c} ELSE deletes
      <4>1. object' \in [Cells -> {"none", "alive", "destructing", "destroyed"}]
        BY <3>2, <1>1
      <4>2. <<c>> \in Seq(Cells)
        BY <3>2
      <4> QED BY <3>2, <4>1, <4>2, <1>1
    <3> QED BY <3>1, <3>2, <1>16
  <2>2. obj' \in [Slots -> Cells \union {None}]
    BY <1>1, <1>2
  <2> QED BY <2>1, <2>2, <1>1, <1>11, <1>14 DEF TypeOK
<1>18. FreshCells'
  <2> SUFFICES ASSUME NEW d \in Cells
               PROVE  /\ block'[d] = "fresh" <=> object'[d] = "none"
                      /\ block'[d] = "fresh" => d \notin adopted'
                      /\ block'[d] = "deleted" => d \notin adopted' /\ refs'[d] = 0
    BY DEF FreshCells
  <2>1. /\ block[d] = "fresh" <=> object[d] = "none"
        /\ block[d] = "fresh" => d \notin adopted
        /\ block[d] = "deleted" => d \notin adopted /\ refs[d] = 0
    BY DEF CellsOK, FreshCells
  <2>2. d = c => block[d] = "allocated"
    BY <1>7, CellsAssumption
  <2>3. d # c => /\ block'[d] = block[d] /\ object'[d] = object[d]
                 /\ refs'[d] = refs[d]
    BY <1>1, <1>11, <1>14, <1>16
  <2>4. d = c => object[d] # "none" /\ object'[d] # "none" /\ block'[d] # "fresh"
    BY <2>1, <2>2, <1>1, <1>14, <1>16
  <2>5. d = c => (block'[d] = "deleted" => d \notin adopted' /\ refs'[d] = 0)
    BY <2>2, <1>14
  <2> QED BY <2>1, <2>2, <2>3, <2>4, <2>5
<1>21. AliveObjects'
  <2> SUFFICES ASSUME NEW d \in Cells, object'[d] = "alive"
               PROVE  refs'[d] > 0 /\ block'[d] = "allocated"
    BY DEF AliveObjects
  <2>1. object[d] = "alive"
    BY <1>1, <1>16
  <2>2. refs[d] > 0 /\ block[d] = "allocated"
    BY <2>1 DEF CellsOK, AliveObjects
  <2>3. block'[d] = "allocated"
    BY <2>1, <2>2, <1>14
  <2>4. d = c /\ ~weak[s] => refs[d] # 1
    <3> SUFFICES ASSUME d = c, ~weak[s], refs[d] = 1
                 PROVE  FALSE
      OBVIOUS
    <3>1. DecStrong(s, c)
      BY <1>9, CellsAssumption
    <3>2. object'[c] = "destructing"
      BY <3>1, <2>1, <1>1 DEF DecStrong
    <3> QED BY <3>2
  <2> QED BY <2>2, <2>3, <2>4, <1>1, <1>11
<1>19. LiveMembers'
  BY <1>1, <1>2, <1>16, CellsAssumption, OwnerAssumption
     DEF CellsOK, LiveMembers
<1>20. DyingStack'
  <2>1. /\ \A i \in 1 .. Len(dying) : object[dying[i]] = "destructing"
        /\ \A i, j \in 1 .. Len(dying) : dying[i] = dying[j] => i = j
        /\ \A d \in deletes : /\ object[d] = "destructing"
                               /\ refs[d] = 0 /\ wrefs[d] = 0 /\ d \notin adopted
    BY DEF CellsOK, DyingStack
  <2>2. \A d \in deletes : d \in Cells /\ refs'[d] = 0 /\ wrefs'[d] = 0
    BY <2>1, <1>1, <1>7, <1>11, CellsAssumption
  <2>3. CASE UNCHANGED <<object, dying, deletes>>
    BY <2>1, <2>2, <2>3 DEF DyingStack
  <2>4. CASE /\ c \in Cells /\ ~weak[s] /\ refs[c] = 1 /\ object[c] = "alive"
             /\ c \notin adopted /\ refs'[c] = 0
             /\ object' = [object EXCEPT ![c] = "destructing"]
             /\ dying' = <<c>> \o dying
             /\ deletes' = IF wrefs[c] = 0 THEN deletes \union {c} ELSE deletes
    <3>1. /\ Len(dying') = Len(dying) + 1 /\ dying'[1] = c
          /\ \A i \in 2 .. Len(dying') : /\ dying'[i] = dying[i - 1]
                                          /\ i - 1 \in 1 .. Len(dying)
      BY <2>4, <1>1
    <3>2. /\ Len(dying) \in Nat
          /\ \A i \in 1 .. Len(dying) : dying[i] # c /\ dying[i] \in Cells
      BY <2>1, <2>4, <1>1
    <3>3. \A i \in 1 .. Len(dying') : object'[dying'[i]] = "destructing"
      <4> SUFFICES ASSUME NEW i \in 1 .. Len(dying')
                   PROVE  object'[dying'[i]] = "destructing"
        OBVIOUS
      <4>1. i = 1 \/ i \in 2 .. Len(dying')
        BY <3>1, <3>2
      <4> QED BY <4>1, <2>1, <2>4, <3>1, <3>2, <1>1
    <3>4. ASSUME NEW i \in 1 .. Len(dying'), NEW j \in 1 .. Len(dying'),
                 dying'[i] = dying'[j]
          PROVE  i = j
      <4>1. /\ i = 1 \/ i \in 2 .. Len(dying')
            /\ j = 1 \/ j \in 2 .. Len(dying')
        BY <3>1, <3>2
      <4>2. CASE i = 1 \/ j = 1
        BY <3>4, <4>1, <4>2, <3>1, <3>2
      <4>3. CASE i \in 2 .. Len(dying') /\ j \in 2 .. Len(dying')
        <5>1. dying[i - 1] = dying[j - 1]
          BY <3>4, <4>3, <3>1
        <5>2. i - 1 = j - 1
          BY <5>1, <4>3, <3>1, <2>1
        <5> QED BY <5>2
      <4> QED BY <4>1, <4>2, <4>3
    <3>5. \A d \in deletes' : /\ object'[d] = "destructing"
                               /\ refs'[d] = 0 /\ wrefs'[d] = 0
                               /\ d \notin adopted'
      <4>1. \A d \in deletes' : d \in deletes \/ (d = c /\ wrefs'[c] = 0)
        BY <2>4, <1>11
      <4>2. \A d \in deletes : object'[d] = "destructing"
        BY <2>1, <2>2, <2>4, <1>1
      <4>3. object'[c] = "destructing"
        BY <2>4, <1>1
      <4> QED BY <4>1, <4>2, <4>3, <2>1, <2>2, <2>4
    <3> QED BY <3>3, <3>4, <3>5 DEF DyingStack
  <2> QED BY <2>3, <2>4, <1>16
<1> QED BY <1>12, <1>15, <1>17, <1>18, <1>19, <1>20, <1>21 DEF CellsOK

(***************************************************************************)
(* Pointing a slot that points nowhere at a cell some live slot already    *)
(* points at (or at none), as strong or as weak, keeps the cells in order. *)
(***************************************************************************)
LEMMA CopyKeepsCells ==
  ASSUME CellsOK, NEW s \in Slots, NEW d \in Cells \union {None},
         NEW w \in BOOLEAN,
         obj[s] = None, d = None \/ \E t \in live : obj[t] = d,
         s \in live \/ Owner[s] = None,
         obj' = [obj EXCEPT ![s] = d],
         weak' = [weak EXCEPT ![s] = w],
         live' = live \union {s},
         IncReference(d, w),
         UNCHANGED <<block, object, dying, deletes, adopted>>,
         todo' \in Slots \union {None}, source' \in Slots \union {None},
         poisoned' \in BOOLEAN
  PROVE  CellsOK'
<1>1. TypeOK
  BY DEF CellsOK
<1>2. d # None => /\ d \in Cells /\ block[d] = "allocated" /\ d \notin deletes
  <2> SUFFICES ASSUME d # None
               PROVE  d \in Cells /\ block[d] = "allocated" /\ d \notin deletes
    OBVIOUS
  <2>1. PICK t \in live : obj[t] = d
    OBVIOUS
  <2>2. /\ block[d] = "allocated"
        /\ ~weak[t] => refs[d] > 0
        /\ weak[t] /\ d \notin adopted => wrefs[d] > 0
    BY <2>1, HolderCounts
  <2>3. d \in deletes => refs[d] = 0 /\ wrefs[d] = 0 /\ d \notin adopted
    BY DEF CellsOK, DyingStack
  <2>4. weak[t] \in BOOLEAN /\ t \in Slots
    BY <1>1 DEF TypeOK
  <2> QED BY <2>2, <2>3, <2>4
<1>3. \A c \in Cells :
        /\ s \notin Strong(c) /\ s \notin Weak(c)
        /\ Strong(c)' = IF c = d /\ ~w THEN Strong(c) \union {s} ELSE Strong(c)
        /\ Weak(c)' = IF c = d /\ w THEN Weak(c) \union {s} ELSE Weak(c)
  <2>1. /\ live' \subseteq Slots /\ s \in live' /\ live \subseteq live'
        /\ \A m \in live' \ live : obj[m] = None
    BY <1>1 DEF TypeOK
  <2>2. /\ live \subseteq Slots /\ obj \in [Slots -> Cells \union {None}]
        /\ weak \in [Slots -> BOOLEAN]
    BY <1>1 DEF TypeOK
  <2> QED BY <2>1, <2>2, AddHolder
<1>4. /\ refs' \in [Cells -> Nat] /\ wrefs' \in [Cells -> Nat]
      /\ \A c \in Cells :
           /\ refs'[c] = IF c = d /\ ~w THEN refs[c] + 1 ELSE refs[c]
           /\ wrefs'[c] = IF c = d /\ w THEN wrefs[c] + 1 ELSE wrefs[c]
  BY <1>1 DEF TypeOK, IncReference
<1>5. TypeOK'
  BY <1>1, <1>4 DEF TypeOK
<1>6. CountsExact'
  <2> SUFFICES ASSUME NEW c \in Cells
               PROVE  /\ refs'[c] = Cardinality(Strong(c)')
                                      + (IF c \in adopted THEN 1 ELSE 0)
                      /\ c \notin adopted => wrefs'[c] = Cardinality(Weak(c)')
    BY DEF CountsExact
  <2>1. /\ IsFiniteSet(Strong(c)) /\ IsFiniteSet(Weak(c))
        /\ Cardinality(Strong(c)) \in Nat /\ Cardinality(Weak(c)) \in Nat
    BY <1>1, HoldersFinite, FS_CardinalityType DEF TypeOK
  <2>2. /\ Cardinality(Strong(c) \union {s}) = Cardinality(Strong(c)) + 1
        /\ Cardinality(Weak(c) \union {s}) = Cardinality(Weak(c)) + 1
    BY <1>3, <2>1, FS_AddElement
  <2>3. /\ refs[c] = Cardinality(Strong(c)) + (IF c \in adopted THEN 1 ELSE 0)
        /\ c \notin adopted => wrefs[c] = Cardinality(Weak(c))
    BY DEF CellsOK, CountsExact
  <2>4. refs'[c] = Cardinality(Strong(c)') + (IF c \in adopted THEN 1 ELSE 0)
    <3>1. CASE c = d /\ ~w
      <4>1. refs'[c] = refs[c] + 1 /\ Strong(c)' = Strong(c) \union {s}
        BY <3>1, <1>3, <1>4
      <4> QED BY <4>1, <2>1, <2>2, <2>3
    <3>2. CASE ~(c = d /\ ~w)
      <4>1. refs'[c] = refs[c] /\ Strong(c)' = Strong(c)
        BY <3>2, <1>3, <1>4
      <4> QED BY <4>1, <2>3
    <3> QED BY <3>1, <3>2
  <2>5. c \notin adopted => wrefs'[c] = Cardinality(Weak(c)')
    BY <1>3, <1>4, <2>1, <2>2, <2>3
  <2> QED BY <2>4, <2>5
<1>7. NoDangling'
  BY <1>1, <1>2 DEF CellsOK, NoDangling, TypeOK
<1>8. FreshCells'
  <2> SUFFICES ASSUME NEW c \in Cells
               PROVE  /\ block[c] = "fresh" <=> object[c] = "none"
                      /\ block[c] = "fresh" => c \notin adopted
                      /\ block[c] = "deleted" => c \notin adopted /\ refs'[c] = 0
    BY DEF FreshCells
  <2>1. block[c] = "deleted" => refs'[c] = refs[c]
    BY <1>2, <1>4, CellsAssumption
  <2> QED BY <2>1 DEF CellsOK, FreshCells
<1>9. AliveObjects'
  <2> SUFFICES ASSUME NEW c \in Cells, object[c] = "alive"
               PROVE  refs'[c] > 0 /\ block[c] = "allocated"
    BY DEF AliveObjects
  <2>1. refs[c] > 0 /\ refs[c] \in Nat /\ block[c] = "allocated"
    BY <1>1 DEF CellsOK, AliveObjects, TypeOK
  <2> QED BY <2>1, <1>4
<1>10. LiveMembers'
  BY <1>1 DEF CellsOK, LiveMembers, TypeOK
<1>11. DyingStack'
  <2>1. \A c \in deletes : c \in Cells /\ c # d
    BY <1>1, <1>2, CellsAssumption DEF TypeOK
  <2> QED BY <2>1, <1>4 DEF CellsOK, DyingStack
<1> QED BY <1>5, <1>6, <1>7, <1>8, <1>9, <1>10, <1>11 DEF CellsOK

(***************************************************************************)
(* Wrapping a new object keeps the cells in order, when a weak slot that   *)
(* adopts it is remembered.                                                *)
(***************************************************************************)
LEMMA WrapKeepsCells ==
  ASSUME CellsOK, NEW s \in Slots, NEW d \in Cells, NEW w \in BOOLEAN,
         obj[s] = None, s \in live \/ Owner[s] = None,
         Wrap(s, d),
         weak' = [weak EXCEPT ![s] = w],
         live' = live \union {s} \union Members(d),
         adopted' = IF w THEN adopted \union {d} ELSE adopted,
         UNCHANGED <<dying, deletes>>,
         todo' \in Slots \union {None}, source' \in Slots \union {None},
         poisoned' \in BOOLEAN
  PROVE  CellsOK'
<1>1. TypeOK
  BY DEF CellsOK
<1>2. /\ block[d] = "fresh" /\ object[d] = "none" /\ d \notin adopted
      /\ block' = [block EXCEPT ![d] = "allocated"]
      /\ object' = [object EXCEPT ![d] = "alive"]
      /\ refs' = [refs EXCEPT ![d] = 1] /\ wrefs' = wrefs
      /\ obj' = [obj EXCEPT ![s] = d]
  BY DEF CellsOK, FreshCells, Wrap
<1>3. /\ Members(d) \in SUBSET Slots
      /\ \A m \in Members(d) : m \notin live /\ obj[m] = None
  BY <1>2, CellsAssumption DEF CellsOK, LiveMembers, Members
<1>4. \A c \in Cells :
        /\ s \notin Strong(c) /\ s \notin Weak(c)
        /\ Strong(c)' = IF c = d /\ ~w THEN Strong(c) \union {s} ELSE Strong(c)
        /\ Weak(c)' = IF c = d /\ w THEN Weak(c) \union {s} ELSE Weak(c)
  <2>1. /\ live' \subseteq Slots /\ s \in live' /\ live \subseteq live'
        /\ \A m \in live' \ live : obj[m] = None
    BY <1>1, <1>3 DEF TypeOK
  <2>2. /\ live \subseteq Slots /\ obj \in [Slots -> Cells \union {None}]
        /\ weak \in [Slots -> BOOLEAN]
    BY <1>1 DEF TypeOK
  <2> QED BY <2>1, <2>2, <1>2, AddHolder
<1>5. Strong(d) = {} /\ Weak(d) = {}
  BY <1>2, CellsAssumption DEF CellsOK, NoDangling, Strong, Weak
<1>6. TypeOK'
  BY <1>1, <1>2, <1>3 DEF TypeOK
<1>7. CountsExact'
  <2> SUFFICES ASSUME NEW c \in Cells
               PROVE  /\ refs'[c] = Cardinality(Strong(c)')
                                      + (IF c \in adopted' THEN 1 ELSE 0)
                      /\ c \notin adopted' => wrefs'[c] = Cardinality(Weak(c)')
    BY DEF CountsExact
  <2>1. /\ refs[c] = Cardinality(Strong(c)) + (IF c \in adopted THEN 1 ELSE 0)
        /\ c \notin adopted => wrefs[c] = Cardinality(Weak(c))
    BY DEF CellsOK, CountsExact
  <2>2. CASE c # d
    BY <2>1, <2>2, <1>1, <1>2, <1>4 DEF TypeOK
  <2>3. CASE c = d
    <3>1. Cardinality({}) = 0 /\ Cardinality({s}) = 1
      BY FS_EmptySet, FS_Singleton
    <3>2. refs'[d] = 1 /\ wrefs'[d] = 0
      BY <1>1, <1>2, <1>5, <2>1, <2>3, <3>1 DEF TypeOK
    <3>3. CASE w
      <4>1. Strong(d)' = {} /\ d \in adopted'
        BY <3>3, <1>4, <1>5
      <4> QED BY <4>1, <2>3, <3>1, <3>2
    <3>4. CASE ~w
      <4>1. Strong(d)' = {s} /\ Weak(d)' = {} /\ d \notin adopted'
        BY <3>4, <1>2, <1>4, <1>5
      <4> QED BY <4>1, <2>3, <3>1, <3>2
    <3> QED BY <3>3, <3>4
  <2> QED BY <2>2, <2>3
<1>8. NoDangling'
  <2> SUFFICES ASSUME NEW m \in live', obj'[m] # None
               PROVE  block'[obj'[m]] = "allocated"
    BY DEF NoDangling
  <2>1. CASE m = s
    BY <2>1, <1>1, <1>2 DEF TypeOK
  <2>2. CASE m # s
    <3>1. m \in live /\ obj'[m] = obj[m]
      BY <2>2, <1>1, <1>2, <1>3 DEF TypeOK
    <3>2. block[obj[m]] = "allocated" /\ obj[m] \in Cells
      BY <3>1, <1>1 DEF CellsOK, NoDangling, TypeOK
    <3> QED BY <3>1, <3>2, <1>1, <1>2 DEF TypeOK
  <2> QED BY <2>1, <2>2
<1>9. FreshCells'
  <2> SUFFICES ASSUME NEW c \in Cells
               PROVE  /\ block'[c] = "fresh" <=> object'[c] = "none"
                      /\ block'[c] = "fresh" => c \notin adopted'
                      /\ block'[c] = "deleted" =>
                           c \notin adopted' /\ refs'[c] = 0
    BY DEF FreshCells
  <2>1. c = d => block'[c] = "allocated" /\ object'[c] = "alive"
    BY <1>1, <1>2 DEF TypeOK
  <2>2. c # d => /\ block'[c] = block[c] /\ object'[c] = object[c]
                 /\ refs'[c] = refs[c] /\ (c \in adopted' <=> c \in adopted)
    BY <1>1, <1>2 DEF TypeOK
  <2> QED BY <2>1, <2>2 DEF CellsOK, FreshCells
<1>10. AliveObjects'
  BY <1>1, <1>2 DEF CellsOK, AliveObjects, TypeOK
<1>11. LiveMembers'
  BY <1>1, <1>2, <1>3, OwnerAssumption DEF CellsOK, LiveMembers, TypeOK, Members
<1>12. DyingStack'
  <2>1. \A i \in 1 .. Len(dying) : dying[i] \in Cells
    BY <1>1 DEF TypeOK
  <2> QED BY <2>1, <1>1, <1>2 DEF CellsOK, DyingStack, TypeOK
<1> QED BY <1>6, <1>7, <1>8, <1>9, <1>10, <1>11, <1>12 DEF CellsOK

(***************************************************************************)
(* The return of a destructor keeps the cells in order.                    *)
(***************************************************************************)
LEMMA FinishKeepsCells ==
  ASSUME CellsOK, NEW c \in Cells, FinishDestructor(c)
  PROVE  CellsOK'
<1>1. TypeOK
  BY DEF CellsOK
<1>2. /\ dying # <<>> /\ c = Head(dying) /\ Members(c) \intersect live = {}
      /\ dying' = Tail(dying)
      /\ object' = [object EXCEPT ![c] = "destroyed"]
      /\ block' = IF c \in deletes THEN [block EXCEPT ![c] = "deleted"] ELSE block
      /\ deletes' = deletes \ {c}
      /\ UNCHANGED <<live, obj, weak, refs, wrefs, todo, source, adopted,
                     poisoned>>
  BY DEF FinishDestructor, counts, pending
<1>3. /\ \A i \in 1 .. Len(dying) : object[dying[i]] = "destructing"
      /\ \A i, j \in 1 .. Len(dying) : dying[i] = dying[j] => i = j
      /\ \A d \in deletes : /\ object[d] = "destructing"
                             /\ refs[d] = 0 /\ wrefs[d] = 0 /\ d \notin adopted
  BY DEF CellsOK, DyingStack
<1>4. /\ dying \in Seq(Cells) /\ Len(dying) \in Nat /\ Len(dying) > 0
      /\ dying[1] = c /\ object[c] = "destructing"
  BY <1>1, <1>2, <1>3 DEF TypeOK
<1>5. TypeOK'
  BY <1>1, <1>2, <1>4 DEF TypeOK
<1>6. /\ \A d \in Cells : Strong(d)' = Strong(d) /\ Weak(d)' = Weak(d)
      /\ CountsExact'
  <2>1. \A d \in Cells : Strong(d)' = Strong(d) /\ Weak(d)' = Weak(d)
    BY <1>2 DEF Strong, Weak
  <2> QED BY <2>1, <1>2 DEF CellsOK, CountsExact
<1>7. c \in deletes => Strong(c) = {} /\ Weak(c) = {}
  <2> SUFFICES ASSUME c \in deletes
               PROVE  Strong(c) = {} /\ Weak(c) = {}
    OBVIOUS
  <2>1. /\ IsFiniteSet(Strong(c)) /\ IsFiniteSet(Weak(c))
        /\ Cardinality(Strong(c)) \in Nat
    BY <1>1, HoldersFinite, FS_CardinalityType DEF TypeOK
  <2>2. /\ refs[c] = Cardinality(Strong(c)) /\ refs[c] = 0
        /\ wrefs[c] = Cardinality(Weak(c)) /\ wrefs[c] = 0
    BY <1>3, <2>1 DEF CellsOK, CountsExact
  <2> QED BY <2>1, <2>2, FS_EmptySet
<1>8. NoDangling'
  <2> SUFFICES ASSUME NEW m \in live, obj[m] # None
               PROVE  block'[obj[m]] = "allocated"
    BY <1>2 DEF NoDangling
  <2>1. block[obj[m]] = "allocated" /\ obj[m] \in Cells
    BY <1>1 DEF CellsOK, NoDangling, TypeOK
  <2>2. m \in Strong(obj[m]) \/ m \in Weak(obj[m])
    BY DEF Strong, Weak
  <2> QED BY <2>1, <2>2, <1>1, <1>2, <1>7 DEF TypeOK
<1>9. FreshCells'
  BY <1>1, <1>2, <1>3, <1>4 DEF CellsOK, FreshCells, TypeOK
<1>10. AliveObjects'
  BY <1>1, <1>2, <1>3, <1>4 DEF CellsOK, AliveObjects, TypeOK
<1>11. LiveMembers'
  <2>1. \A m \in Slots : m \in live /\ Owner[m] = c => FALSE
    BY <1>2 DEF Members
  <2> QED BY <2>1, <1>1, <1>2, OwnerAssumption, CellsAssumption
          DEF CellsOK, LiveMembers, TypeOK
<1>12. DyingStack'
  <2>1. /\ Len(dying') = Len(dying) - 1
        /\ \A i \in 1 .. Len(dying') : /\ dying'[i] = dying[i + 1]
                                        /\ i + 1 \in 1 .. Len(dying)
    BY <1>2, <1>4
  <2>2. \A i \in 1 .. Len(dying') : object'[dying'[i]] = "destructing"
    <3> SUFFICES ASSUME NEW i \in 1 .. Len(dying')
                 PROVE  object'[dying'[i]] = "destructing"
      OBVIOUS
    <3>1. i \in Nat /\ i + 1 # 1 /\ 1 \in 1 .. Len(dying)
      BY <1>4, <2>1
    <3>2. dying'[i] # c /\ dying'[i] \in Cells
      BY <3>1, <2>1, <1>3, <1>4
    <3> QED BY <3>2, <2>1, <1>1, <1>2, <1>3 DEF TypeOK
  <2>3. ASSUME NEW i \in 1 .. Len(dying'), NEW j \in 1 .. Len(dying'),
               dying'[i] = dying'[j]
        PROVE  i = j
    <3>1. i + 1 = j + 1
      BY <2>1, <2>3, <1>3
    <3> QED BY <3>1, <1>4, <2>1
  <2>4. \A d \in deletes' : /\ object'[d] = "destructing"
                             /\ refs'[d] = 0 /\ wrefs'[d] = 0
                             /\ d \notin adopted'
    BY <1>1, <1>2, <1>3 DEF TypeOK
  <2> QED BY <2>2, <2>3, <2>4 DEF DyingStack
<1> QED BY <1>5, <1>6, <1>8, <1>9, <1>10, <1>11, <1>12 DEF CellsOK

(***************************************************************************)
(* Every step keeps the inductive invariant: one step per action.          *)
(***************************************************************************)
LEMMA InitEstablishes == Init => IInv
<1> SUFFICES ASSUME Init PROVE IInv
  OBVIOUS
<1>1. \A c : Strong(c) = {} /\ Weak(c) = {}
  BY DEF Init, Strong, Weak
<1>2. CountsExact
  <2> SUFFICES ASSUME NEW c \in Cells
               PROVE  /\ refs[c] = Cardinality(Strong(c))
                                    + (IF c \in adopted THEN 1 ELSE 0)
                      /\ wrefs[c] = Cardinality(Weak(c))
    BY DEF CountsExact
  <2>1. Cardinality(Strong(c)) = 0 /\ Cardinality(Weak(c)) = 0
    BY <1>1, FS_EmptySet
  <2>2. refs[c] = 0 /\ wrefs[c] = 0 /\ c \notin adopted
    BY DEF Init
  <2> QED BY <2>1, <2>2
<1>3. TypeOK
  <2>1. <<>> \in Seq(Cells)
    OBVIOUS
  <2> QED BY <2>1 DEF Init, TypeOK
<1>4. NoDangling /\ FreshCells /\ AliveObjects /\ LiveMembers /\ PendingTarget
  BY DEF Init, NoDangling, FreshCells, AliveObjects, LiveMembers, PendingTarget
<1>5. DyingStack
  BY DEF Init, DyingStack
<1> QED BY <1>2, <1>3, <1>4, <1>5 DEF IInv

LEMMA NextPreserves == IInv /\ [Next]_vars => IInv'
<1> SUFFICES ASSUME IInv, [Next]_vars
             PROVE  IInv'
  OBVIOUS
<1>1. /\ CellsOK /\ TypeOK
      /\ todo # None => obj[todo] = None
      /\ todo = None => source = None
      /\ \A s \in Slots : s \notin live => obj[s] = None
  BY DEF IInv, CellsOK, PendingTarget, LiveMembers
<1>2. \A s \in Variables : s \in Slots /\ Owner[s] = None
  BY DEF Variables
<1>3. SUFFICES CellsOK' /\ PendingTarget'
  BY DEF IInv, CellsOK
<1> USE DEF counts, pending
<1>4. CASE UNCHANGED vars
  <2>1. \A c : Strong(c)' = Strong(c) /\ Weak(c)' = Weak(c)
    BY <1>4 DEF vars, Strong, Weak
  <2> QED BY <1>1, <1>4, <2>1
          DEF vars, CellsOK, TypeOK, CountsExact, NoDangling, FreshCells,
              AliveObjects, LiveMembers, DyingStack, PendingTarget
<1>5. ASSUME NEW s \in Slots, Construct(s)
      PROVE  CellsOK' /\ PendingTarget'
  <2>1. /\ s \notin live /\ Owner[s] = None /\ obj[s] = None
        /\ live' = live \union {s}
        /\ obj' = [obj EXCEPT ![s] = None] /\ weak' = [weak EXCEPT ![s] = FALSE]
        /\ UNCHANGED <<refs, wrefs, block, object, dying, deletes, todo, source,
                       adopted, poisoned>>
    BY <1>1, <1>2, <1>5 DEF Construct
  <2>2. IncReference(None, FALSE)
    BY <1>1, <2>1, CellsAssumption DEF IncReference, TypeOK
  <2>3. CellsOK'
    BY <1>1, <2>1, <2>2, CopyKeepsCells DEF TypeOK
  <2> QED BY <1>1, <2>1, <2>3 DEF PendingTarget, TypeOK
<1>6. ASSUME NEW s \in Slots, NEW t \in Slots, NEW w \in BOOLEAN,
             ConstructFrom(s, t, w)
      PROVE  CellsOK' /\ PendingTarget'
  <2>1. /\ s \notin live /\ Owner[s] = None /\ obj[s] = None /\ t \in live
        /\ todo = None
        /\ live' = live \union {s}
        /\ obj' = [obj EXCEPT ![s] = obj[t]] /\ weak' = [weak EXCEPT ![s] = w]
        /\ IncReference(obj[t], w)
        /\ UNCHANGED <<block, object, dying, deletes, todo, source, adopted,
                       poisoned>>
    BY <1>1, <1>2, <1>6 DEF ConstructFrom, Quiet, Usable
  <2>2. CellsOK'
    BY <1>1, <2>1, CopyKeepsCells DEF TypeOK
  <2> QED BY <1>1, <2>1, <2>2 DEF PendingTarget
<1>7. ASSUME NEW s \in Slots, NEW c \in Cells, ConstructNew(s, c)
      PROVE  CellsOK' /\ PendingTarget'
  <2>1. /\ s \notin live /\ Owner[s] = None /\ obj[s] = None /\ todo = None
        /\ Wrap(s, c)
        /\ live' = live \union {s} \union Members(c)
        /\ weak' = [weak EXCEPT ![s] = FALSE]
        /\ UNCHANGED <<dying, deletes, todo, source, adopted, poisoned>>
    BY <1>1, <1>2, <1>7 DEF ConstructNew, Quiet
  <2>2. CellsOK'
    BY <1>1, <2>1, WrapKeepsCells DEF TypeOK
  <2> QED BY <1>1, <2>1, <2>2 DEF PendingTarget
<1>8. ASSUME NEW s \in Slots, NEW c \in Cells, AdoptNew(s, c)
      PROVE  CellsOK' /\ PendingTarget'
  <2>1. /\ s \in live /\ obj[s] = None /\ weak[s] \in BOOLEAN /\ source = None
        /\ Wrap(s, c)
        /\ live' = live \union {s} \union Members(c)
        /\ weak' = [weak EXCEPT ![s] = weak[s]]
        /\ adopted' = IF weak[s] THEN adopted \union {c} ELSE adopted
        /\ todo' = None
        /\ UNCHANGED <<dying, deletes, source, poisoned>>
    <3>1. s # None /\ todo = s /\ s \in live
      BY <1>8, SlotsAssumption DEF AdoptNew
    <3>2. live \union Members(c) = live \union {s} \union Members(c)
      BY <3>1
    <3>3. weak = [weak EXCEPT ![s] = weak[s]] /\ weak[s] \in BOOLEAN
      BY <1>1 DEF TypeOK
    <3> QED BY <3>1, <3>2, <3>3, <1>1, <1>8 DEF AdoptNew
  <2>2. CellsOK'
    BY <1>1, <2>1, WrapKeepsCells DEF TypeOK
  <2> QED BY <1>1, <2>1, <2>2 DEF PendingTarget
<1>9. ASSUME NEW s \in Slots, NEW t \in Slots, CopySource(s, t)
      PROVE  CellsOK' /\ PendingTarget'
  <2>1. /\ s \in live /\ t \in live /\ obj[s] = None /\ weak[t] \in BOOLEAN
        /\ obj' = [obj EXCEPT ![s] = obj[t]]
        /\ weak' = [weak EXCEPT ![s] = weak[t]]
        /\ live' = live \union {s}
        /\ IncReference(obj[t], weak[t])
        /\ todo' = None /\ source' = None
        /\ UNCHANGED <<block, object, dying, deletes, adopted, poisoned>>
    <3>1. s # None /\ todo = s /\ s \in live
      BY <1>9, SlotsAssumption DEF CopySource
    <3>2. live = live \union {s} /\ weak[t] \in BOOLEAN
      BY <3>1, <1>1 DEF TypeOK
    <3> QED BY <3>1, <3>2, <1>1, <1>9 DEF CopySource
  <2>2. CellsOK'
    BY <1>1, <2>1, CopyKeepsCells DEF TypeOK
  <2> QED BY <2>1, <2>2 DEF PendingTarget
<1>10. ASSUME NEW s \in live, DecReference(s),
              live' = live \/ live' = live \ {s},
              UNCHANGED <<weak, adopted, poisoned>>,
              \/ UNCHANGED <<todo, source>>
              \/ todo' = s /\ source' \in Slots \union {None}
       PROVE  CellsOK' /\ PendingTarget'
  <2>1. s \in Slots /\ obj' = [obj EXCEPT ![s] = None]
    BY <1>1, <1>10 DEF DecReference, TypeOK
  <2>2. CellsOK'
    BY <1>1, <1>10, <2>1, DropKeepsCells DEF TypeOK
  <2> QED BY <1>1, <1>10, <2>1, <2>2, SlotsAssumption DEF PendingTarget, TypeOK
<1>11. ASSUME NEW s \in Slots,
              \/ Destroy(s) \/ AssignNull(s) \/ AssignNew(s) \/ ReleaseMember(s)
              \/ \E t \in Slots : Assign(s, t)
       PROVE  CellsOK' /\ PendingTarget'
  <2>1. /\ s \in live /\ DecReference(s)
        /\ live' = live \/ live' = live \ {s}
        /\ UNCHANGED <<weak, adopted, poisoned>>
        /\ \/ UNCHANGED <<todo, source>>
           \/ todo' = s /\ source' \in Slots \union {None}
    BY <1>1, <1>11
       DEF Destroy, AssignNull, AssignNew, ReleaseMember, Assign, Usable, TypeOK
  <2> QED BY <2>1, <1>10
<1>12. ASSUME NEW c \in Cells, FinishDestructor(c)
       PROVE  CellsOK' /\ PendingTarget'
  BY <1>1, <1>12, FinishKeepsCells DEF FinishDestructor, PendingTarget
<1>13. ASSUME TouchDestroyed
       PROVE  CellsOK' /\ PendingTarget'
  <2>1. \A c : Strong(c)' = Strong(c) /\ Weak(c)' = Weak(c)
    BY <1>13 DEF TouchDestroyed, Strong, Weak
  <2> QED BY <1>1, <1>13, <2>1
          DEF TouchDestroyed, CellsOK, TypeOK, CountsExact, NoDangling,
              FreshCells, AliveObjects, LiveMembers, DyingStack, PendingTarget
<1>14. ASSUME NEW s \in Slots, NEW t \in Slots,
              Copy(s, t) \/ MakeWeak(s, t) \/ MakeNormal(s, t)
       PROVE  \E w \in BOOLEAN : ConstructFrom(s, t, w)
  BY <1>1, <1>14 DEF Copy, MakeWeak, MakeNormal, TypeOK
<1> QED
  BY <1>4, <1>5, <1>6, <1>7, <1>8, <1>9, <1>11, <1>12, <1>13, <1>14 DEF Next

(***************************************************************************)
(* Theorems                                                                *)
(***************************************************************************)

(* IInv holds in every reachable state, for any slots, cells and nesting   *)
(* of objects, with and without the callers' convention.                   *)
THEOREM Invariance == Spec => []IInv
BY InitEstablishes, NextPreserves, PTL DEF Spec

(* The variables hold values of their types.                               *)
THEOREM TypeCorrect == Spec => []TypeOK
<1>1. IInv => TypeOK
  BY DEF IInv
<1> QED BY <1>1, Invariance, PTL

(* The control blocks count exactly the live references, also between the  *)
(* steps of nested destructors.                                            *)
THEOREM CountsAreExact == Spec => []CountsExact
<1>1. IInv => CountsExact
  BY DEF IInv
<1> QED BY <1>1, Invariance, PTL

(* No reference ever points to freed memory.                               *)
THEOREM NothingDangles == Spec => []NoDangling
<1>1. IInv => NoDangling
  BY DEF IInv
<1> QED BY <1>1, Invariance, PTL

(***************************************************************************)
(* What the steps do to the strong holders and to the objects.             *)
(***************************************************************************)

(* Dropping a reference releases one owner or none, and kills the object   *)
(* exactly when the last owner goes.                                       *)
LEMMA DropReleases ==
  ASSUME CellsOK, NEW s \in live, DecReference(s),
         live' = live \/ live' = live \ {s}, weak' = weak
  PROVE  \/ object' = object /\ \A d \in Cells : Strong(d)' = Strong(d)
         \/ \E c \in Cells :
              /\ block[c] = "allocated" /\ s \in Strong(c)
              /\ \A d \in Cells : Strong(d)' = IF d = c THEN Strong(d) \ {s}
                                                        ELSE Strong(d)
              /\ object' = IF Strong(c) = {s} /\ c \notin adopted
                                /\ object[c] = "alive"
                             THEN [object EXCEPT ![c] = "destructing"]
                             ELSE object
<1> DEFINE c == obj[s]
<1>1. /\ live \subseteq Slots /\ s \in Slots /\ TypeOK
      /\ obj' = [obj EXCEPT ![s] = None]
      /\ obj \in [Slots -> Cells \union {None}]
  BY DEF CellsOK, TypeOK, DecReference
<1>2. \A d \in Cells : Strong(d)' = Strong(d) \ {s}
  BY <1>1, DropHolder
<1>3. \A d \in Cells : s \in Strong(d) <=> c = d /\ ~weak[s]
  BY DEF Strong
<1>4. CASE c = None \/ weak[s]
  <2>1. object' = object
    BY <1>4 DEF DecReference, DecWeak
  <2>2. \A d \in Cells : s \notin Strong(d)
    BY <1>3, <1>4, CellsAssumption
  <2> QED BY <2>1, <2>2, <1>2
<1>5. CASE c # None /\ ~weak[s]
  <2>1. /\ c \in Cells /\ block[c] = "allocated"
        /\ refs[c] = 1 => Strong(c) = {s} /\ c \notin adopted
    BY <1>5, HolderCounts
  <2>2. Strong(c) = {s} /\ c \notin adopted => refs[c] = 1
    <3>1. Cardinality({s}) = 1
      BY FS_Singleton
    <3> QED BY <2>1, <3>1 DEF CellsOK, CountsExact
  <2>3. object' = IF refs[c] = 1 /\ object[c] = "alive"
                    THEN [object EXCEPT ![c] = "destructing"] ELSE object
    BY <1>5 DEF DecReference, DecStrong
  <2>4. object' = IF Strong(c) = {s} /\ c \notin adopted /\ object[c] = "alive"
                    THEN [object EXCEPT ![c] = "destructing"] ELSE object
    BY <2>1, <2>2, <2>3
  <2>5. s \in Strong(c) /\ \A d \in Cells : d # c => s \notin Strong(d)
    BY <1>3, <1>5, <2>1
  <2>6. \A d \in Cells : Strong(d)' = IF d = c THEN Strong(d) \ {s} ELSE Strong(d)
    BY <1>2, <2>5
  <2> QED BY <2>1, <2>4, <2>5, <2>6
<1> QED BY <1>4, <1>5

(* A wrapped object is new, and the wrapping slot is its only owner, or    *)
(* nobody is when the slot is weak.                                        *)
LEMMA WrapBirths ==
  ASSUME CellsOK, NEW s \in Slots, NEW c \in Cells, NEW w \in BOOLEAN,
         obj[s] = None, Wrap(s, c),
         weak' = [weak EXCEPT ![s] = w],
         live' = live \union {s} \union Members(c)
  PROVE  /\ object[c] = "none" /\ object' = [object EXCEPT ![c] = "alive"]
         /\ Strong(c) = {}
         /\ \A d \in Cells : Strong(d)' = IF d = c /\ ~w THEN {s} ELSE Strong(d)
<1>1. /\ block[c] = "fresh" /\ object[c] = "none"
      /\ object' = [object EXCEPT ![c] = "alive"]
      /\ obj' = [obj EXCEPT ![s] = c]
  BY DEF CellsOK, FreshCells, Wrap
<1>2. /\ live \subseteq Slots /\ obj \in [Slots -> Cells \union {None}]
      /\ weak \in [Slots -> BOOLEAN]
  BY DEF CellsOK, TypeOK
<1>3. /\ live' \subseteq Slots /\ s \in live' /\ live \subseteq live'
      /\ \A m \in live' \ live : obj[m] = None
  BY <1>1, <1>2, CellsAssumption DEF CellsOK, LiveMembers, Members
<1>4. \A d \in Cells : Strong(d)' = IF d = c /\ ~w THEN Strong(d) \union {s}
                                                   ELSE Strong(d)
  BY <1>1, <1>2, <1>3, AddHolder
<1>5. Strong(c) = {}
  BY <1>1, CellsAssumption DEF CellsOK, NoDangling, Strong
<1> QED BY <1>1, <1>4, <1>5

(* A copied reference is at most one more owner of an existing object.     *)
LEMMA CopyAcquires ==
  ASSUME CellsOK, NEW s \in Slots, NEW t \in live, NEW w \in BOOLEAN,
         obj[s] = None,
         obj' = [obj EXCEPT ![s] = obj[t]],
         weak' = [weak EXCEPT ![s] = w],
         live' = live \union {s}
  PROVE  /\ obj[t] # None => obj[t] \in Cells /\ block[obj[t]] = "allocated"
         /\ \A d \in Cells : Strong(d)' =
              IF d = obj[t] /\ ~w THEN Strong(d) \union {s} ELSE Strong(d)
<1>1. /\ live \subseteq Slots /\ obj \in [Slots -> Cells \union {None}]
      /\ weak \in [Slots -> BOOLEAN]
  BY DEF CellsOK, TypeOK
<1>2. /\ live' \subseteq Slots /\ s \in live' /\ live \subseteq live'
      /\ \A m \in live' \ live : obj[m] = None
  BY <1>1
<1>3. \A d \in Cells : Strong(d)' =
        IF d = obj[t] /\ ~w THEN Strong(d) \union {s} ELSE Strong(d)
  BY <1>1, <1>2, AddHolder
<1>4. obj[t] # None => obj[t] \in Cells /\ block[obj[t]] = "allocated"
  BY HolderCounts
<1> QED BY <1>3, <1>4

(***************************************************************************)
(* The counting implements Ownership: one step per action again.           *)
(***************************************************************************)
LEMMA InitRefines == Init => Abstract!Init
<1> SUFFICES ASSUME Init PROVE Abstract!Init
  OBVIOUS
<1>1. \A c \in Cells : Strong(c) = {} /\ Life(c) = "unborn"
  BY DEF Init, Strong, Life
<1> QED BY <1>1 DEF Init, Abstract!Init

LEMMA NextRefines ==
  IInv /\ [Next]_vars => [Abstract!Next]_(Abstract!ownershipVars)
<1> DEFINE owners == [c \in Cells |-> Strong(c)]
           life == [c \in Cells |-> Life(c)]
           Stutter == UNCHANGED <<owners, life, adopted>>
<1> SUFFICES ASSUME IInv, [Next]_vars
             PROVE  Abstract!Next \/ Stutter
  BY DEF Abstract!ownershipVars
<1>1. /\ CellsOK /\ TypeOK
      /\ todo # None => obj[todo] = None
      /\ \A s \in Slots : s \notin live => obj[s] = None
      /\ \A c \in Cells : block[c] = "allocated" => object[c] # "none"
  BY DEF IInv, CellsOK, PendingTarget, LiveMembers, FreshCells
<1>2. /\ object \in [Cells -> {"none", "alive", "destructing", "destroyed"}]
      /\ live \subseteq Slots /\ weak \in [Slots -> BOOLEAN]
      /\ SlotsAssumption /\ adopted \subseteq Cells
  BY <1>1, SlotsAssumption DEF TypeOK
<1>3. object' = object => life' = life
  BY DEF Life
<1>4. (\A d \in Cells : Strong(d)' = Strong(d)) => owners' = owners
  OBVIOUS
<1>5. CASE UNCHANGED vars
  <2>1. \A d \in Cells : Strong(d)' = Strong(d)
    BY <1>5 DEF vars, Strong
  <2> QED BY <1>3, <1>4, <1>5, <2>1 DEF vars
<1>6. ASSUME NEW s \in Slots, NEW c \in Cells, NEW w \in BOOLEAN,
             obj[s] = None, Wrap(s, c),
             weak' = [weak EXCEPT ![s] = w],
             live' = live \union {s} \union Members(c),
             adopted' = IF w THEN adopted \union {c} ELSE adopted
      PROVE  Abstract!Next
  <2>1. /\ object[c] = "none" /\ object' = [object EXCEPT ![c] = "alive"]
        /\ Strong(c) = {}
        /\ \A d \in Cells : Strong(d)' = IF d = c /\ ~w THEN {s} ELSE Strong(d)
    BY <1>1, <1>6, WrapBirths
  <2>2. life[c] = "unborn" /\ life' = [life EXCEPT ![c] = "alive"]
    BY <1>2, <2>1 DEF Life
  <2>3. CASE w
    <3>1. owners' = owners
      BY <1>4, <2>1, <2>3
    <3>2. Abstract!PinnedBirth(c)
      BY <3>1, <2>2, <2>3, <1>6 DEF Abstract!PinnedBirth
    <3> QED BY <3>2 DEF Abstract!Next
  <2>4. CASE ~w
    <3>1. owners' = [owners EXCEPT ![c] = {s}]
      BY <2>1, <2>4
    <3>2. Abstract!Birth(c, s)
      BY <3>1, <2>2, <2>4, <1>6 DEF Abstract!Birth
    <3> QED BY <3>2 DEF Abstract!Next
  <2> QED BY <2>3, <2>4
<1>7. ASSUME NEW s \in Slots, NEW t \in live, NEW w \in BOOLEAN,
             obj[s] = None,
             obj' = [obj EXCEPT ![s] = obj[t]],
             weak' = [weak EXCEPT ![s] = w],
             live' = live \union {s},
             UNCHANGED <<object, adopted>>
      PROVE  Abstract!Next \/ Stutter
  <2>1. /\ obj[t] # None => obj[t] \in Cells /\ block[obj[t]] = "allocated"
        /\ \A d \in Cells : Strong(d)' =
             IF d = obj[t] /\ ~w THEN Strong(d) \union {s} ELSE Strong(d)
    BY <1>1, <1>7, CopyAcquires
  <2>2. CASE obj[t] = None \/ w
    <3>1. \A d \in Cells : Strong(d)' = Strong(d)
      BY <2>1, <2>2, CellsAssumption
    <3> QED BY <3>1, <1>3, <1>4, <1>7
  <2>3. CASE obj[t] # None /\ ~w
    <3>1. owners' = [owners EXCEPT ![obj[t]] = @ \union {s}]
      BY <2>1, <2>3
    <3>2. life[obj[t]] # "unborn"
      BY <2>1, <2>3, <1>1 DEF Life
    <3>3. Abstract!Acquire(obj[t], s)
      BY <3>1, <3>2, <1>3, <1>7 DEF Abstract!Acquire
    <3> QED BY <3>3, <2>1, <2>3 DEF Abstract!Next
  <2> QED BY <2>2, <2>3
<1>8. ASSUME NEW s \in live, DecReference(s),
             live' = live \/ live' = live \ {s},
             UNCHANGED <<weak, adopted>>
      PROVE  Abstract!Next \/ Stutter
  <2>1. CASE object' = object /\ \A d \in Cells : Strong(d)' = Strong(d)
    BY <2>1, <1>3, <1>4, <1>8
  <2>2. ASSUME NEW c \in Cells,
               block[c] = "allocated", s \in Strong(c),
               \A d \in Cells : Strong(d)' = IF d = c THEN Strong(d) \ {s}
                                                      ELSE Strong(d),
               object' = IF Strong(c) = {s} /\ c \notin adopted
                              /\ object[c] = "alive"
                           THEN [object EXCEPT ![c] = "destructing"]
                           ELSE object
        PROVE  Abstract!Release(c, s)
    <3>1. s \in owners[c] /\ owners' = [owners EXCEPT ![c] = @ \ {s}]
      BY <2>2
    <3>2. object[c] # "none" /\ owners[c] = Strong(c)
      BY <1>1, <2>2
    <3>3. CASE Strong(c) = {s} /\ c \notin adopted
      <4>1. \A d \in Cells : Life(d)' = IF d = c THEN "dead" ELSE Life(d)
        BY <3>2, <3>3, <2>2, <1>2 DEF Life
      <4>2. life' = [life EXCEPT ![c] = "dead"]
        BY <4>1
      <4> QED BY <3>1, <3>2, <3>3, <4>2, <1>8 DEF Abstract!Release
    <3>4. CASE ~(Strong(c) = {s} /\ c \notin adopted)
      <4>1. life' = life
        BY <3>4, <2>2, <1>3
      <4> QED BY <3>1, <3>2, <3>4, <4>1, <1>8 DEF Abstract!Release
    <3> QED BY <3>3, <3>4
  <2>3. s \in Slots
    BY <1>2
  <2> QED BY <2>1, <2>2, <2>3, <1>1, <1>8, DropReleases DEF Abstract!Next
<1> USE DEF counts, pending
<1>9. ASSUME NEW s \in Slots, Construct(s)
      PROVE  Stutter
  <2>1. \A d \in Cells : Strong(d)' = Strong(d)
    BY <1>9, <1>1, CellsAssumption DEF Construct, Strong, TypeOK
  <2> QED BY <2>1, <1>3, <1>4, <1>9 DEF Construct
<1>10. ASSUME NEW s \in Slots, NEW t \in Slots, NEW w \in BOOLEAN,
              ConstructFrom(s, t, w)
       PROVE  Abstract!Next \/ Stutter
  BY <1>1, <1>7, <1>10 DEF ConstructFrom, Usable
<1>11. ASSUME NEW s \in Slots, NEW c \in Cells, ConstructNew(s, c)
       PROVE  Abstract!Next
  <2>1. /\ obj[s] = None /\ Wrap(s, c) /\ weak' = [weak EXCEPT ![s] = FALSE]
        /\ live' = live \union {s} \union Members(c) /\ adopted' = adopted
    BY <1>1, <1>11 DEF ConstructNew
  <2> QED BY <2>1, <1>6
<1>12. ASSUME NEW s \in Slots, NEW c \in Cells, AdoptNew(s, c)
       PROVE  Abstract!Next
  <2>1. /\ s # None /\ obj[s] = None /\ Wrap(s, c)
        /\ live' = live \union {s} \union Members(c)
        /\ adopted' = IF weak[s] THEN adopted \union {c} ELSE adopted
    BY <1>1, <1>2, <1>12 DEF AdoptNew
  <2>2. weak' = [weak EXCEPT ![s] = weak[s]] /\ weak[s] \in BOOLEAN
    BY <1>2, <1>12 DEF AdoptNew
  <2> QED BY <2>1, <2>2, <1>6
<1>13. ASSUME NEW s \in Slots, NEW t \in Slots, CopySource(s, t)
       PROVE  Abstract!Next \/ Stutter
  <2>1. /\ s # None /\ obj[s] = None /\ t \in live
        /\ obj' = [obj EXCEPT ![s] = obj[t]]
        /\ weak' = [weak EXCEPT ![s] = weak[t]]
        /\ live' = live \union {s}
        /\ UNCHANGED <<object, adopted>>
    BY <1>1, <1>2, <1>13 DEF CopySource
  <2> QED BY <2>1, <1>2, <1>7
<1>14. ASSUME NEW s \in Slots,
              \/ Destroy(s) \/ AssignNull(s) \/ AssignNew(s) \/ ReleaseMember(s)
              \/ \E t \in Slots : Assign(s, t)
       PROVE  Abstract!Next \/ Stutter
  <2>1. /\ s \in live /\ DecReference(s)
        /\ live' = live \/ live' = live \ {s}
        /\ UNCHANGED <<weak, adopted>>
    BY <1>14 DEF Destroy, AssignNull, AssignNew, ReleaseMember, Assign, Usable
  <2> QED BY <2>1, <1>8
<1>15. ASSUME NEW c \in Cells, FinishDestructor(c)
       PROVE  Stutter
  <2>1. /\ object[c] = "destructing"
        /\ object' = [object EXCEPT ![c] = "destroyed"]
        /\ UNCHANGED <<live, obj, weak, adopted>>
    <3>1. 1 \in 1 .. Len(dying) /\ c = dying[1]
      BY <1>1, <1>15 DEF FinishDestructor, TypeOK
    <3> QED BY <3>1, <1>1, <1>15 DEF FinishDestructor, CellsOK, DyingStack
  <2>2. \A d \in Cells : Strong(d)' = Strong(d) /\ Life(d)' = Life(d)
    BY <2>1, <1>2 DEF Strong, Life
  <2> QED BY <2>1, <2>2
<1>16. ASSUME TouchDestroyed
       PROVE  Stutter
  <2>1. \A d \in Cells : Strong(d)' = Strong(d)
    BY <1>16 DEF TouchDestroyed, Strong
  <2> QED BY <2>1, <1>3, <1>4, <1>16 DEF TouchDestroyed
<1>17. ASSUME NEW s \in Slots, NEW t \in Slots,
              Copy(s, t) \/ MakeWeak(s, t) \/ MakeNormal(s, t)
       PROVE  \E w \in BOOLEAN : ConstructFrom(s, t, w)
  BY <1>2, <1>17 DEF Copy, MakeWeak, MakeNormal
<1> HIDE DEF Stutter
<1> QED
  BY <1>5, <1>9, <1>10, <1>11, <1>12, <1>13, <1>14, <1>15, <1>16, <1>17 DEF Next

(* Reference counting keeps the promise of Ownership for any number of     *)
(* slots and cells: an object dies with its last owner, neither before nor *)
(* after, and a dead object stays dead.                                    *)
THEOREM RefinesOwnership == Spec => ImplementsOwnership
<1>1. Init => Abstract!Init
  BY InitRefines
<1>2. IInv /\ [Next]_vars => [Abstract!Next]_(Abstract!ownershipVars)
  BY NextRefines
<1> QED BY <1>1, <1>2, Invariance, PTL DEF Spec, ImplementsOwnership, Abstract!Spec

(***************************************************************************)
(* No step revives an object or a control block.                           *)
(***************************************************************************)
LEMMA NextDestroysOnce ==
  IInv /\ [Next]_vars =>
    [\A c \in Cells :
       /\ object[c] = "alive" /\ object'[c] # "alive" => Strong(c)' = {}
       /\ object[c] \in {"destructing", "destroyed"} =>
            object'[c] \in {"destructing", "destroyed"}
       /\ object[c] = "destroyed" => object'[c] = "destroyed"
       /\ block[c] = "deleted" => block'[c] = "deleted"]_vars
<1> SUFFICES ASSUME IInv, Next, NEW c \in Cells
             PROVE
       /\ object[c] = "alive" /\ object'[c] # "alive" => Strong(c)' = {}
       /\ object[c] \in {"destructing", "destroyed"} =>
            object'[c] \in {"destructing", "destroyed"}
       /\ object[c] = "destroyed" => object'[c] = "destroyed"
       /\ block[c] = "deleted" => block'[c] = "deleted"
  OBVIOUS
<1>1. /\ CellsOK /\ TypeOK
      /\ object \in [Cells -> {"none", "alive", "destructing", "destroyed"}]
      /\ block \in [Cells -> {"fresh", "allocated", "deleted"}]
      /\ obj \in [Slots -> Cells \union {None}]
  BY DEF IInv, CellsOK, TypeOK
<1>2. ASSUME NEW s \in Slots, NEW d \in Cells, Wrap(s, d)
      PROVE  /\ object[c] # "none" => object'[c] = object[c]
             /\ block[c] = "deleted" => block'[c] = "deleted"
  <2>1. block[d] = "fresh" /\ object[d] = "none"
    BY <1>1, <1>2 DEF Wrap, CellsOK, FreshCells
  <2> QED BY <2>1, <1>1, <1>2 DEF Wrap
<1>3. ASSUME NEW s \in live, DecReference(s),
             live' = live \/ live' = live \ {s}, weak' = weak
      PROVE  /\ object[c] = "alive" /\ object'[c] # "alive" => Strong(c)' = {}
             /\ object[c] # "alive" => object'[c] = object[c]
             /\ object'[c] # "none" \/ object[c] = "none"
             /\ block[c] = "deleted" => block'[c] = "deleted"
  <2>1. /\ object[c] = "alive" /\ object'[c] # "alive" => Strong(c)' = {}
        /\ object[c] # "alive" => object'[c] = object[c]
        /\ object'[c] # "none" \/ object[c] = "none"
    BY <1>1, <1>3, DropReleases
  <2>2. CASE obj[s] = None
    BY <2>1, <2>2, <1>3 DEF DecReference
  <2>3. CASE obj[s] # None /\ weak[s]
    BY <2>1, <2>3, <1>1, <1>3 DEF DecReference, DecWeak
  <2>4. CASE obj[s] # None /\ ~weak[s]
    <3>1. block' = block \/ block' = [block EXCEPT ![obj[s]] = "deleted"]
      BY <2>4, <1>3 DEF DecReference, DecStrong
    <3> QED BY <2>1, <3>1, <1>1
  <2> QED BY <2>2, <2>3, <2>4
<1>4. ASSUME NEW d \in Cells, FinishDestructor(d)
      PROVE  /\ object[c] = "alive" => object'[c] = "alive"
             /\ object[c] \in {"destructing", "destroyed"} =>
                  object'[c] \in {object[c], "destroyed"}
             /\ block[c] = "deleted" => block'[c] = "deleted"
  <2>1. 1 \in 1 .. Len(dying) /\ d = dying[1]
    BY <1>1, <1>4 DEF FinishDestructor, TypeOK
  <2>2. object[d] = "destructing"
    BY <2>1, <1>1 DEF CellsOK, DyingStack
  <2> QED BY <2>2, <1>1, <1>4 DEF FinishDestructor
<1>5. ASSUME NEW s \in Slots,
             \/ Destroy(s) \/ AssignNull(s) \/ AssignNew(s) \/ ReleaseMember(s)
             \/ \E t \in Slots : Assign(s, t)
      PROVE  /\ s \in live /\ DecReference(s) /\ weak' = weak
             /\ live' = live \/ live' = live \ {s}
  BY <1>5 DEF Destroy, AssignNull, AssignNew, ReleaseMember, Assign, Usable
<1>6. ASSUME NEW s \in Slots,
             \/ Construct(s)
             \/ TouchDestroyed
             \/ \E t \in Slots : \/ Copy(s, t) \/ MakeWeak(s, t)
                                 \/ MakeNormal(s, t) \/ CopySource(s, t)
      PROVE  UNCHANGED <<object, block>>
  BY <1>6 DEF Construct, TouchDestroyed, Copy, MakeWeak, MakeNormal,
              ConstructFrom, CopySource
<1>7. ASSUME NEW s \in Slots, NEW d \in Cells,
             ConstructNew(s, d) \/ AdoptNew(s, d)
      PROVE  Wrap(s, d)
  BY <1>7 DEF ConstructNew, AdoptNew
<1>8. CASE TouchDestroyed
  BY <1>8 DEF TouchDestroyed
<1>9. CASE \E d \in Cells : FinishDestructor(d)
  BY <1>4, <1>9
<1>10. CASE \E s \in Slots :
              \/ Destroy(s) \/ AssignNull(s) \/ AssignNew(s) \/ ReleaseMember(s)
              \/ \E t \in Slots : Assign(s, t)
  BY <1>3, <1>5, <1>10
<1>11. CASE \E s \in Slots, d \in Cells : ConstructNew(s, d) \/ AdoptNew(s, d)
  BY <1>2, <1>7, <1>11
<1>12. CASE \E s \in Slots :
              \/ Construct(s)
              \/ \E t \in Slots : \/ Copy(s, t) \/ MakeWeak(s, t)
                                  \/ MakeNormal(s, t) \/ CopySource(s, t)
  BY <1>6, <1>12
<1> QED BY <1>8, <1>9, <1>10, <1>11, <1>12 DEF Next

(* A destroyed object never comes back, and an object only goes when its   *)
(* last strong reference has gone.                                         *)
THEOREM DestroysOnce == Spec => DestroyOnce
BY NextDestroysOnce, Invariance, PTL DEF Spec, DestroyOnce

(***************************************************************************)
(* Nothing leaks and no held argument goes away: KeepInv, step by step.    *)
(***************************************************************************)

(* Dropping a reference puts an object that nobody owns any more on the    *)
(* stack, and forgets no block.                                            *)
LEMMA DropForgetsNothing ==
  ASSUME CellsOK, DyingUnowned, BlocksNeeded,
         NEW s \in live, DecReference(s),
         live' = live \/ live' = live \ {s}, weak' = weak, adopted' = adopted
  PROVE  DyingUnowned' /\ BlocksNeeded'
<1> DEFINE c == obj[s]
<1>1. /\ live \subseteq Slots /\ s \in Slots
      /\ obj \in [Slots -> Cells \union {None}]
      /\ obj' = [obj EXCEPT ![s] = None]
      /\ refs \in [Cells -> Nat] /\ wrefs \in [Cells -> Nat]
      /\ block \in [Cells -> {"fresh", "allocated", "deleted"}]
      /\ object \in [Cells -> {"none", "alive", "destructing", "destroyed"}]
      /\ dying \in Seq(Cells)
  BY DEF CellsOK, TypeOK, DecReference
<1>2. \A d \in Cells : Strong(d)' = Strong(d) \ {s}
  BY <1>1, DropHolder
<1>3. CASE c = None
  BY <1>2, <1>3 DEF DecReference, DyingUnowned, BlocksNeeded
<1>4. CASE c # None /\ weak[s]
  <2>1. /\ c \in Cells /\ wrefs' = [wrefs EXCEPT ![c] = IF @ > 0 THEN @ - 1 ELSE 0]
        /\ block' = IF refs[c] = 0 /\ wrefs'[c] = 0
                      THEN [block EXCEPT ![c] = "deleted"] ELSE block
        /\ UNCHANGED <<refs, object, dying, deletes>>
    BY <1>1, <1>4 DEF DecReference, DecWeak
  <2>2. wrefs'[c] \in Nat
    BY <1>1, <2>1
  <2>3. DyingUnowned'
    BY <1>2, <2>1 DEF DyingUnowned
  <2>4. BlocksNeeded'
    <3> SUFFICES ASSUME NEW d \in Cells \ adopted, block'[d] = "allocated"
                 PROVE  refs[d] > 0 \/ wrefs'[d] > 0 \/ d \in deletes
      BY <1>4, <2>1 DEF BlocksNeeded
    <3>1. CASE d = c
      BY <1>1, <2>1, <2>2, <3>1
    <3>2. CASE d # c
      BY <1>1, <2>1, <3>2 DEF BlocksNeeded
    <3> QED BY <3>1, <3>2
  <2> QED BY <2>3, <2>4
<1>5. CASE c # None /\ ~weak[s]
  <2> DEFINE last == refs[c] = 1
             kill == last /\ object[c] = "alive"
             gone == last /\ wrefs[c] = 0
  <2>1. /\ c \in Cells /\ refs[c] > 0 /\ (last => Strong(c) = {s})
    BY <1>5, HolderCounts
  <2>2. /\ refs' = [refs EXCEPT ![c] = @ - 1]
        /\ object' = IF kill THEN [object EXCEPT ![c] = "destructing"] ELSE object
        /\ dying' = IF kill THEN <<c>> \o dying ELSE dying
        /\ deletes' = IF kill /\ gone THEN deletes \union {c} ELSE deletes
        /\ block' = IF gone /\ ~kill THEN [block EXCEPT ![c] = "deleted"]
                                     ELSE block
        /\ wrefs' = wrefs
    BY <1>5 DEF DecReference, DecStrong
  <2>3. BlocksNeeded'
    <3> SUFFICES ASSUME NEW d \in Cells \ adopted, block'[d] = "allocated"
                 PROVE  refs'[d] > 0 \/ wrefs[d] > 0 \/ d \in deletes'
      BY <2>2 DEF BlocksNeeded
    <3>1. CASE d = c /\ last
      BY <1>1, <2>1, <2>2, <3>1
    <3>2. CASE d = c /\ ~last
      BY <1>1, <2>1, <2>2, <3>2
    <3>3. CASE d # c
      BY <1>1, <2>2, <3>3 DEF BlocksNeeded
    <3> QED BY <3>1, <3>2, <3>3
  <2>4. CASE ~kill
    BY <1>2, <2>2, <2>3, <2>4 DEF DyingUnowned
  <2>5. CASE kill
    <3>1. /\ Len(dying') = Len(dying) + 1 /\ dying'[1] = c
          /\ \A i \in 1 .. Len(dying) : dying'[i + 1] = dying[i]
      BY <1>1, <2>1, <2>2, <2>5
    <3>2. \A d \in Cells : (\E i \in 1 .. Len(dying) : dying[i] = d) =>
                             \E i \in 1 .. Len(dying') : dying'[i] = d
      <4> SUFFICES ASSUME NEW i \in 1 .. Len(dying)
                   PROVE  \E j \in 1 .. Len(dying') : dying'[j] = dying[i]
        OBVIOUS
      <4>1. i + 1 \in 1 .. Len(dying')
        BY <1>1, <3>1
      <4> QED BY <3>1, <4>1
    <3>3. \E i \in 1 .. Len(dying') : dying'[i] = c
      <4>1. Len(dying') \in Nat /\ 1 \in 1 .. Len(dying')
        BY <1>1, <3>1
      <4> QED BY <3>1, <4>1
    <3>4. \A d \in Cells : d # c => object'[d] = object[d]
      BY <1>1, <2>2
    <3>5. \A d \in Cells : d = c => Strong(d)' = {}
      BY <1>2, <2>1, <2>5
    <3>6. DyingUnowned'
      BY <1>2, <3>2, <3>3, <3>4, <3>5 DEF DyingUnowned
    <3> QED BY <2>3, <3>6
  <2> QED BY <2>3, <2>4, <2>5
<1> QED BY <1>3, <1>4, <1>5

(* When no destructor runs, no object is being destroyed: more references  *)
(* to the objects there are, or a new object, change nothing about it.     *)
LEMMA GainForgetsNothing ==
  ASSUME CellsOK, DyingUnowned, BlocksNeeded, dying = <<>>,
         UNCHANGED <<dying, deletes>>,
         \/ /\ UNCHANGED <<block, object, adopted>>
            /\ \/ UNCHANGED <<refs, wrefs>>
               \/ \E d \in Cells \union {None}, w \in BOOLEAN : IncReference(d, w)
         \/ /\ \E s \in Slots, d \in Cells : Wrap(s, d)
            /\ adopted \subseteq adopted'
  PROVE  DyingUnowned' /\ BlocksNeeded'
<1>1. /\ refs \in [Cells -> Nat] /\ wrefs \in [Cells -> Nat]
      /\ block \in [Cells -> {"fresh", "allocated", "deleted"}]
      /\ object \in [Cells -> {"none", "alive", "destructing", "destroyed"}]
  BY DEF CellsOK, TypeOK
<1>2. \A d \in Cells : object[d] # "destructing"
  BY DEF DyingUnowned
<1>3. CASE /\ UNCHANGED <<block, object, adopted>>
           /\ \/ UNCHANGED <<refs, wrefs>>
              \/ \E d \in Cells \union {None}, w \in BOOLEAN : IncReference(d, w)
  <2>1. \A d \in Cells : refs'[d] >= refs[d] /\ wrefs'[d] >= wrefs[d]
    BY <1>1, <1>3 DEF IncReference
  <2>2. \A d \in Cells : refs'[d] \in Nat /\ wrefs'[d] \in Nat
    BY <1>1, <1>3 DEF IncReference
  <2> QED BY <1>1, <1>2, <1>3, <2>1, <2>2 DEF DyingUnowned, BlocksNeeded
<1>4. CASE /\ \E s \in Slots, d \in Cells : Wrap(s, d)
           /\ adopted \subseteq adopted'
  <2>1. PICK s \in Slots, d \in Cells : Wrap(s, d)
    BY <1>4
  <2> QED BY <1>1, <1>2, <1>4, <2>1 DEF Wrap, DyingUnowned, BlocksNeeded
<1> QED BY <1>3, <1>4

(* A destructor that returns is taken off the stack, and the block goes if *)
(* it was to go with its object.                                           *)
LEMMA FinishForgetsNothing ==
  ASSUME CellsOK, DyingUnowned, BlocksNeeded, NEW c \in Cells,
         FinishDestructor(c)
  PROVE  DyingUnowned' /\ BlocksNeeded'
<1>1. /\ block \in [Cells -> {"fresh", "allocated", "deleted"}]
      /\ object \in [Cells -> {"none", "alive", "destructing", "destroyed"}]
      /\ dying \in Seq(Cells) /\ dying # <<>> /\ c = Head(dying)
      /\ dying' = Tail(dying)
      /\ object' = [object EXCEPT ![c] = "destroyed"]
      /\ block' = IF c \in deletes THEN [block EXCEPT ![c] = "deleted"] ELSE block
      /\ deletes' = deletes \ {c}
      /\ UNCHANGED <<live, obj, weak, refs, wrefs, adopted>>
  BY DEF CellsOK, TypeOK, FinishDestructor, counts
<1>2. DyingUnowned'
  <2> SUFFICES ASSUME NEW d \in Cells, object'[d] = "destructing"
               PROVE  /\ \E i \in 1 .. Len(dying') : dying'[i] = d
                      /\ Strong(d)' = {}
    BY DEF DyingUnowned
  <2>1. d # c /\ object[d] = "destructing"
    BY <1>1
  <2>2. Strong(d)' = {}
    BY <1>1, <2>1 DEF DyingUnowned, Strong
  <2>3. PICK i \in 1 .. Len(dying) : dying[i] = d
    BY <2>1 DEF DyingUnowned
  <2>4. i # 1
    BY <1>1, <2>1, <2>3
  <2>5. i - 1 \in 1 .. Len(dying') /\ dying'[i - 1] = d
    BY <1>1, <2>3, <2>4
  <2> QED BY <2>2, <2>5
<1>3. BlocksNeeded'
  BY <1>1 DEF BlocksNeeded
<1> QED BY <1>2, <1>3

(* The member that a destructor releases belongs to an object that nobody  *)
(* owns: not to one that a variable keeps.                                 *)
LEMMA ReleasedUnheld ==
  ASSUME TypeOK, DyingStack, DyingUnowned, NEW s \in Slots, ReleaseMember(s)
  PROVE  s \notin Variables /\ \A v \in Slots : ~HeldBy(v, s)
<1>1. /\ dying \in Seq(Cells) /\ dying # <<>> /\ Owner[s] = Head(dying)
  BY DEF TypeOK, ReleaseMember, Members
<1>2. /\ Owner[s] \in Cells /\ 1 \in 1 .. Len(dying) /\ Owner[s] = dying[1]
  BY <1>1
<1>3. Strong(Owner[s]) = {}
  BY <1>2 DEF DyingStack, DyingUnowned
<1>4. \A v \in Slots : HeldBy(v, s) => v \in Strong(Owner[s])
  BY DEF HeldBy, Strong
<1>5. s \notin Variables
  BY <1>2, CellsAssumption DEF Variables
<1> QED BY <1>3, <1>4, <1>5

LEMMA InitKeeps == Init => KeepInv
BY CellsAssumption
   DEF Init, KeepInv, DyingUnowned, BlocksNeeded, PendingKept

LEMMA NextKeeps == IInv /\ KeepInv /\ [Next]_vars => KeepInv'
<1> SUFFICES ASSUME IInv, KeepInv, [Next]_vars
             PROVE  KeepInv'
  OBVIOUS
<1> USE DEF counts, pending
<1>1. /\ CellsOK /\ TypeOK /\ DyingStack
      /\ DyingUnowned /\ BlocksNeeded /\ PendingKept
      /\ todo = None => source = None
      /\ \A s \in Slots : s \notin live => obj[s] = None
  BY DEF IInv, CellsOK, KeepInv, PendingTarget, LiveMembers
<1>2. SUFFICES DyingUnowned' /\ BlocksNeeded' /\ PendingKept'
  BY DEF KeepInv
<1>3. CASE UNCHANGED vars
  BY <1>1, <1>3
     DEF vars, DyingUnowned, BlocksNeeded, PendingKept, Strong, HeldBy
<1>4. ASSUME todo' = None, source' = None
      PROVE  PendingKept'
  BY <1>4 DEF PendingKept
<1>5. ASSUME NEW s \in Slots, NEW c \in Cells,
             ConstructNew(s, c) \/ AdoptNew(s, c)
      PROVE  DyingUnowned' /\ BlocksNeeded' /\ PendingKept'
  <2>1. /\ dying = <<>> /\ UNCHANGED <<dying, deletes>>
        /\ Wrap(s, c) /\ adopted \subseteq adopted'
        /\ todo' = None /\ source' = None
    BY <1>1, <1>5 DEF ConstructNew, AdoptNew, Quiet
  <2> QED BY <1>1, <2>1, GainForgetsNothing, <1>4
<1>6. ASSUME NEW s \in Slots,
              \/ Construct(s)
              \/ \E t \in Slots : \/ Copy(s, t) \/ MakeWeak(s, t)
                                  \/ MakeNormal(s, t) \/ CopySource(s, t)
       PROVE  DyingUnowned' /\ BlocksNeeded' /\ PendingKept'
  <2>1. /\ dying = <<>> /\ UNCHANGED <<dying, deletes, block, object, adopted>>
        /\ todo' = None /\ source' = None
    BY <1>1, <1>6 DEF Construct, Copy, MakeWeak, MakeNormal, ConstructFrom,
                       CopySource, Quiet
  <2>2. \/ UNCHANGED <<refs, wrefs>>
        \/ \E d \in Cells \union {None}, w \in BOOLEAN : IncReference(d, w)
    BY <1>1, <1>6 DEF Construct, Copy, MakeWeak, MakeNormal, ConstructFrom,
                       CopySource, TypeOK
  <2> QED BY <1>1, <2>1, <2>2, GainForgetsNothing, <1>4
<1>7. ASSUME NEW s \in Slots, Destroy(s) \/ AssignNull(s)
      PROVE  DyingUnowned' /\ BlocksNeeded' /\ PendingKept'
  <2>1. /\ s \in live /\ DecReference(s)
        /\ live' = live \/ live' = live \ {s}
        /\ weak' = weak /\ adopted' = adopted
        /\ todo' = None /\ source' = None
    BY <1>1, <1>7 DEF Destroy, AssignNull, Usable, Quiet
  <2> QED BY <1>1, <2>1, DropForgetsNothing, <1>4
<1>8. ASSUME NEW s \in Slots, AssignNew(s) \/ \E t \in Slots : Assign(s, t)
      PROVE  DyingUnowned' /\ BlocksNeeded' /\ PendingKept'
  <2>1. /\ s \in live /\ Usable(s) /\ DecReference(s)
        /\ UNCHANGED <<live, weak, adopted>>
        /\ todo' = s /\ (source' = None \/ source' \in live)
    BY <1>1, <1>8 DEF AssignNew, Assign, Usable, Quiet
  <2>2. obj' = [obj EXCEPT ![s] = None] /\ obj \in [Slots -> Cells \union {None}]
    BY <1>1, <2>1 DEF DecReference, TypeOK
  <2>3. s \notin Variables => \E v \in Slots : HeldBy(v, s)'
    <3> SUFFICES ASSUME s \notin Variables
                 PROVE  \E v \in Slots : HeldBy(v, s)'
      OBVIOUS
    <3>1. PICK v \in Slots : HeldBy(v, s)
      BY <2>1 DEF Usable
    <3>2. v # s
      BY <3>1 DEF HeldBy
    <3> QED BY <2>1, <2>2, <3>1, <3>2 DEF HeldBy
  <2>4. PendingKept'
    BY <2>1, <2>3 DEF PendingKept
  <2> QED BY <1>1, <2>1, <2>4, DropForgetsNothing
<1>9. ASSUME NEW s \in Slots, ReleaseMember(s)
      PROVE  DyingUnowned' /\ BlocksNeeded' /\ PendingKept'
  <2>1. /\ s \in live /\ DecReference(s) /\ live' = live \ {s}
        /\ UNCHANGED <<weak, adopted, todo, source>>
    BY <1>9 DEF ReleaseMember
  <2>2. obj' = [obj EXCEPT ![s] = None] /\ obj \in [Slots -> Cells \union {None}]
    BY <1>1, <2>1 DEF DecReference, TypeOK
  <2>3. s \notin Variables /\ \A v \in Slots : ~HeldBy(v, s)
    BY <1>1, <1>9, ReleasedUnheld
  <2>4. \A v \in Slots, t \in Slots : HeldBy(v, t)' <=> HeldBy(v, t)
    BY <2>1, <2>2, <2>3 DEF HeldBy
  <2>5. PendingKept'
    BY <1>1, <2>1, <2>3, <2>4 DEF PendingKept, TypeOK
  <2> QED BY <1>1, <2>1, <2>5, DropForgetsNothing
<1>10. ASSUME NEW c \in Cells, FinishDestructor(c)
      PROVE  DyingUnowned' /\ BlocksNeeded' /\ PendingKept'
  <2>1. UNCHANGED <<live, obj, weak, todo, source>>
    BY <1>10 DEF FinishDestructor
  <2>2. PendingKept'
    BY <1>1, <2>1 DEF PendingKept, HeldBy
  <2> QED BY <1>1, <1>10, <2>2, FinishForgetsNothing
<1>11. ASSUME TouchDestroyed
       PROVE  DyingUnowned' /\ BlocksNeeded' /\ PendingKept'
  BY <1>1, <1>11
     DEF TouchDestroyed, DyingUnowned, BlocksNeeded, PendingKept, Strong, HeldBy
<1> QED
  BY <1>3, <1>5, <1>7, <1>8, <1>9, <1>10, <1>11, <1>6 DEF Next

(* What the callers' convention and the counting rest on, in every         *)
(* reachable state.                                                        *)
THEOREM KeepsInvariance == Spec => [](IInv /\ KeepInv)
<1>1. Init => IInv /\ KeepInv
  BY InitEstablishes, InitKeeps
<1>2. IInv /\ KeepInv /\ [Next]_vars => (IInv /\ KeepInv)'
  BY NextPreserves, NextKeeps
<1> QED BY <1>1, <1>2, PTL DEF Spec

(* When nothing is under way, every control block has a reference and      *)
(* every living object an owner: counting leaks cycles only, and what a    *)
(* weak slot adopted.                                                      *)
THEOREM NothingElseLeaks == Spec => []LeaksOnlyByAdoption
<1>1. IInv /\ KeepInv => LeaksOnlyByAdoption
  <2> SUFFICES ASSUME IInv, KeepInv, Quiet, NEW c \in Cells \ adopted
               PROVE  /\ block[c] = "allocated" => Strong(c) \union Weak(c) # {}
                      /\ object[c] = "alive" => Strong(c) # {}
    BY DEF LeaksOnlyByAdoption
  <2>1. /\ refs[c] = Cardinality(Strong(c)) /\ wrefs[c] = Cardinality(Weak(c))
        /\ refs[c] \in Nat /\ wrefs[c] \in Nat
    <3>1. TypeOK /\ CountsExact /\ IsFiniteSet(Strong(c))
      BY HoldersFinite DEF IInv, TypeOK
    <3>2. Cardinality(Strong(c)) \in Nat
      BY <3>1, FS_CardinalityType
    <3> QED BY <3>1, <3>2 DEF CountsExact, TypeOK
  <2>2. Cardinality({}) = 0
    BY FS_EmptySet
  <2>3. object[c] # "destructing"
    BY DEF KeepInv, DyingUnowned, Quiet
  <2>4. c \notin deletes
    BY <2>3 DEF IInv, DyingStack
  <2>5. block[c] = "allocated" => refs[c] > 0 \/ wrefs[c] > 0
    BY <2>4 DEF KeepInv, BlocksNeeded
  <2>6. object[c] = "alive" => refs[c] > 0
    BY DEF IInv, AliveObjects
  <2> QED BY <2>1, <2>2, <2>5, <2>6
<1> QED BY <1>1, KeepsInvariance, PTL

(* The argument of an assignment is there when it is read, if it is a      *)
(* variable or a member of an object that a variable other than the target *)
(* keeps: what the interpreter passes is never destroyed under it.         *)
THEOREM HeldArguments == Spec => HeldArgumentsSurvive
<1>1. KeepInv /\ [Next]_vars =>
        [TouchDestroyed => /\ source \notin Variables
                           /\ \A v \in Slots \ {todo} : ~HeldBy(v, source)]_vars
  <2> SUFFICES ASSUME KeepInv, TouchDestroyed
               PROVE  /\ source \notin Variables
                      /\ \A v \in Slots \ {todo} : ~HeldBy(v, source)
    OBVIOUS
  <2>1. source # None /\ source \notin live
    BY DEF TouchDestroyed, KeepInv, PendingKept
  <2> QED BY <2>1 DEF KeepInv, PendingKept
<1> QED BY <1>1, KeepsInvariance, PTL DEF Spec, HeldArgumentsSurvive
=============================================================================
