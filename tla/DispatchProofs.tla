--------------------------- MODULE DispatchProofs ---------------------------
(***************************************************************************)
(* Proofs about Dispatch, for any classes in any hierarchy, any messages,  *)
(* and any number of compilations and loads.                               *)
(*                                                                         *)
(* A Class object never changes once it is made, so that what holds of its *)
(* table against its super class's table when it is made holds for good:   *)
(* that is the invariant.  What a search through the tables finds follows  *)
(* from it in every state, by going up the chain of super classes; a chain *)
(* leads to smaller numbers, and where a claim fails there would be a      *)
(* least number where it does.                                             *)
(***************************************************************************)
EXTENDS Dispatch, WellOrder, SequenceTheorems

(***************************************************************************)
(* The invariant                                                           *)
(***************************************************************************)
Tables == UNION {[D -> Entries] : D \in SUBSET Messages}
ClassObjects ==
  [class : Classes, super : Nat, version : Nat \ {0}, own : SUBSET Messages,
   table : Tables]

(* The types, and a record is kept of a class object under its own name.   *)
Types ==
  /\ compiles \in Nat
  /\ file \in [Classes -> Files \union {None}]
  /\ \A c \in Classes : file[c] # None => file[c].version # 0
  /\ objects \in Seq(ClassObjects)
  /\ registry \in [Classes -> Nat]
  /\ \A c \in Classes :
       registry[c] # 0 => /\ registry[c] \in DOMAIN objects
                          /\ objects[registry[c]].class = c

(* The super class of a class object is an older one of the class that the *)
(* hierarchy has for it; only the root has none.                           *)
Chained ==
  \A o \in DOMAIN objects :
    /\ objects[o].super < o
    /\ objects[o].super = 0 <=> objects[o].class = Root
    /\ objects[o].super # 0 =>
         objects[objects[o].super].class = Super[objects[o].class]

(* An entry is the class's own, or what its super class's entry is, or has *)
(* no code if there is none.                                               *)
Given(k, above, m) ==
  IF m \in DOMAIN above THEN k.table[m] = [above[m] EXCEPT !.super = TRUE]
                        ELSE k.table[m].offset = NoCode

CopiedFrom(k, above) ==
  /\ k.own \subseteq DOMAIN k.table
  /\ \A m \in k.own : k.table[m] = Entry(k.class, k.version, FALSE)
  /\ \A m \in DOMAIN k.table \ k.own : Given(k, above, m)

Above(objs, o) == IF objs[o].super = 0 THEN <<>> ELSE objs[objs[o].super].table

Copied == \A o \in DOMAIN objects : CopiedFrom(objects[o], Above(objects, o))

(* How far below the root a class is.                                      *)
Level == CHOOSE level \in [Classes -> 0 .. Cardinality(Classes)] :
           \A c \in Classes \ {Root} : level[Super[c]] < level[c]

(* What is inherited names a class above, in files and in tables.          *)
NamesAbove ==
  /\ \A c \in Classes : file[c] # None =>
       \A m \in DOMAIN file[c].inherited : Level[file[c].inherited[m]] <= Level[c]
  /\ \A o \in DOMAIN objects : \A m \in DOMAIN objects[o].table :
       Level[objects[o].table[m].class_id] <= Level[objects[o].class]

(* Super classes are compiled first, and what a file inherits its super    *)
(* class's file had; the root inherits nothing.                            *)
Rooted ==
  \A c \in Classes : file[c] # None =>
    IF c = Root THEN DOMAIN file[c].inherited = {} ELSE file[Super[c]] # None

IInv == Types /\ Chained /\ Copied /\ NamesAbove /\ Rooted

LEMMA Levels ==
  /\ Cardinality(Classes) \in Nat
  /\ Level \in [Classes -> 0 .. Cardinality(Classes)]
  /\ \A c \in Classes : Level[c] \in Nat
  /\ \A c \in Classes \ {Root} : Super[c] \in Classes /\ Level[Super[c]] < Level[c]
<1>1. Cardinality(Classes) \in Nat
  BY HierarchyAssumption, FS_CardinalityType
<1>2. /\ Level \in [Classes -> 0 .. Cardinality(Classes)]
      /\ \A c \in Classes \ {Root} : Level[Super[c]] < Level[c]
  BY HierarchyAssumption, Zenon DEF Level
<1> QED BY <1>1, <1>2, RootAssumption

(* The function that Named walks up with exists.                           *)
LEMMA NamedClimbs ==
  ASSUME NEW c \in Classes, NEW m
  PROVE  Named(c, m) = IF m \in file[c].own THEN c
                       ELSE IF c # Root /\ m \in Keys(file[Super[c]])
                              THEN Named(Super[c], m)
                       ELSE file[c].inherited[m]
<1> DEFINE Here(k) == m \in file[k].own
           Goes(k) == ~Here(k) /\ k # Root /\ m \in Keys(file[Super[k]])
           Body(f) == [k \in Classes |->
                         IF m \in file[k].own THEN k
                         ELSE IF k # Root /\ m \in Keys(file[Super[k]]) THEN f[Super[k]]
                         ELSE file[k].inherited[m]]
           at == CHOOSE f : f = Body(f)
           z == [k \in Classes |-> IF Here(k) THEN k ELSE file[k].inherited[m]]
           stop == {k \in Classes : ~Goes(k)}
           V == {z[k] : k \in Classes}
<1>1. \E f \in [Classes -> V] : Walks(f, Classes, stop, z, Super)
  <2>1. stop \in SUBSET Classes /\ z \in [Classes -> V]
    BY Zenon
  <2>2. \A k \in Classes \ stop : Super[k] \in Classes /\ Level[Super[k]] < Level[k]
    BY Levels
  <2>3. Cardinality(Classes) \in Nat /\ Level \in [Classes -> 0 .. Cardinality(Classes)]
    BY Levels
  <2> HIDE DEF stop, z, V
  <2> QED BY <2>1, <2>2, <2>3, WalkDefined
<1>2. PICK f \in [Classes -> V] : Walks(f, Classes, stop, z, Super)
  <2> HIDE DEF stop, z, V
  <2> QED BY <1>1
<1>3. f = Body(f)
  <2>1. ASSUME NEW k \in Classes
        PROVE  f[k] = IF m \in file[k].own THEN k
                      ELSE IF k # Root /\ m \in Keys(file[Super[k]]) THEN f[Super[k]]
                      ELSE file[k].inherited[m]
    <3>1. f[k] = IF k \in stop THEN z[k] ELSE f[Super[k]]
      <4> HIDE DEF stop, z, V
      <4> QED BY <1>2, Zenon DEF Walks
    <3> QED BY <3>1
  <2>2. DOMAIN f = Classes
    <3> HIDE DEF V
    <3> QED BY <1>2
  <2>3. f = [k \in Classes |-> f[k]]
    <3> HIDE DEF V
    <3> QED BY <1>2
  <2> HIDE DEF V
  <2> QED BY <2>1, <2>3
<1>4. at = Body(at)
  <2> HIDE DEF Body
  <2> QED BY <1>3
<1>5. \A k : Named(k, m) = at[k]
  BY DEF Named
<1> HIDE DEF at
<1>6. \A k \in Classes : at[k] = IF m \in file[k].own THEN k
                         ELSE IF k # Root /\ m \in Keys(file[Super[k]]) THEN at[Super[k]]
                         ELSE file[k].inherited[m]
  BY <1>4
<1> QED BY <1>5, <1>6

(* The class an entry of the compiler's tables names is above.             *)
LEMMA NamedAbove ==
  ASSUME IInv, NEW c \in Classes, file[c] # None, NEW m \in Keys(file[c])
  PROVE  Named(c, m) \in Classes /\ Level[Named(c, m)] <= Level[c]
<1> DEFINE Wrong == {k \in Classes : /\ file[k] # None /\ m \in Keys(file[k])
                                     /\ ~(Named(k, m) \in Classes /\ Level[Named(k, m)] <= Level[k])}
           T == {Level[k] : k \in Wrong}
<1>1. SUFFICES ASSUME Wrong # {}
               PROVE  FALSE
  BY Zenon
<1>2. T # {} /\ T \in SUBSET Nat
  BY <1>1, Levels
<1>3. PICK n \in T : \A l \in T : n <= l
  <2> HIDE DEF T
  <2> QED BY <1>2, LeastNat
<1>4. PICK k \in Wrong : n = Level[k]
  BY <1>3
<1>5. k \in Classes /\ Level[k] \in Nat /\ file[k] # None /\ m \in Keys(file[k])
      /\ ~(Named(k, m) \in Classes /\ Level[Named(k, m)] <= Level[k])
  BY <1>4, Levels
<1>6. CASE m \in file[k].own
  BY <1>5, <1>6, NamedClimbs
<1>7. CASE m \notin file[k].own /\ k # Root /\ m \in Keys(file[Super[k]])
  <2> DEFINE s == Super[k]
  <2>1. s \in Classes /\ Level[s] \in Nat /\ Level[s] < Level[k] /\ file[s] # None
    BY <1>5, <1>7, Levels DEF IInv, Rooted
  <2>2. s \notin Wrong
    <3>1. s \in Wrong => Level[s] \in T
      BY Zenon
    <3> HIDE DEF Wrong, T
    <3> QED BY <1>3, <1>4, <2>1, <3>1, <1>5
  <2>3. Named(s, m) \in Classes /\ Level[Named(s, m)] <= Level[s]
    BY <1>7, <2>1, <2>2, Zenon
  <2>4. Named(k, m) = Named(s, m)
    BY <1>5, <1>7, NamedClimbs
  <2>5. Level[Named(s, m)] \in Nat
    BY <2>3, Levels
  <2> HIDE DEF s
  <2> QED BY <1>5, <2>1, <2>3, <2>4, <2>5
<1>8. CASE m \notin file[k].own /\ ~(k # Root /\ m \in Keys(file[Super[k]]))
  <2>1. Named(k, m) = file[k].inherited[m]
    BY <1>5, <1>8, NamedClimbs
  <2>2. m \in DOMAIN file[k].inherited /\ file[k] \in Files
    BY <1>5, <1>8 DEF Keys, IInv, Types
  <2>3. file[k].inherited[m] \in Classes
    BY <2>2 DEF Files
  <2>4. Level[file[k].inherited[m]] <= Level[k]
    BY <1>5, <2>2 DEF IInv, NamesAbove
  <2> QED BY <1>5, <2>1, <2>3, <2>4
<1> QED BY <1>6, <1>7, <1>8

(* The super class of a class that can be loaded, as a class object.       *)
LEMMA SuperLoaded ==
  ASSUME IInv, NEW c \in Classes, Loadable(c)
  PROVE  /\ SuperOf(c) \in 0 .. Len(objects)
         /\ SuperOf(c) = 0 <=> c = Root
         /\ c # Root => /\ SuperOf(c) \in DOMAIN objects
                        /\ objects[SuperOf(c)].class = Super[c]
<1>1. CASE c = Root
  BY <1>1 DEF SuperOf, IInv, Types
<1>2. CASE c # Root
  <2>1. Super[c] \in Classes /\ registry[Super[c]] # 0
    BY <1>2, RootAssumption DEF Loadable
  <2> QED BY <1>2, <2>1 DEF SuperOf, IInv, Types
<1> QED BY <1>1, <1>2

(* What is in the file of a class that can be loaded.                      *)
LEMMA FileLoaded ==
  ASSUME IInv, NEW c \in Classes, Loadable(c)
  PROVE  /\ file[c] \in Files /\ file[c].version \in Nat \ {0}
         /\ file[c].own \in SUBSET Messages
         /\ DOMAIN file[c].inherited \in SUBSET Messages
         /\ \A m \in DOMAIN file[c].inherited : file[c].inherited[m] \in Classes
         /\ Keys(file[c]) \in SUBSET Messages
<1>1. file[c] \in Files /\ file[c].version # 0
  BY DEF IInv, Types, Loadable
<1>2. /\ file[c].version \in Nat /\ file[c].own \in SUBSET Messages
      /\ file[c].inherited \in UNION {[D -> Classes] : D \in SUBSET Messages}
  BY <1>1 DEF Files
<1>3. PICK D \in SUBSET Messages : file[c].inherited \in [D -> Classes]
  BY <1>2
<1> QED BY <1>1, <1>2, <1>3 DEF Keys

(* The table a class is loaded with.                                       *)
LEMMA TableLoaded ==
  ASSUME IInv, NEW c \in Classes, Loadable(c)
  PROVE  LET above == TableOf(SuperOf(c))
         IN /\ NewClass(c).table \in [Keys(file[c]) -> Entries]
            /\ NewClass(c) \in ClassObjects
            /\ CopiedFrom(NewClass(c), above)
            /\ \A m \in DOMAIN above \ file[c].own :
                 m \in Keys(file[c]) =>
                   NewClass(c).table[m] = [above[m] EXCEPT !.super = TRUE]
            /\ \A m \in Keys(file[c]) :
                 Level[NewClass(c).table[m].class_id] <= Level[c]
<1> DEFINE above == TableOf(SuperOf(c))
           t == Table(c, file[c], SuperOf(c))
           old == file[c].inherited
<1>1. /\ file[c].version \in Nat \ {0} /\ file[c].own \in SUBSET Messages
      /\ Keys(file[c]) \in SUBSET Messages
      /\ \A m \in Keys(file[c]) \ file[c].own : m \in DOMAIN old /\ old[m] \in Classes
  BY FileLoaded DEF Keys
<1>2. /\ SuperOf(c) \in Nat
      /\ SuperOf(c) # 0 => objects[SuperOf(c)] \in ClassObjects
  BY SuperLoaded DEF IInv, Types
<1>3. \A m \in DOMAIN above : above[m] \in Entries
  BY <1>2 DEF ClassObjects, Tables, TableOf
<1>4. t = [m \in Keys(file[c]) |-> IF m \in file[c].own
                                     THEN Entry(c, file[c].version, FALSE)
                                     ELSE Linked(above, m, old[m])]
  BY DEF Table
<1> HIDE DEF t
<1>5. Entry(c, file[c].version, FALSE) \in Entries
  BY <1>1 DEF Entry, Entries
<1>6. \A m \in Keys(file[c]) \ file[c].own : Linked(above, m, old[m]) \in Entries
  BY <1>1, <1>3 DEF Linked, Unlinked, NoCode, Entry, Entries
<1>7. t \in [Keys(file[c]) -> Entries]
  BY <1>4, <1>5, <1>6
<1>8. t \in Tables
  BY <1>1, <1>7 DEF Tables
<1>9. /\ NewClass(c).class = c /\ NewClass(c).super = SuperOf(c)
      /\ NewClass(c).version = file[c].version
      /\ NewClass(c).own = file[c].own /\ NewClass(c).table = t
  BY DEF NewClass, t
<1>10. NewClass(c) \in ClassObjects
  BY <1>1, <1>2, <1>8 DEF NewClass, ClassObjects, t
<1>11. \A m \in file[c].own : t[m] = Entry(c, file[c].version, FALSE)
  BY <1>4 DEF Keys
<1>12. \A m \in Keys(file[c]) \ file[c].own :
         t[m] = IF m \in DOMAIN above THEN [above[m] EXCEPT !.super = TRUE]
                                      ELSE Entry(old[m], 0, TRUE)
  BY <1>4 DEF Linked, Unlinked, NoCode
<1>13. file[c].own \subseteq DOMAIN t /\ DOMAIN t = Keys(file[c])
  BY <1>7 DEF Keys
<1>14. CopiedFrom(NewClass(c), above)
  <2>1. ASSUME NEW m \in DOMAIN t \ file[c].own
        PROVE  Given(NewClass(c), above, m)
    BY <1>9, <1>12, <1>13 DEF Given, Entry, NoCode
  <2> QED BY <1>9, <1>11, <1>13, <2>1 DEF CopiedFrom
<1>15. ASSUME NEW m \in Keys(file[c])
       PROVE  Level[t[m].class_id] <= Level[c]
  <2>1. CASE m \in file[c].own
    <3>1. t[m].class_id = c
      BY <1>11, <2>1 DEF Entry
    <3> QED BY <3>1, Levels
  <2>2. CASE m \notin file[c].own /\ m \in DOMAIN above
    <3>1. SuperOf(c) # 0 /\ above = objects[SuperOf(c)].table
      BY <2>2 DEF TableOf
    <3>2. /\ c # Root /\ SuperOf(c) \in DOMAIN objects
          /\ objects[SuperOf(c)].class = Super[c]
      BY <3>1, SuperLoaded
    <3>3. Level[above[m].class_id] <= Level[Super[c]]
      BY <2>2, <3>1, <3>2 DEF IInv, NamesAbove
    <3>4. above[m] \in Entries
      BY <1>3, <2>2
    <3>5. t[m].class_id = above[m].class_id /\ above[m].class_id \in Classes
      <4>1. t[m] = [above[m] EXCEPT !.super = TRUE]
        BY <1>12, <2>2
      <4> HIDE DEF above
      <4> QED BY <3>4, <4>1 DEF Entries
    <3> HIDE DEF above
    <3>6. Level[above[m].class_id] \in Nat /\ Level[Super[c]] \in Nat
          /\ Level[c] \in Nat /\ Level[Super[c]] < Level[c]
      BY <3>2, <3>5, Levels
    <3> QED BY <3>3, <3>5, <3>6
  <2>3. CASE m \notin file[c].own /\ m \notin DOMAIN above
    <3>1. t[m].class_id = old[m] /\ m \in DOMAIN old
      <4>1. t[m] = Entry(old[m], 0, TRUE)
        BY <1>12, <2>3
      <4>2. m \in DOMAIN old
        BY <1>1, <2>3
      <4> HIDE DEF old
      <4> QED BY <4>1, <4>2 DEF Entry
    <3>2. file[c] # None
      BY DEF Loadable
    <3> QED BY <3>1, <3>2 DEF IInv, NamesAbove
  <2> QED BY <2>1, <2>2, <2>3
<1> QED BY <1>7, <1>9, <1>10, <1>12, <1>14, <1>15

LEMMA InitHolds == Init => IInv
BY DEF Init, IInv, Types, Chained, Copied, NamesAbove, Rooted

(* What a load does to the class objects.                                  *)
LEMMA Loaded ==
  ASSUME IInv, NEW c \in Classes, Load(c)
  PROVE  LET o == Len(objects) + 1
         IN /\ NewClass(c) \in ClassObjects
            /\ DOMAIN objects' = DOMAIN objects \union {o}
            /\ o \notin DOMAIN objects /\ o \in Nat \ {0}
            /\ \A n \in DOMAIN objects : objects'[n] = objects[n]
            /\ objects'[o] = NewClass(c)
            /\ objects' \in Seq(ClassObjects)
            /\ \A n \in DOMAIN objects : n < o /\ n # 0
<1>1. objects \in Seq(ClassObjects) /\ objects' = Append(objects, NewClass(c))
  BY DEF Load, IInv, Types
<1>2. NewClass(c) \in ClassObjects
  BY TableLoaded DEF Load
<1> QED BY <1>1, <1>2

(* The file that a compilation writes.                                     *)
LEMMA FileCompiled ==
  ASSUME IInv, NEW c \in Classes, NEW own \in SUBSET Messages, Compile(c, own)
  PROVE  /\ Compiled(c, own) \in Files
         /\ c = Root => DOMAIN Compiled(c, own).inherited = {}
         /\ \A m \in DOMAIN Compiled(c, own).inherited :
              Level[Compiled(c, own).inherited[m]] <= Level[c]
<1> DEFINE new == Compiled(c, own)
<1>1. /\ new.version \in Nat /\ new.own = own
      /\ c # Root => Super[c] \in Classes /\ file[Super[c]] # None
  <2>1. new.version = compiles + 1 /\ new.own = own
    BY DEF Compiled
  <2> HIDE DEF new
  <2>2. compiles \in Nat
    BY DEF IInv, Types
  <2>3. c # Root => Super[c] \in Classes /\ file[Super[c]] # None
    BY RootAssumption DEF Compile
  <2> QED BY <2>1, <2>2, <2>3
<1>2. c # Root => file[Super[c]] \in Files
  <2> HIDE DEF new
  <2> QED BY <1>1 DEF IInv, Types
<1>3. /\ new.inherited \in UNION {[D -> Classes] : D \in SUBSET Messages}
      /\ c = Root => DOMAIN new.inherited = {}
      /\ \A m \in DOMAIN new.inherited : Level[new.inherited[m]] <= Level[c]
  <2>1. CASE c = Root
    <3>1. new.inherited = [m \in {} |-> Named(Super[c], m)]
      BY <2>1 DEF Compiled
    <3>2. new.inherited \in [{} -> Classes] /\ {} \in SUBSET Messages
      BY <3>1
    <3> HIDE DEF new
    <3> QED BY <3>2
  <2>2. CASE c # Root
    <3> DEFINE D == Keys(file[Super[c]]) \ own
    <3>1. new.inherited = [m \in D |-> Named(Super[c], m)]
      BY <2>2 DEF Compiled
    <3>2. D \in SUBSET Messages
      <4>1. /\ file[Super[c]].own \in SUBSET Messages
            /\ DOMAIN file[Super[c]].inherited \in SUBSET Messages
        BY <1>1, <1>2, <2>2 DEF Files
      <4> QED BY <4>1 DEF Keys
    <3>3. \A m \in D : Named(Super[c], m) \in Classes
                       /\ Level[Named(Super[c], m)] <= Level[Super[c]]
      BY <1>1, <2>2, NamedAbove
    <3> HIDE DEF D, new
    <3>4. new.inherited \in [D -> Classes]
      BY <3>1, <3>3
    <3>5. ASSUME NEW m \in D
          PROVE  Level[new.inherited[m]] <= Level[c]
      <4>1. new.inherited[m] = Named(Super[c], m)
        BY <3>1
      <4>2. Level[Super[c]] < Level[c] /\ Level[Super[c]] \in Nat /\ Level[c] \in Nat
        BY <1>1, <2>2, Levels
      <4>3. Level[Named(Super[c], m)] \in Nat
        BY <3>3, Levels
      <4> QED BY <3>3, <4>1, <4>2, <4>3
    <3> QED BY <2>2, <3>2, <3>4, <3>5
  <2> QED BY <2>1, <2>2
<1>4. new \in Files
  <2>1. new = [version |-> new.version, own |-> new.own, inherited |-> new.inherited]
    BY DEF Compiled
  <2> HIDE DEF new
  <2> QED BY <1>1, <1>3, <2>1 DEF Files
<1> QED BY <1>3, <1>4

LEMMA NextHolds == IInv /\ [Next]_vars => IInv'
<1> SUFFICES ASSUME IInv, [Next]_vars
             PROVE  IInv'
  OBVIOUS
<1>1. ASSUME NEW c \in Classes, NEW own \in SUBSET Messages, Compile(c, own)
      PROVE  IInv'
  <2> DEFINE new == Compiled(c, own)
  <2>1. /\ new.version \in Nat \ {0} /\ compiles' \in Nat
        /\ UNCHANGED <<objects, registry>>
        /\ c # Root => file[Super[c]] # None
    BY <1>1 DEF Compile, Compiled, IInv, Types
  <2>2. /\ c = Root => DOMAIN new.inherited = {}
        /\ \A m \in DOMAIN new.inherited : Level[new.inherited[m]] <= Level[c]
    BY <1>1, FileCompiled
  <2>3. new \in Files
    BY <1>1, FileCompiled
  <2>4. file' = [file EXCEPT ![c] = new] /\ file \in [Classes -> Files \union {None}]
    BY <1>1 DEF Compile, IInv, Types
  <2> HIDE DEF new
  <2>5. \A d \in Classes : file'[d] = IF d = c THEN new ELSE file[d]
    BY <2>4
  <2>6. new # None
    BY <2>3, NoneAssumption
  <2>7. Types'
    <3>1. file' \in [Classes -> Files \union {None}]
      BY <2>3, <2>4
    <3>2. \A d \in Classes : file'[d] # None => file'[d].version # 0
      BY <2>1, <2>5 DEF IInv, Types
    <3> QED BY <2>1, <3>1, <3>2 DEF IInv, Types
  <2>8. Chained' /\ Copied'
    BY <2>1 DEF IInv, Chained, Copied
  <2>9. NamesAbove'
    BY <2>1, <2>2, <2>5 DEF IInv, NamesAbove
  <2>10. Rooted'
    <3>1. \A d \in Classes \ {Root} : Super[d] \in Classes
      BY RootAssumption
    <3> QED BY <2>1, <2>2, <2>5, <2>6, <3>1 DEF IInv, Rooted
  <2> QED BY <2>7, <2>8, <2>9, <2>10 DEF IInv
<1>2. ASSUME NEW c \in Classes, Load(c)
      PROVE  IInv'
  <2> DEFINE o == Len(objects) + 1
  <2> USE <1>2
  <2>1. /\ NewClass(c) \in ClassObjects
        /\ DOMAIN objects' = DOMAIN objects \union {o}
        /\ o \notin DOMAIN objects /\ o \in Nat \ {0}
        /\ \A n \in DOMAIN objects : objects'[n] = objects[n]
        /\ objects'[o] = NewClass(c)
        /\ objects' \in Seq(ClassObjects)
        /\ \A n \in DOMAIN objects : n < o /\ n # 0
    BY Loaded
  <2>2. Loadable(c)
    BY DEF Load
  <2>3. /\ SuperOf(c) < o
        /\ SuperOf(c) = 0 <=> c = Root
        /\ SuperOf(c) # 0 => /\ SuperOf(c) \in DOMAIN objects
                             /\ objects[SuperOf(c)].class = Super[c]
    BY <2>1, <2>2, SuperLoaded DEF IInv, Types
  <2>4. /\ NewClass(c).class = c /\ NewClass(c).super = SuperOf(c)
    BY DEF NewClass
  <2>5. Types'
    BY <2>1, <2>4 DEF Load, IInv, Types
  <2>6. \A n \in DOMAIN objects : objects[n].super # 0 =>
          objects[n].super \in DOMAIN objects
    <3>1. ASSUME NEW n \in DOMAIN objects, objects[n].super # 0
          PROVE  objects[n].super \in DOMAIN objects
      <4>1. n \in 1 .. Len(objects) /\ objects[n] \in ClassObjects
        BY DEF IInv, Types
      <4>2. objects[n].super \in Nat /\ objects[n].super < n
        BY <4>1 DEF ClassObjects, IInv, Chained
      <4> QED BY <3>1, <4>1, <4>2 DEF IInv, Types
    <3> QED BY <3>1
  <2>7. Chained'
    <3>1. ASSUME NEW n \in DOMAIN objects
          PROVE  /\ objects'[n].super < n
                 /\ objects'[n].super = 0 <=> objects'[n].class = Root
                 /\ objects'[n].super # 0 =>
                      objects'[objects'[n].super].class = Super[objects'[n].class]
      BY <2>1, <2>6 DEF IInv, Chained
    <3>2. /\ objects'[o].super < o
          /\ objects'[o].super = 0 <=> objects'[o].class = Root
          /\ objects'[o].super # 0 =>
               objects'[objects'[o].super].class = Super[objects'[o].class]
      BY <2>1, <2>3, <2>4
    <3> QED BY <2>1, <3>1, <3>2 DEF Chained
  <2>8. Copied'
    <3>1. ASSUME NEW n \in DOMAIN objects
          PROVE  CopiedFrom(objects'[n], Above(objects', n))
      <4>1. objects'[n] = objects[n] /\ Above(objects', n) = Above(objects, n)
        BY <2>1, <2>6 DEF Above
      <4> QED BY <4>1 DEF IInv, Copied
    <3>2. CopiedFrom(objects'[o], Above(objects', o))
      <4>1. Above(objects', o) = TableOf(SuperOf(c))
        BY <2>1, <2>3, <2>4 DEF Above, TableOf
      <4> QED BY <2>1, <2>2, <4>1, TableLoaded
    <3> QED BY <2>1, <3>1, <3>2 DEF Copied
  <2>9. NamesAbove' /\ Rooted'
    <3>1. file' = file
      BY DEF Load
    <3>2. /\ DOMAIN objects'[o].table = Keys(file[c]) /\ objects'[o].class = c
          /\ \A m \in Keys(file[c]) : Level[objects'[o].table[m].class_id] <= Level[c]
      BY <2>1, <2>2, <2>4, TableLoaded
    <3> QED BY <2>1, <3>1, <3>2 DEF IInv, NamesAbove, Rooted
  <2> QED BY <2>5, <2>7, <2>8, <2>9 DEF IInv
<1>3. ASSUME NEW c \in Classes, Unload(c)
      PROVE  IInv'
  BY <1>3 DEF Unload, IInv, Types, Chained, Copied, NamesAbove, Rooted
<1>4. CASE UNCHANGED vars
  BY <1>4 DEF vars, IInv, Types, Chained, Copied, NamesAbove, Rooted
<1> QED BY <1>1, <1>2, <1>3, <1>4 DEF Next

(* The invariant holds in every state, whatever the hierarchy of classes.  *)
THEOREM Invariance == Spec => []IInv
<1> QED BY InitHolds, NextHolds, PTL DEF Spec

(***************************************************************************)
(* Up the chain of super classes                                           *)
(***************************************************************************)
LEMMA SuperBelow ==
  ASSUME IInv, NEW o \in DOMAIN objects
  PROVE  /\ o \in Nat /\ o # 0 /\ o \in Numbers
         /\ objects[o] \in ClassObjects
         /\ objects[o].super \in Numbers /\ objects[o].super < o
         /\ objects[o].super # 0 => objects[o].super \in DOMAIN objects
<1>1. o \in 1 .. Len(objects) /\ objects[o] \in ClassObjects
  BY DEF IInv, Types
<1>2. objects[o].super \in Nat /\ objects[o].super < o
  BY <1>1 DEF ClassObjects, IInv, Chained
<1> QED BY <1>1, <1>2 DEF IInv, Types, Numbers

(* A claim about every class object, and about 0 where there is none, may  *)
(* be made of an object when it is true of the super class: else there     *)
(* would be a least one it is false of.                                    *)
LEMMA Upwards ==
  ASSUME IInv, NEW Good \in SUBSET Numbers, 0 \in Good,
         \A o \in DOMAIN objects : objects[o].super \in Good => o \in Good
  PROVE  Good = Numbers
<1> DEFINE Bad == Numbers \ Good
<1>1. SUFFICES ASSUME Bad # {}
               PROVE  FALSE
  OBVIOUS
<1>2. Bad \subseteq Nat
  BY DEF Numbers, IInv, Types
<1>3. PICK o \in Bad : \A n \in Bad : o <= n
  <2> HIDE DEF Bad
  <2> QED BY <1>1, <1>2, LeastNat
<1>4. o \in DOMAIN objects
  BY <1>2, <1>3 DEF Numbers, IInv, Types
<1>5. objects[o].super \in Bad
  BY <1>3, <1>4, SuperBelow
<1> QED BY <1>2, <1>3, <1>4, <1>5, SuperBelow

(* A function computed upwards along the chain exists.                     *)
ComputedUp(f, z, step) ==
  f = [n \in Numbers |-> IF n = 0 THEN z ELSE step[n][f[objects[n].super]]]

LEMMA UpwardsDefined ==
  ASSUME IInv, NEW V, NEW z \in V, NEW step \in [1 .. Len(objects) -> [V -> V]]
  PROVE  \E f \in [Numbers -> V] : ComputedUp(f, z, step)
<1>1. Len(objects) \in Nat /\ DOMAIN objects = 1 .. Len(objects)
  BY DEF IInv, Types
<1> DEFINE down == [n \in 1 .. Len(objects) |-> objects[n].super]
<1>2. /\ down \in [1 .. Len(objects) -> Nat]
      /\ \A n \in 1 .. Len(objects) : down[n] < n /\ down[n] = objects[n].super
  BY <1>1, SuperBelow DEF Numbers
<1>3. PICK f \in [0 .. Len(objects) -> V] :
        /\ f[0] = z
        /\ \A n \in 1 .. Len(objects) : f[n] = step[n][f[down[n]]]
  <2> DEFINE N == Len(objects)
  <2>1. N \in Nat /\ down \in [1 .. N -> Nat] /\ step \in [1 .. N -> [V -> V]]
    BY <1>1, <1>2
  <2>2. \A n \in 1 .. N : down[n] < n
    BY <1>2
  <2> HIDE DEF down, N
  <2>3. \E f \in [0 .. N -> V] : Computes(f, N, z, down, step)
    BY <2>1, <2>2, ChainRecursion
  <2> QED BY <2>3 DEF N, Computes
<1>4. \A n \in Numbers : f[n] = IF n = 0 THEN z ELSE step[n][f[objects[n].super]]
  BY <1>1, <1>2, <1>3 DEF Numbers
<1> QED BY <1>3, <1>4 DEF Numbers, ComputedUp

(* What Search computes.                                                   *)
LEMMA SearchClimbs ==
  ASSUME IInv, NEW m
  PROVE  /\ Search(0, m) = None
         /\ \A o \in DOMAIN objects :
              Search(o, m) = IF m \in DOMAIN objects[o].table
                               THEN objects[o].table[m]
                               ELSE Search(objects[o].super, m)
<1> DEFINE V == Entries \union {None}
           Body(f) == [n \in Numbers |->
                         IF n = 0 THEN None
                         ELSE IF m \in DOMAIN objects[n].table THEN objects[n].table[m]
                         ELSE f[objects[n].super]]
           at == CHOOSE f : f = Body(f)
           step == [n \in 1 .. Len(objects) |->
                      [v \in V |-> IF m \in DOMAIN objects[n].table
                                     THEN objects[n].table[m] ELSE v]]
<1>1. \A n \in 1 .. Len(objects) : m \in DOMAIN objects[n].table =>
                                     objects[n].table[m] \in V
  <2>1. \A n \in DOMAIN objects : objects[n].table \in Tables
    BY SuperBelow DEF ClassObjects
  <2> QED BY <2>1 DEF Tables, IInv, Types
<1>2. step \in [1 .. Len(objects) -> [V -> V]]
  BY <1>1
<1>3. PICK f \in [Numbers -> V] : ComputedUp(f, None, step)
  <2> HIDE DEF step, V
  <2>1. None \in V
    BY DEF V
  <2> QED BY <1>2, <2>1, UpwardsDefined
<1>4. \A n \in Numbers \ {0} : n \in DOMAIN objects /\ objects[n].super \in Numbers
  BY SuperBelow DEF Numbers, IInv, Types
<1>5. f = Body(f)
  <2>1. ASSUME NEW n \in Numbers \ {0}
        PROVE  f[n] = IF m \in DOMAIN objects[n].table THEN objects[n].table[m]
                      ELSE f[objects[n].super]
    <3> DEFINE v == f[objects[n].super]
    <3>1. n \in 1 .. Len(objects) /\ v \in V
      <4> HIDE DEF V
      <4> QED BY <1>4 DEF Numbers, IInv, Types
    <3>2. f[n] = step[n][v]
      BY <1>3, Zenon DEF ComputedUp
    <3> HIDE DEF V, v
    <3>3. step[n][v] = IF m \in DOMAIN objects[n].table THEN objects[n].table[m]
                       ELSE v
      BY <3>1
    <3> QED BY <3>2, <3>3 DEF v
  <2>2. f[0] = None
    BY <1>3 DEF Numbers, IInv, Types, ComputedUp
  <2> QED BY <1>3, <2>1, <2>2
<1>6. at = Body(at)
  <2> HIDE DEF Body
  <2> QED BY <1>5
<1>7. \A o : Search(o, m) = at[o]
  BY DEF Search
<1> HIDE DEF at
<1>8. \A n \in Numbers : at[n] = IF n = 0 THEN None
                         ELSE IF m \in DOMAIN objects[n].table THEN objects[n].table[m]
                         ELSE at[objects[n].super]
  BY <1>6
<1>9. 0 \in Numbers /\ \A o \in DOMAIN objects : o \in Numbers /\ o # 0
  BY SuperBelow DEF Numbers, IInv, Types
<1> QED BY <1>7, <1>8, <1>9

(* What Nearest computes.                                                  *)
LEMMA NearestClimbs ==
  ASSUME IInv, NEW m
  PROVE  /\ Nearest(0, m) = 0
         /\ \A o \in DOMAIN objects :
              Nearest(o, m) = IF m \in objects[o].own THEN o
                              ELSE Nearest(objects[o].super, m)
<1> DEFINE Body(f) == [n \in Numbers |->
                         IF n = 0 \/ m \in objects[n].own THEN n
                         ELSE f[objects[n].super]]
           at == CHOOSE f : f = Body(f)
           step == [n \in 1 .. Len(objects) |->
                      [v \in Numbers |-> IF m \in objects[n].own THEN n ELSE v]]
<1>1. 1 .. Len(objects) \subseteq Numbers /\ 0 \in Numbers
  BY DEF Numbers, IInv, Types
<1>2. step \in [1 .. Len(objects) -> [Numbers -> Numbers]]
  BY <1>1
<1>3. PICK f \in [Numbers -> Numbers] : ComputedUp(f, 0, step)
  <2> HIDE DEF step
  <2> QED BY <1>1, <1>2, UpwardsDefined
<1>4. \A n \in Numbers \ {0} : n \in DOMAIN objects /\ objects[n].super \in Numbers
  BY SuperBelow DEF Numbers, IInv, Types
<1>5. f = Body(f)
  <2>1. ASSUME NEW n \in Numbers \ {0}
        PROVE  f[n] = IF m \in objects[n].own THEN n ELSE f[objects[n].super]
    <3> DEFINE v == f[objects[n].super]
    <3>1. n \in 1 .. Len(objects) /\ v \in Numbers
      BY <1>4 DEF IInv, Types
    <3>2. f[n] = step[n][v]
      BY <1>3, Zenon DEF ComputedUp
    <3> HIDE DEF v
    <3>3. step[n][v] = IF m \in objects[n].own THEN n ELSE v
      BY <3>1
    <3> QED BY <3>2, <3>3 DEF v
  <2>2. f[0] = 0
    BY <1>1, <1>3 DEF ComputedUp
  <2> QED BY <1>3, <2>1, <2>2
<1>6. at = Body(at)
  <2> HIDE DEF Body
  <2> QED BY <1>5
<1>7. \A o : Nearest(o, m) = at[o]
  BY DEF Nearest
<1> HIDE DEF at
<1>8. \A n \in Numbers : at[n] = IF n = 0 \/ m \in objects[n].own THEN n
                                 ELSE at[objects[n].super]
  BY <1>6
<1>9. 0 \in Numbers /\ \A o \in DOMAIN objects : o \in Numbers /\ o # 0
  BY <1>1, SuperBelow
<1> QED BY <1>7, <1>8, <1>9

(* What Ancestry computes.                                                 *)
LEMMA AncestryClimbs ==
  ASSUME IInv
  PROVE  /\ Ancestry(0) = {}
         /\ \A o \in DOMAIN objects :
              Ancestry(o) = {o} \union Ancestry(objects[o].super)
<1> DEFINE V == SUBSET Numbers
           Body(f) == [n \in Numbers |-> IF n = 0 THEN {}
                                         ELSE {n} \union f[objects[n].super]]
           at == CHOOSE f : f = Body(f)
           step == [n \in 1 .. Len(objects) |-> [v \in V |-> {n} \union v]]
<1>1. 1 .. Len(objects) \subseteq Numbers /\ 0 \in Numbers
  BY DEF Numbers, IInv, Types
<1>2. step \in [1 .. Len(objects) -> [V -> V]]
  BY <1>1
<1>3. PICK f \in [Numbers -> V] : ComputedUp(f, {}, step)
  <2> HIDE DEF step, V
  <2>1. {} \in V
    BY DEF V
  <2> QED BY <1>2, <2>1, UpwardsDefined
<1>4. \A n \in Numbers \ {0} : n \in DOMAIN objects /\ objects[n].super \in Numbers
  BY SuperBelow DEF Numbers, IInv, Types
<1>5. f = Body(f)
  <2>1. ASSUME NEW n \in Numbers \ {0}
        PROVE  f[n] = {n} \union f[objects[n].super]
    <3> DEFINE v == f[objects[n].super]
    <3>1. n \in 1 .. Len(objects) /\ v \in V
      <4> HIDE DEF V
      <4> QED BY <1>4 DEF IInv, Types
    <3>2. f[n] = step[n][v]
      BY <1>3, Zenon DEF ComputedUp
    <3> HIDE DEF V, v
    <3>3. step[n][v] = {n} \union v
      BY <3>1
    <3> QED BY <3>2, <3>3 DEF v
  <2>2. f[0] = {}
    BY <1>1, <1>3 DEF ComputedUp
  <2> QED BY <1>3, <2>1, <2>2
<1>6. at = Body(at)
  <2> HIDE DEF Body
  <2> QED BY <1>5
<1>7. \A o : Ancestry(o) = at[o]
  BY DEF Ancestry
<1> HIDE DEF at
<1>8. \A n \in Numbers : at[n] = IF n = 0 THEN {}
                                 ELSE {n} \union at[objects[n].super]
  BY <1>6
<1>9. 0 \in Numbers /\ \A o \in DOMAIN objects : o \in Numbers /\ o # 0
  BY <1>1, SuperBelow
<1> QED BY <1>7, <1>8, <1>9

(***************************************************************************)
(* What a message runs                                                     *)
(***************************************************************************)

(* A search finds an entry, and one that names a class above.              *)
LEMMA SearchFinds ==
  ASSUME IInv, NEW o \in Numbers, NEW m, Search(o, m) # None
  PROVE  /\ o \in DOMAIN objects /\ Search(o, m) \in Entries
         /\ Search(o, m).class_id \in Classes
         /\ Level[Search(o, m).class_id] <= Level[objects[o].class]
<1> DEFINE Right(n) == /\ n \in DOMAIN objects /\ Search(n, m) \in Entries
                       /\ Search(n, m).class_id \in Classes
                       /\ Level[Search(n, m).class_id] <= Level[objects[n].class]
           Good == {n \in Numbers : Search(n, m) # None => Right(n)}
<1>1. 0 \in Good
  BY SearchClimbs DEF Numbers, IInv, Types
<1>2. ASSUME NEW n \in DOMAIN objects, objects[n].super \in Good
      PROVE  n \in Good
  <2> DEFINE s == objects[n].super
  <2>1. SUFFICES ASSUME Search(n, m) # None
                 PROVE  Right(n)
    BY SuperBelow
  <2>2. CASE m \in DOMAIN objects[n].table
    <3>1. Search(n, m) = objects[n].table[m]
      BY <2>2, SearchClimbs
    <3>2. Search(n, m) \in Entries
      <4>1. objects[n].table \in Tables
        BY SuperBelow DEF ClassObjects
      <4> QED BY <2>2, <3>1, <4>1 DEF Tables
    <3>3. Level[Search(n, m).class_id] <= Level[objects[n].class]
      BY <2>2, <3>1 DEF IInv, NamesAbove
    <3> QED BY <3>2, <3>3 DEF Entries
  <2>3. CASE m \notin DOMAIN objects[n].table
    <3>1. Search(n, m) = Search(s, m)
      BY <2>3, SearchClimbs
    <3>2. Right(s)
      BY <1>2, <2>1, <3>1
    <3>3. s \in DOMAIN objects /\ s # 0
      BY <3>2, SuperBelow
    <3>4. /\ objects[n].class # Root /\ objects[s].class = Super[objects[n].class]
          /\ objects[n].class \in Classes
      BY <3>3, SuperBelow DEF IInv, Chained, ClassObjects
    <3>5. /\ Level[objects[s].class] \in Nat /\ Level[objects[n].class] \in Nat
          /\ Level[objects[s].class] < Level[objects[n].class]
          /\ Level[Search(s, m).class_id] \in Nat
      BY <3>2, <3>4, Levels
    <3> QED BY <3>1, <3>2, <3>5
  <2> QED BY <2>2, <2>3
<1>3. Good = Numbers
  <2>1. Good \in SUBSET Numbers
    OBVIOUS
  <2> HIDE DEF Good
  <2> QED BY <1>1, <1>2, <2>1, Upwards
<1> QED BY <1>3

(* The ancestors of an ancestor are ancestors, and not younger than it.    *)
LEMMA AncestorsOrdered ==
  ASSUME IInv, NEW o \in Numbers
  PROVE  \A p \in Ancestry(o) : /\ p \in DOMAIN objects /\ p <= o
                                /\ Ancestry(p) \subseteq Ancestry(o)
<1> DEFINE Good == {n \in Numbers :
                      \A p \in Ancestry(n) : /\ p \in DOMAIN objects /\ p <= n
                                             /\ Ancestry(p) \subseteq Ancestry(n)}
<1>1. 0 \in Good
  BY AncestryClimbs DEF Numbers, IInv, Types
<1>2. ASSUME NEW n \in DOMAIN objects, objects[n].super \in Good
      PROVE  n \in Good
  <2>1. Ancestry(n) = {n} \union Ancestry(objects[n].super)
    BY AncestryClimbs
  <2>2. \A p \in Ancestry(objects[n].super) : p <= n /\ p \in DOMAIN objects
    <3>1. ASSUME NEW p \in Ancestry(objects[n].super)
          PROVE  p <= n /\ p \in DOMAIN objects
      <4>1. p \in DOMAIN objects /\ p <= objects[n].super
        BY <1>2
      <4>2. objects[n].super < n
        BY SuperBelow
      <4> QED BY <4>1, <4>2, SuperBelow DEF Numbers, IInv, Types
    <3> QED BY <3>1
  <2>3. n <= n /\ n \in Numbers
    BY SuperBelow
  <2> QED BY <1>2, <2>1, <2>2, <2>3
<1>3. Good = Numbers
  <2>1. Good \in SUBSET Numbers
    OBVIOUS
  <2> HIDE DEF Good
  <2> QED BY <1>1, <1>2, <2>1, Upwards
<1> QED BY <1>3

(* The nearest definition is in an ancestor, or there is none.             *)
LEMMA NearestAmong ==
  ASSUME IInv, NEW o \in Numbers, NEW m
  PROVE  Nearest(o, m) = 0 \/ Nearest(o, m) \in Ancestry(o)
<1> DEFINE Good == {n \in Numbers : Nearest(n, m) = 0 \/ Nearest(n, m) \in Ancestry(n)}
<1>1. 0 \in Good
  BY NearestClimbs DEF Numbers, IInv, Types
<1>2. ASSUME NEW n \in DOMAIN objects, objects[n].super \in Good
      PROVE  n \in Good
  BY <1>2, SuperBelow, NearestClimbs, AncestryClimbs
<1>3. Good = Numbers
  <2>1. Good \in SUBSET Numbers
    OBVIOUS
  <2> HIDE DEF Good
  <2> QED BY <1>1, <1>2, <2>1, Upwards
<1> QED BY <1>3

(* Where link found nothing is passed on to the sub classes.               *)
LEMMA MissedClimbs ==
  ASSUME IInv, NEW m
  PROVE  \A o \in DOMAIN objects :
           Missed(o, m) <=> /\ m \notin objects[o].own
                            /\ \/ /\ m \in DOMAIN objects[o].table
                                  /\ m \notin DOMAIN TableOf(objects[o].super)
                               \/ Missed(objects[o].super, m)
<1> SUFFICES ASSUME NEW o \in DOMAIN objects
             PROVE  Missed(o, m) <=> /\ m \notin objects[o].own
                                     /\ \/ /\ m \in DOMAIN objects[o].table
                                           /\ m \notin DOMAIN TableOf(objects[o].super)
                                        \/ Missed(objects[o].super, m)
  OBVIOUS
<1> DEFINE s == objects[o].super
           Bare(n) == /\ m \in DOMAIN objects[n].table
                      /\ m \notin DOMAIN TableOf(objects[n].super)
<1>1. /\ o \in Nat /\ o \in Numbers /\ s \in Nat /\ s \in Numbers /\ s < o
      /\ Ancestry(o) = {o} \union Ancestry(s)
      /\ Nearest(o, m) = IF m \in objects[o].own THEN o ELSE Nearest(s, m)
  <2>1. o \in Nat /\ o \in Numbers /\ s \in Nat /\ s \in Numbers /\ s < o
    BY SuperBelow DEF Numbers
  <2> QED BY <2>1, AncestryClimbs, NearestClimbs
<1>2. \A n \in Ancestry(o) : n \in Nat /\ n <= o
  BY <1>1, AncestorsOrdered, SuperBelow
<1>3. \A n \in Numbers : Missed(n, m) <=> \E k \in Ancestry(n) : k > Nearest(n, m) /\ Bare(k)
  BY Zenon DEF Missed
<1> HIDE DEF Bare
<1>4. CASE m \in objects[o].own
  <2>1. \A n \in Ancestry(o) : ~(n > Nearest(o, m))
    BY <1>1, <1>2, <1>4
  <2> QED BY <1>1, <1>3, <1>4, <2>1
<1>5. CASE m \notin objects[o].own
  <2>1. Nearest(s, m) \in Nat /\ Nearest(s, m) <= s
    <3>1. Nearest(s, m) = 0 \/ Nearest(s, m) \in Ancestry(s)
      BY <1>1, NearestAmong
    <3> QED BY <1>1, <3>1, AncestorsOrdered, SuperBelow
  <2>2. o > Nearest(o, m) /\ Nearest(o, m) = Nearest(s, m)
    BY <1>1, <1>5, <2>1
  <2>3. Missed(o, m) <=> Bare(o) \/ Missed(s, m)
    BY <1>1, <1>3, <2>2
  <2> QED BY <1>5, <2>3 DEF Bare
<1> QED BY <1>4, <1>5

(* The entry a search finds is the one of the nearest class that defines   *)
(* the message; it has no code if it was not linked on the way down.       *)
FindsWell(n, m) ==
  IF Missed(n, m) THEN Search(n, m).offset = NoCode
  ELSE /\ Nearest(n, m) \in DOMAIN objects \intersect Ancestry(n)
       /\ Search(n, m).class_id = objects[Nearest(n, m)].class
       /\ Search(n, m).offset = objects[Nearest(n, m)].version

LEMMA SearchFindsNearest ==
  ASSUME IInv, NEW o \in Numbers, NEW m, Search(o, m) # None
  PROVE  FindsWell(o, m)
<1> DEFINE Good == {n \in Numbers : Search(n, m) # None => FindsWell(n, m)}
<1>1. 0 \in Good
  BY SearchClimbs DEF Numbers, IInv, Types
<1>2. ASSUME NEW n \in DOMAIN objects, objects[n].super \in Good
      PROVE  n \in Good
  <2> DEFINE s == objects[n].super
             e == objects[n].table[m]
  <2>1. SUFFICES ASSUME Search(n, m) # None
                 PROVE  FindsWell(n, m)
    BY SuperBelow
  <2>2. /\ Ancestry(n) = {n} \union Ancestry(s)
        /\ Nearest(n, m) = IF m \in objects[n].own THEN n ELSE Nearest(s, m)
        /\ Search(n, m) = IF m \in DOMAIN objects[n].table THEN e ELSE Search(s, m)
        /\ Missed(n, m) <=> /\ m \notin objects[n].own
                            /\ \/ /\ m \in DOMAIN objects[n].table
                                  /\ m \notin DOMAIN TableOf(s)
                               \/ Missed(s, m)
    BY SearchClimbs, NearestClimbs, AncestryClimbs, MissedClimbs
  <2>3. CopiedFrom(objects[n], TableOf(s))
    BY DEF IInv, Copied, Above, TableOf
  <2>4. CASE m \in objects[n].own
    <3>1. e = Entry(objects[n].class, objects[n].version, FALSE)
          /\ m \in DOMAIN objects[n].table
      BY <2>3, <2>4 DEF CopiedFrom
    <3> QED BY <2>2, <2>4, <3>1 DEF Entry, FindsWell
  <2>5. CASE m \notin objects[n].own /\ m \in DOMAIN objects[n].table
    <3>1. CASE m \notin DOMAIN TableOf(s)
      BY <2>2, <2>3, <2>5, <3>1 DEF CopiedFrom, Given, FindsWell
    <3>2. CASE m \in DOMAIN TableOf(s)
      <4>1. e = [TableOf(s)[m] EXCEPT !.super = TRUE]
        BY <2>3, <2>5, <3>2 DEF CopiedFrom, Given
      <4>2. s \in DOMAIN objects /\ TableOf(s) = objects[s].table
        BY <3>2, SuperBelow DEF TableOf
      <4>3. Search(s, m) = objects[s].table[m] /\ objects[s].table[m] \in Entries
        <5>1. objects[s].table \in Tables
          BY <4>2, SuperBelow DEF ClassObjects
        <5> QED BY <3>2, <4>2, <5>1, SearchClimbs DEF Tables
      <4>4. Search(s, m) # None
        BY <4>3, NoneAssumption
      <4>5. FindsWell(s, m)
        BY <1>2, <4>4
      <4>6. e.class_id = Search(s, m).class_id /\ e.offset = Search(s, m).offset
        BY <4>1, <4>2, <4>3 DEF Entries
      <4>7. Search(n, m) = e /\ Nearest(n, m) = Nearest(s, m)
            /\ (Missed(n, m) <=> Missed(s, m))
        BY <2>2, <2>5, <3>2
      <4> QED BY <2>2, <4>5, <4>6, <4>7 DEF FindsWell
    <3> QED BY <3>1, <3>2
  <2>6. CASE m \notin DOMAIN objects[n].table
    <3>1. m \notin objects[n].own
      BY <2>3, <2>6 DEF CopiedFrom
    <3>2. FindsWell(s, m)
      BY <1>2, <2>1, <2>2, <2>6
    <3>3. Search(n, m) = Search(s, m) /\ Nearest(n, m) = Nearest(s, m)
          /\ (Missed(n, m) <=> Missed(s, m))
      BY <2>2, <2>6, <3>1
    <3> QED BY <2>2, <3>2, <3>3 DEF FindsWell
  <2> QED BY <2>4, <2>5, <2>6
<1>3. Good = Numbers
  <2>1. Good \in SUBSET Numbers
    OBVIOUS
  <2> HIDE DEF Good
  <2> QED BY <1>1, <1>2, <2>1, Upwards
<1> QED BY <1>3

(* What a message that is resolved has found.                              *)
LEMMA ResolvedMeans ==
  ASSUME IInv, NEW o \in Numbers, NEW m, NEW c, c = Context(Search(o, m)),
         c # Unresolved
  PROVE  LET n == Nearest(o, m)
         IN /\ c.klass \in DOMAIN objects
            /\ objects[c.klass].class = Search(o, m).class_id
            /\ IF Missed(o, m) THEN c.ip = NoCode
               ELSE /\ n \in DOMAIN objects /\ n \in Ancestry(o)
                    /\ c.klass = registry[objects[n].class]
                    /\ objects[c.klass].class = objects[n].class
                    /\ c.ip = objects[n].version
<1> DEFINE e == Search(o, m)
           n == Nearest(o, m)
<1>1. e # None /\ registry[e.class_id] # 0
      /\ c = [klass |-> registry[e.class_id], ip |-> e.offset]
  BY DEF Context
<1>2. FindsWell(o, m) /\ e.class_id \in Classes
  BY <1>1, SearchFindsNearest, SearchFinds
<1>3. c.klass \in DOMAIN objects /\ objects[c.klass].class = e.class_id
  BY <1>1, <1>2 DEF IInv, Types
<1>4. CASE Missed(o, m)
  BY <1>1, <1>2, <1>3, <1>4 DEF FindsWell
<1>5. CASE ~Missed(o, m)
  <2>1. /\ n \in DOMAIN objects \intersect Ancestry(o)
        /\ e.class_id = objects[n].class /\ e.offset = objects[n].version
    BY <1>2, <1>5 DEF FindsWell
  <2> QED BY <1>1, <1>3, <1>5, <2>1
<1> QED BY <1>4, <1>5

(* The method a message is sent to is that of the nearest class that       *)
(* defines it, at its place in the version that was linked; or none, where *)
(* link found nothing.                                                     *)
THEOREM MessagesRunNearest == Spec => []RunsNearest
<1>1. ASSUME IInv PROVE RunsNearest
  <2> SUFFICES ASSUME NEW o \in DOMAIN objects, NEW m \in Messages, Resolved(o, m)
               PROVE  LET n  == Nearest(o, m)
                          to == message(o, m)
                      IN IF Missed(o, m) THEN to.ip = NoCode
                         ELSE /\ n # 0
                              /\ objects[to.klass].class = objects[n].class
                              /\ to.ip = objects[n].version
    BY Zenon DEF RunsNearest
  <2> QED BY <1>1, ResolvedMeans, SuperBelow DEF Resolved, message
<1> QED BY <1>1, Invariance, PTL

(* The offset a method starts at is one of the bytecode it starts in,      *)
(* unless a class was loaded again in another version, or link found       *)
(* nothing.                                                                *)
THEOREM OffsetsMatchCode == Spec => []CodeMatches
<1>1. ASSUME IInv PROVE CodeMatches
  <2> SUFFICES ASSUME NEW o \in DOMAIN objects, NEW m \in Messages,
                      Resolved(o, m), ~Replaced(o), ~Missed(o, m)
               PROVE  message(o, m).ip = objects[message(o, m).klass].version
    BY DEF CodeMatches
  <2> DEFINE n == Nearest(o, m)
  <2>1. /\ n \in DOMAIN objects /\ n \in Ancestry(o)
        /\ message(o, m).klass = registry[objects[n].class]
        /\ message(o, m).klass \in DOMAIN objects
        /\ message(o, m).ip = objects[n].version
    BY <1>1, ResolvedMeans, SuperBelow DEF Resolved, message
  <2> HIDE DEF n
  <2>2. registry[objects[n].class] # 0
    BY <1>1, <2>1, SuperBelow
  <2> QED BY <2>1, <2>2 DEF Replaced
<1> QED BY <1>1, Invariance, PTL

(***************************************************************************)
(* Messages to super                                                       *)
(***************************************************************************)

(* A message to super never runs a method of the class that sent it, and   *)
(* so a chain of them climbs from class to class.                          *)
THEOREM SuperClimbs == Spec => []SuperSendsClimb
<1>1. ASSUME IInv PROVE SuperSendsClimb
  <2> SUFFICES ASSUME NEW o \in DOMAIN objects,
                      NEW m \in Messages, NEW n \in Messages,
                      message(o, m) # Unresolved,
                      message_super(message(o, m), n) # Unresolved
               PROVE  objects[message_super(message(o, m), n).klass].class
                        # objects[message(o, m).klass].class
    BY DEF SuperSendsClimb
  <2> DEFINE k == message(o, m).klass
             s == objects[k].super
             to == message_super(message(o, m), n)
  <2>1. k \in DOMAIN objects
    BY <1>1, ResolvedMeans, SuperBelow DEF message
  <2>2. s \in Numbers /\ to = Context(Search(s, n))
    BY <1>1, <2>1, SuperBelow DEF message_super
  <2> HIDE DEF k
  <2>3. objects[to.klass].class = Search(s, n).class_id /\ Search(s, n) # None
    BY <1>1, <2>2, ResolvedMeans DEF Context
  <2>4. /\ s \in DOMAIN objects /\ s # 0 /\ Search(s, n).class_id \in Classes
        /\ Level[Search(s, n).class_id] <= Level[objects[s].class]
    BY <1>1, <2>2, <2>3, SearchFinds, SuperBelow
  <2>5. /\ objects[k].class # Root /\ objects[s].class = Super[objects[k].class]
        /\ objects[k].class \in Classes
    BY <1>1, <2>1, <2>4, SuperBelow DEF IInv, Chained, ClassObjects
  <2>6. /\ Level[objects[s].class] \in Nat /\ Level[objects[k].class] \in Nat
        /\ Level[objects[s].class] < Level[objects[k].class]
        /\ Level[Search(s, n).class_id] \in Nat
    BY <2>4, <2>5, Levels
  <2>7. Search(s, n).class_id # objects[k].class
    BY <2>4, <2>6
  <2> QED BY <2>3, <2>7 DEF k
<1> QED BY <1>1, Invariance, PTL

(***************************************************************************)
(* As long as every class is compiled once                                 *)
(***************************************************************************)
Done == {c \in Classes : file[c] # None}

(* Super classes are compiled first, and a class object has a file.        *)
Filed ==
  /\ IsFiniteSet(Done)
  /\ Cardinality(Done) <= compiles
  /\ \A c \in Done : c # Root => Super[c] \in Done
  /\ \A o \in DOMAIN objects : objects[o].class \in Done

(* With one version of each class, a file has the keys of its super class's*)
(* file and its own, a class object those of its file, and nothing is left *)
(* unlinked: an entry has the place of its method.                         *)
KeysInherited(c) ==
  /\ c = Root => Keys(file[c]) \subseteq file[c].own
  /\ c # Root => /\ Keys(file[Super[c]]) \subseteq Keys(file[c])
                 /\ Keys(file[c]) \subseteq Keys(file[Super[c]]) \union file[c].own

FirstVersions ==
  /\ \A c \in Done : KeysInherited(c)
  /\ \A o \in DOMAIN objects :
       /\ DOMAIN objects[o].table = Keys(file[objects[o].class])
       /\ \A m \in DOMAIN objects[o].table : objects[o].table[m].offset # 0

Current == compiles = Cardinality(Done) => FirstVersions

CInv == IInv /\ Filed /\ Current

LEMMA CurrentInit == Init => CInv
<1> SUFFICES ASSUME Init
             PROVE  CInv
  OBVIOUS
<1>1. Done = {}
  BY DEF Done, Init
<1>2. IsFiniteSet(Done) /\ Cardinality(Done) = 0
  BY <1>1, FS_EmptySet
<1> QED BY <1>1, <1>2, InitHolds DEF Init, CInv, Filed, Current, FirstVersions

(* The table a class is loaded with while there is one version of each.    *)
LEMMA FirstLoaded ==
  ASSUME CInv, FirstVersions, NEW c \in Classes, Loadable(c)
  PROVE  /\ DOMAIN NewClass(c).table = Keys(file[c])
         /\ \A m \in Keys(file[c]) : NewClass(c).table[m].offset # 0
<1> DEFINE s == SuperOf(c)
           above == TableOf(s)
           k == NewClass(c)
<1>1. /\ k.table \in [Keys(file[c]) -> Entries] /\ k \in ClassObjects
      /\ CopiedFrom(k, above)
      /\ \A m \in DOMAIN above \ file[c].own :
           m \in Keys(file[c]) => k.table[m] = [above[m] EXCEPT !.super = TRUE]
  BY TableLoaded DEF CInv
<1>2. k.own = file[c].own /\ k.version = file[c].version /\ c \in Done
  BY DEF NewClass, Loadable, Done
<1>3. \A m \in file[c].own : k.table[m].offset # 0
  BY <1>1, <1>2 DEF CopiedFrom, Entry, ClassObjects
<1>4. ASSUME NEW m \in Keys(file[c]) \ file[c].own
      PROVE  k.table[m].offset # 0
  <2>1. c # Root /\ m \in Keys(file[Super[c]])
    BY <1>2, <1>4 DEF FirstVersions, KeysInherited
  <2>2. s \in DOMAIN objects /\ objects[s].class = Super[c] /\ s # 0
    BY <2>1, SuperLoaded DEF CInv
  <2>3. above = objects[s].table /\ m \in DOMAIN above /\ above[m].offset # 0
    BY <2>1, <2>2 DEF FirstVersions, TableOf
  <2>4. above[m] \in Entries
    BY <2>2, <2>3, SuperBelow DEF CInv, ClassObjects, Tables
  <2>5. k.table[m] = [above[m] EXCEPT !.super = TRUE]
    BY <1>1, <1>4, <2>3
  <2> HIDE DEF above, k
  <2> QED BY <2>3, <2>4, <2>5 DEF Entries
<1> QED BY <1>1, <1>3, <1>4

LEMMA CurrentNext == CInv /\ [Next]_vars => CInv'
<1> SUFFICES ASSUME CInv, [Next]_vars
             PROVE  CInv'
  OBVIOUS
<1>1. IInv'
  BY NextHolds DEF CInv
<1>2. ASSUME NEW c \in Classes, NEW own \in SUBSET Messages, Compile(c, own)
      PROVE  CInv'
  <2>1. /\ file' = [file EXCEPT ![c] = Compiled(c, own)]
        /\ compiles' = compiles + 1 /\ objects' = objects
        /\ c # Root => Super[c] \in Done
        /\ compiles \in Nat
    BY <1>2, RootAssumption DEF Compile, Done, CInv, IInv, Types
  <2>2. Compiled(c, own) # None
    BY <1>2, FileCompiled, NoneAssumption DEF CInv
  <2>3. Done' = Done \union {c}
    BY <2>1, <2>2 DEF Done, CInv, IInv, Types
  <2>4. /\ IsFiniteSet(Done') /\ Cardinality(Done) \in Nat
        /\ Cardinality(Done') = IF c \in Done THEN Cardinality(Done)
                                ELSE Cardinality(Done) + 1
    BY <2>3, FS_AddElement, FS_CardinalityType DEF CInv, Filed
  <2>5. Filed'
    <3>1. Cardinality(Done') <= compiles'
      BY <2>1, <2>4 DEF CInv, Filed
    <3> QED BY <2>1, <2>3, <2>4, <3>1 DEF CInv, Filed
  <2>6. ASSUME compiles' = Cardinality(Done')
        PROVE  FirstVersions'
    <3>1. c \notin Done /\ compiles = Cardinality(Done)
      BY <2>1, <2>4, <2>6 DEF CInv, Filed
    <3>2. FirstVersions
      BY <3>1 DEF CInv, Current
    <3>3. \A d \in Done : d # c /\ file'[d] = file[d]
      BY <2>1, <3>1 DEF CInv, IInv, Types
    <3>4. ASSUME NEW d \in Done
          PROVE  KeysInherited(d)'
      <4>1. KeysInherited(d)
        BY <3>2 DEF FirstVersions
      <4>2. d # Root => Super[d] \in Done
        BY DEF CInv, Filed
      <4> QED BY <3>3, <4>1, <4>2 DEF KeysInherited, Keys
    <3>5. \A d : d = c => KeysInherited(d)'
      <4>1. file'[c] = Compiled(c, own)
        BY <2>1 DEF CInv, IInv, Types
      <4>2. c # Root => file'[Super[c]] = file[Super[c]]
        BY <2>1, <3>3
      <4> QED BY <4>1, <4>2 DEF KeysInherited, Keys, Compiled
    <3>6. ASSUME NEW o \in DOMAIN objects
          PROVE  /\ DOMAIN objects'[o].table = Keys(file[objects[o].class])'
                 /\ \A m \in DOMAIN objects'[o].table : objects'[o].table[m].offset # 0
      <4>1. objects[o].class \in Done
        BY DEF CInv, Filed
      <4> QED BY <2>1, <3>2, <3>3, <4>1 DEF FirstVersions, Keys
    <3> QED BY <2>1, <2>3, <3>4, <3>5, <3>6 DEF FirstVersions
  <2> QED BY <1>1, <2>5, <2>6 DEF CInv, Current
<1>3. ASSUME NEW c \in Classes, Load(c)
      PROVE  CInv'
  <2> DEFINE o == Len(objects) + 1
  <2>1. /\ DOMAIN objects' = DOMAIN objects \union {o}
        /\ \A n \in DOMAIN objects : objects'[n] = objects[n]
        /\ objects'[o] = NewClass(c)
    BY <1>3, Loaded DEF CInv
  <2>2. file' = file /\ compiles' = compiles /\ Done' = Done
    BY <1>3 DEF Load, Done
  <2>3. NewClass(c).class = c /\ c \in Done /\ Loadable(c)
    BY <1>3 DEF NewClass, Load, Loadable, Done
  <2> HIDE DEF o
  <2>4. Filed'
    BY <2>1, <2>2, <2>3 DEF CInv, Filed
  <2>5. ASSUME FirstVersions
        PROVE  FirstVersions'
    <3>1. \A d \in Done : KeysInherited(d)'
      BY <2>2, <2>5 DEF FirstVersions, KeysInherited, Keys
    <3>2. ASSUME NEW n \in DOMAIN objects
          PROVE  /\ DOMAIN objects'[n].table = Keys(file'[objects'[n].class])
                 /\ \A m \in DOMAIN objects'[n].table : objects'[n].table[m].offset # 0
      BY <2>1, <2>2, <2>5 DEF FirstVersions
    <3>3. /\ DOMAIN objects'[o].table = Keys(file'[objects'[o].class])
          /\ \A m \in DOMAIN objects'[o].table : objects'[o].table[m].offset # 0
      BY <2>1, <2>2, <2>3, <2>5, FirstLoaded
    <3> QED BY <2>1, <2>2, <3>1, <3>2, <3>3 DEF FirstVersions, Keys
  <2> QED BY <1>1, <2>2, <2>4, <2>5 DEF CInv, Current
<1>4. CASE UNCHANGED <<compiles, file, objects>>
  BY <1>1, <1>4 DEF CInv, Filed, Done, Current, FirstVersions, KeysInherited, Keys
<1> QED BY <1>2, <1>3, <1>4 DEF Next, Unload, vars

(* While there is one version of each class, the tables agree with files.  *)
THEOREM CurrentInvariance == Spec => []CInv
<1> QED BY CurrentInit, CurrentNext, PTL DEF Spec

(* While every class is compiled once, a message that a parent class on    *)
(* record defines is found.                                                *)
THEOREM CurrentFound == Spec => []FoundWhenCurrent
<1>1. ASSUME CInv, FirstVersions
      PROVE  InheritedFound
  <2> SUFFICES ASSUME NEW o \in DOMAIN objects, NEW m \in Messages,
                      Nearest(o, m) # 0,
                      registry[objects[Nearest(o, m)].class] # 0
               PROVE  Resolved(o, m) /\ message(o, m).ip # NoCode
    BY DEF InheritedFound
  <2> DEFINE Good == {n \in Numbers : Nearest(n, m) # 0 =>
                                        n # 0 /\ m \in DOMAIN objects[n].table}
             e == objects[o].table[m]
  <2> USE <1>1 DEF CInv
  <2>1. 0 \in Good
    BY NearestClimbs DEF Numbers, IInv, Types
  <2>2. ASSUME NEW n \in DOMAIN objects, objects[n].super \in Good
        PROVE  n \in Good
    <3> DEFINE s == objects[n].super
    <3>1. SUFFICES ASSUME Nearest(n, m) # 0
                   PROVE  m \in DOMAIN objects[n].table
      BY SuperBelow
    <3>2. CASE m \in objects[n].own
      BY <3>2 DEF IInv, Copied, CopiedFrom
    <3>3. CASE m \notin objects[n].own
      <4>1. s # 0 /\ m \in DOMAIN objects[s].table
        BY <2>2, <3>1, <3>3, NearestClimbs
      <4>2. /\ s \in DOMAIN objects /\ objects[n].class # Root
            /\ objects[s].class = Super[objects[n].class]
        BY <4>1, SuperBelow DEF IInv, Chained
      <4>3. m \in Keys(file[Super[objects[n].class]])
        BY <4>1, <4>2 DEF FirstVersions
      <4> QED BY <4>2, <4>3 DEF FirstVersions, KeysInherited, Filed
    <3> QED BY <3>2, <3>3
  <2>3. Good = Numbers
    <3>1. Good \in SUBSET Numbers
      OBVIOUS
    <3> HIDE DEF Good
    <3> QED BY <2>1, <2>2, <3>1, Upwards
  <2>4. m \in DOMAIN objects[o].table
    BY <2>3, SuperBelow
  <2>5. e \in Entries /\ e.offset # 0 /\ Search(o, m) = e
    <3>1. objects[o].table \in Tables
      BY SuperBelow DEF ClassObjects
    <3>2. e \in Entries
      BY <2>4, <3>1 DEF Tables
    <3>3. Search(o, m) = e
      BY <2>4, SearchClimbs
    <3> QED BY <2>4, <3>2, <3>3 DEF FirstVersions
  <2>6. ~Missed(o, m)
    BY <2>5, NoneAssumption, SuperBelow, SearchFindsNearest DEF FindsWell, NoCode
  <2>7. e.class_id = objects[Nearest(o, m)].class /\ e # None
    BY <2>5, <2>6, NoneAssumption, SuperBelow, SearchFindsNearest DEF FindsWell
  <2>8. message(o, m).klass # 0 /\ message(o, m).ip # 0
    BY <2>5, <2>7 DEF message, Context
  <2> QED BY <2>8 DEF Resolved, Unresolved, NoCode
<1>2. CInv => FoundWhenCurrent
  BY <1>1 DEF FoundWhenCurrent, CInv, Current, Done
<1> QED BY <1>2, CurrentInvariance, PTL
=============================================================================
