-------------------------- MODULE LibrariesProofs ---------------------------
(***************************************************************************)
(* Proofs about Libraries, for any libraries that require and subclass     *)
(* each other in any way, any number of variables and of libraries loaded. *)
(*                                                                         *)
(* The argument: a library being imported is referred to by the stack      *)
(* alone; what is alive is what the imports, main and the variables keep;  *)
(* and what main and the variables keep has its super classes among what   *)
(* they keep, so that an exception, which takes all the rest, takes no     *)
(* super class of a class that stays.                                      *)
(***************************************************************************)
EXTENDS Libraries, TLAPS

(***************************************************************************)
(* What roots keep                                                         *)
(***************************************************************************)
LEMMA KeptClosed ==
  ASSUME NEW ls, NEW roots, roots \subseteq DOMAIN ls,
         \A i \in DOMAIN ls : Required(ls, i) \subseteq DOMAIN ls
  PROVE  /\ KeptBy(ls, roots) \subseteq DOMAIN ls
         /\ roots \subseteq KeptBy(ls, roots)
         /\ Closed(ls, KeptBy(ls, roots))
BY DEF KeptBy, Closed

LEMMA KeptLeast ==
  ASSUME NEW ls, NEW roots, NEW S \in SUBSET DOMAIN ls,
         roots \subseteq S, Closed(ls, S)
  PROVE  KeptBy(ls, roots) \subseteq S
BY DEF KeptBy

(* More roots and more requirements keep no less, when the roots are among *)
(* what is kept.                                                           *)
LEMMA KeptGrows ==
  ASSUME NEW ls, NEW roots, NEW more, NEW K,
         DOMAIN ls \subseteq DOMAIN more,
         roots \subseteq DOMAIN ls, roots \subseteq K, Closed(more, K),
         \A i \in DOMAIN ls : Required(ls, i) \subseteq Required(more, i) \intersect DOMAIN ls
  PROVE  KeptBy(ls, roots) \subseteq K
<1> DEFINE S == K \intersect DOMAIN ls
<1>1. Closed(ls, S)
  BY DEF Closed
<1>2. S \in SUBSET DOMAIN ls /\ roots \subseteq S
  OBVIOUS
<1> HIDE DEF S
<1>3. KeptBy(ls, roots) \subseteq S
  BY <1>1, <1>2, KeptLeast
<1> QED BY <1>3 DEF S

(***************************************************************************)
(* The invariant                                                           *)
(***************************************************************************)
References == [lib : Nat \union {None}, weak : BOOLEAN]
LibraryObjects ==
  [name : Names, requirements : Seq(References), classes : Seq(ClassNames),
   initialized : Nat]
Imports ==
  [lib : Nat, kind : {"import", "execute"}, holder : Holders \union {None},
   step : {"find", "load", "conflict"}]

Types ==
  /\ libs \in Seq(LibraryObjects)
  /\ imports \in Seq(Imports)
  /\ alive \subseteq DOMAIN libs
  /\ leaked \subseteq DOMAIN libs
  /\ registry \in [Names -> DOMAIN libs \union {None}]
  /\ recorded \in [ClassNames -> DOMAIN libs \union {None}]
  /\ held \in [Holders -> References]
  /\ kept \in BOOLEAN /\ clash \in BOOLEAN

HeldTargets == Targets({held[h] : h \in Holders})

(* Strong references are to libraries that were made.                      *)
Targeted ==
  /\ HeldTargets \subseteq DOMAIN libs
  /\ \A i \in DOMAIN libs : Required(libs, i) \subseteq DOMAIN libs

(* A library being imported is alive, on the stack once, and nobody refers *)
(* to it yet: no variable, no other library and not the registry.          *)
OnlyStacked ==
  \A k \in DOMAIN imports :
    LET i == imports[k].lib
    IN /\ i \in alive
       /\ \A j \in DOMAIN imports : imports[j].lib = i => j = k
       /\ i \notin HeldTargets
       /\ \A l \in DOMAIN libs : i \notin Required(libs, l)
       /\ \A n \in Names : registry[n] # i

(* main's library is at the bottom of the stack, if it is there; otherwise *)
(* the variable that waits for the result is free.                         *)
Bottom ==
  \A k \in DOMAIN imports :
    /\ imports[k].lib \in leaked <=> imports[k].kind = "execute"
    /\ k # Len(imports) => imports[k].kind = "import"
    /\ k = Len(imports) /\ imports[k].kind = "import" =>
         /\ kept => imports[k].holder # None
         /\ imports[k].holder # None => held[imports[k].holder] = Nothing

AliveKept == alive \subseteq Kept(libs, imports, held)

Shape == Types /\ Targeted /\ OnlyStacked /\ Bottom /\ AliveKept

(* What is left if an exception empties the stack.                         *)
Staying == KeptBy(libs, leaked \union HeldTargets)

(* Super classes are on record, and stay if their sub classes stay.        *)
SupersStay ==
  \A c \in ClassNames :
    recorded[c] # None /\ Super[c] # Builtin =>
      /\ recorded[Super[c]] # None
      /\ recorded[c] \in Staying => recorded[Super[c]] \in Staying

(* A class on record was recorded by a library that lives and lists it ... *)
RecordsListed ==
  \A c \in ClassNames :
    recorded[c] # None => recorded[c] \in alive /\ c \in Listed(recorded[c])

(* ... and what a library lists it has recorded itself.                    *)
ListedRecorded ==
  clash \/ \A i \in alive : \A c \in Listed(i) : recorded[c] = i

Recorded ==
  /\ RecordsListed
  /\ ListedRecorded
  /\ kept /\ ~clash => SupersStay

IInv == Shape /\ Recorded

(***************************************************************************)
(* What the steps do to the library objects                                *)
(***************************************************************************)
ReferredBy(r) == IF r.weak THEN {} ELSE {r.lib}

LEMMA TargetsAppended ==
  ASSUME NEW s \in Seq(References), NEW r \in References
  PROVE  Targets(Range(Append(s, r))) = Targets(Range(s)) \union ReferredBy(r)
<1> DEFINE t == Append(s, r)
<1>1. Range(t) = Range(s) \union {r}
  <2>1. /\ DOMAIN t = DOMAIN s \union {Len(s) + 1}
        /\ t[Len(s) + 1] = r
        /\ \A k \in DOMAIN s : t[k] = s[k]
    OBVIOUS
  <2> HIDE DEF t
  <2> QED BY <2>1 DEF Range
<1>2. \A refs : Targets(refs \union {r}) = Targets(refs) \union ReferredBy(r)
  BY DEF Targets, ReferredBy
<1> QED BY <1>1, <1>2

(* A library object gets a requirement.                                    *)
WithRequirement(i, r) == [libs EXCEPT ![i].requirements = Append(@, r)]

LEMMA RequirementAppended ==
  ASSUME Types, NEW i \in DOMAIN libs, NEW r \in References,
         NEW ls, ls = WithRequirement(i, r)
  PROVE  /\ ls \in Seq(LibraryObjects)
         /\ DOMAIN ls = DOMAIN libs /\ Len(ls) = Len(libs)
         /\ \A j \in DOMAIN libs : /\ ls[j].name = libs[j].name
                                  /\ ls[j].classes = libs[j].classes
                                  /\ ls[j].initialized = libs[j].initialized
         /\ ls[i].requirements = Append(libs[i].requirements, r)
         /\ \A j \in DOMAIN libs : j # i => ls[j] = libs[j]
         /\ Required(ls, i) = Required(libs, i) \union ReferredBy(r)
         /\ \A j \in DOMAIN libs : j # i => Required(ls, j) = Required(libs, j)
<1>1. libs \in Seq(LibraryObjects) /\ libs[i] \in LibraryObjects
  BY DEF Types
<1>2. /\ libs[i].requirements \in Seq(References)
      /\ [libs[i] EXCEPT !.requirements = Append(@, r)] \in LibraryObjects
  <2>1. libs[i].requirements \in Seq(References)
    BY <1>1 DEF LibraryObjects
  <2>2. Append(libs[i].requirements, r) \in Seq(References)
    BY <2>1
  <2> QED BY <1>1, <2>1, <2>2 DEF LibraryObjects
<1>3. /\ ls = [libs EXCEPT ![i] = [libs[i] EXCEPT !.requirements = Append(@, r)]]
      /\ ls \in Seq(LibraryObjects)
  BY <1>1, <1>2 DEF WithRequirement
<1>4. /\ DOMAIN ls = DOMAIN libs /\ Len(ls) = Len(libs)
      /\ \A j \in DOMAIN libs : j # i => ls[j] = libs[j]
      /\ ls[i] = [libs[i] EXCEPT !.requirements = Append(@, r)]
  BY <1>1, <1>3
<1>5. /\ ls[i].name = libs[i].name /\ ls[i].classes = libs[i].classes
      /\ ls[i].initialized = libs[i].initialized
      /\ ls[i].requirements = Append(libs[i].requirements, r)
  BY <1>1, <1>4 DEF LibraryObjects
<1>6. Required(ls, i) = Required(libs, i) \union ReferredBy(r)
  BY <1>2, <1>5, TargetsAppended DEF Required
<1>7. \A j \in DOMAIN libs : j # i => Required(ls, j) = Required(libs, j)
  BY <1>4 DEF Required
<1> QED BY <1>3, <1>4, <1>5, <1>6, <1>7

(* A library object changes otherwise.                                     *)
WithObject(i, x) == [libs EXCEPT ![i] = x]

LEMMA ObjectChanged ==
  ASSUME Types, NEW i \in DOMAIN libs, NEW x \in LibraryObjects,
         x.requirements = libs[i].requirements,
         NEW ls, ls = WithObject(i, x)
  PROVE  /\ ls \in Seq(LibraryObjects)
         /\ DOMAIN ls = DOMAIN libs /\ Len(ls) = Len(libs)
         /\ ls[i] = x
         /\ \A j \in DOMAIN libs : j # i => ls[j] = libs[j]
         /\ \A j \in DOMAIN libs : Required(ls, j) = Required(libs, j)
<1>1. /\ ls \in Seq(LibraryObjects) /\ DOMAIN ls = DOMAIN libs
      /\ Len(ls) = Len(libs) /\ ls[i] = x
      /\ \A j \in DOMAIN libs : j # i => ls[j] = libs[j]
  BY DEF Types, WithObject
<1>2. \A j \in DOMAIN libs : ls[j].requirements = libs[j].requirements
  BY <1>1
<1>3. ASSUME NEW j \in DOMAIN libs
      PROVE  Required(ls, j) = Required(libs, j)
  BY <1>2 DEF Required
<1> QED BY <1>1, <1>3

(* A library object is made.                                               *)
LEMMA ObjectMade ==
  ASSUME Types, NEW n \in Names, NEW ls, ls = Append(libs, Library(n))
  PROVE  /\ ls \in Seq(LibraryObjects)
         /\ DOMAIN ls = DOMAIN libs \union {Fresh}
         /\ Fresh \notin DOMAIN libs /\ Fresh \in Nat
         /\ ls[Fresh] = Library(n)
         /\ \A j \in DOMAIN libs : ls[j] = libs[j]
         /\ \A j \in DOMAIN libs : Required(ls, j) = Required(libs, j)
         /\ Required(ls, Fresh) = {}
<1>1. Library(n) \in LibraryObjects
  BY DEF Library, LibraryObjects
<1>2. /\ ls \in Seq(LibraryObjects)
      /\ DOMAIN ls = DOMAIN libs \union {Fresh}
      /\ Fresh \notin DOMAIN libs /\ Fresh \in Nat
      /\ ls[Fresh] = Library(n)
      /\ \A j \in DOMAIN libs : ls[j] = libs[j]
  BY <1>1 DEF Types, Fresh
<1>3. ls[Fresh].requirements = <<>>
  BY <1>2 DEF Library
<1>4. Required(ls, Fresh) = {}
  BY <1>3 DEF Required, Targets, Range
<1> QED BY <1>2, <1>4 DEF Required

LEMMA TopType ==
  ASSUME Shape, imports # <<>>
  PROVE  /\ 1 \in DOMAIN imports /\ top = imports[1] /\ top \in Imports
         /\ top.lib \in alive /\ top.lib \in DOMAIN libs
         /\ file \in LibraryObjects /\ file = libs[top.lib]
         /\ Tail(imports) \in Seq(Imports)
         /\ Len(Tail(imports)) = Len(imports) - 1
         /\ \A k \in DOMAIN Tail(imports) :
              k + 1 \in DOMAIN imports /\ Tail(imports)[k] = imports[k + 1]
<1>1. /\ imports \in Seq(Imports) /\ 1 \in DOMAIN imports
      /\ top = imports[1] /\ top \in Imports
  BY DEF Shape, Types, top
<1>2. top.lib \in alive /\ top.lib \in DOMAIN libs
  BY <1>1 DEF Shape, OnlyStacked, Types
<1>3. file \in LibraryObjects /\ file = libs[top.lib]
  BY <1>2 DEF Shape, Types, file
<1>4. /\ Tail(imports) \in Seq(Imports) /\ Len(Tail(imports)) = Len(imports) - 1
      /\ \A k \in DOMAIN Tail(imports) :
           k + 1 \in DOMAIN imports /\ Tail(imports)[k] = imports[k + 1]
  BY <1>1
<1> QED BY <1>1, <1>2, <1>3, <1>4

(* What roots keep is known.                                               *)
LEMMA RootsKept ==
  ASSUME Shape
  PROVE  /\ Roots(imports, held) \subseteq DOMAIN libs
         /\ leaked \union HeldTargets \subseteq Roots(imports, held)
         /\ \A k \in DOMAIN imports : imports[k].lib \in Roots(imports, held)
         /\ Roots(imports, held) \subseteq Kept(libs, imports, held)
         /\ Closed(libs, Kept(libs, imports, held))
         /\ leaked \union HeldTargets \subseteq Staying
         /\ Staying \subseteq DOMAIN libs /\ Closed(libs, Staying)
<1>1. \A k \in DOMAIN imports : imports[k].lib \in DOMAIN libs
  BY DEF Shape, OnlyStacked, Types
<1>2. Roots(imports, held) \subseteq DOMAIN libs
  BY <1>1 DEF Roots, Shape, Types, Targeted, HeldTargets
<1>3. leaked \union HeldTargets \subseteq DOMAIN libs
  BY DEF Shape, Types, Targeted
<1>4. \A i \in DOMAIN libs : Required(libs, i) \subseteq DOMAIN libs
  BY DEF Shape, Targeted
<1>5. /\ Roots(imports, held) \subseteq Kept(libs, imports, held)
      /\ Closed(libs, Kept(libs, imports, held))
  BY <1>2, <1>4, KeptClosed DEF Kept
<1>6. /\ leaked \union HeldTargets \subseteq Staying
      /\ Staying \subseteq DOMAIN libs /\ Closed(libs, Staying)
  BY <1>3, <1>4, KeptClosed DEF Staying
<1>7. /\ leaked \union HeldTargets \subseteq Roots(imports, held)
      /\ \A k \in DOMAIN imports : imports[k].lib \in Roots(imports, held)
  BY DEF Roots, HeldTargets
<1> QED BY <1>2, <1>5, <1>6, <1>7

(***************************************************************************)
(* The stack, the references and what they keep                            *)
(***************************************************************************)
LEMMA Pushed ==
  ASSUME NEW s \in Seq(Imports), NEW x \in Imports, NEW t, t = <<x>> \o s
  PROVE  /\ t \in Seq(Imports) /\ Len(t) = Len(s) + 1 /\ t[1] = x
         /\ \A k \in DOMAIN t : k # 1 => k - 1 \in DOMAIN s /\ t[k] = s[k - 1]
         /\ \A k \in DOMAIN s : k + 1 \in DOMAIN t /\ t[k + 1] = s[k]
OBVIOUS

LEMMA TopStepped ==
  ASSUME Shape, imports # <<>>, NEW step \in {"find", "load", "conflict"},
         NEW t, t = <<[top EXCEPT !.step = step]>> \o Tail(imports)
  PROVE  /\ t \in Seq(Imports) /\ Len(t) = Len(imports)
         /\ \A k \in DOMAIN imports : /\ t[k].lib = imports[k].lib
                                     /\ t[k].kind = imports[k].kind
                                     /\ t[k].holder = imports[k].holder
<1> DEFINE x == [top EXCEPT !.step = step]
<1>1. x \in Imports /\ x.lib = top.lib /\ x.kind = top.kind /\ x.holder = top.holder
  BY TopType DEF Imports
<1> HIDE DEF x
<1>2. /\ t \in Seq(Imports) /\ Len(t) = Len(Tail(imports)) + 1 /\ t[1] = x
      /\ \A k \in DOMAIN t : k # 1 => /\ k - 1 \in DOMAIN Tail(imports)
                                     /\ t[k] = Tail(imports)[k - 1]
  BY <1>1, TopType, Pushed DEF x
<1>3. imports \in Seq(Imports) /\ Len(t) = Len(imports) /\ DOMAIN t = DOMAIN imports
  BY <1>2, TopType DEF Shape, Types
<1>4. ASSUME NEW k \in DOMAIN imports
      PROVE  /\ t[k].lib = imports[k].lib
             /\ t[k].kind = imports[k].kind
             /\ t[k].holder = imports[k].holder
  <2>1. CASE k = 1
    BY <1>1, <1>2, <2>1, TopType
  <2>2. CASE k # 1
    BY <1>2, <1>3, <2>2, TopType
  <2> QED BY <2>1, <2>2
<1> QED BY <1>2, <1>3, <1>4

(* What is alive stays kept when nothing is dropped.                       *)
LEMMA AliveStays ==
  ASSUME Shape, Types', Targeted',
         \A k \in DOMAIN imports' : imports'[k].lib \in DOMAIN libs',
         DOMAIN libs \subseteq DOMAIN libs',
         \A i \in DOMAIN libs : Required(libs, i) \subseteq Required(libs', i),
         Roots(imports, held) \subseteq Kept(libs, imports, held)',
         alive' \subseteq alive \union Kept(libs, imports, held)'
  PROVE  AliveKept'
<1> DEFINE new == Roots(imports, held)'
           K == KeptBy(libs', new)
<1>1. new \subseteq DOMAIN libs'
  BY DEF Roots, Types, Targeted, HeldTargets
<1>2. K = Kept(libs, imports, held)'
  BY DEF Kept
<1>3. \A i \in DOMAIN libs' : Required(libs', i) \subseteq DOMAIN libs'
  BY DEF Targeted
<1> HIDE DEF new, K
<1>4. Closed(libs', K)
  BY <1>1, <1>3, KeptClosed DEF K
<1>5. /\ \A i \in DOMAIN libs :
           Required(libs, i) \subseteq Required(libs', i) \intersect DOMAIN libs
      /\ Roots(imports, held) \subseteq DOMAIN libs
  BY RootsKept DEF Shape, Targeted
<1>6. KeptBy(libs, Roots(imports, held)) \subseteq K
  BY <1>2, <1>4, <1>5, KeptGrows
<1>7. alive \subseteq K
  BY <1>6 DEF Shape, AliveKept, Kept
<1> QED BY <1>2, <1>7 DEF AliveKept

(* The roots are kept, to be used with the state after a step.             *)
LEMMA RootsKeptAfter ==
  ASSUME Types', Targeted',
         \A k \in DOMAIN imports' : imports'[k].lib \in DOMAIN libs'
  PROVE  /\ \A k \in DOMAIN imports' : imports'[k].lib \in Kept(libs, imports, held)'
         /\ leaked' \subseteq Kept(libs, imports, held)'
         /\ HeldTargets' \subseteq Kept(libs, imports, held)'
         /\ Closed(libs', Kept(libs, imports, held)')
<1> DEFINE new == Roots(imports, held)'
           K == KeptBy(libs', new)
<1>1. /\ new \subseteq DOMAIN libs'
      /\ leaked' \subseteq new /\ HeldTargets' \subseteq new
      /\ \A k \in DOMAIN imports' : imports'[k].lib \in new
  BY DEF Roots, Types, Targeted, HeldTargets
<1>2. K = Kept(libs, imports, held)'
  BY DEF Kept
<1>3. \A i \in DOMAIN libs' : Required(libs', i) \subseteq DOMAIN libs'
  BY DEF Targeted
<1> HIDE DEF new, K
<1>4. new \subseteq K /\ Closed(libs', K)
  BY <1>1, <1>3, KeptClosed DEF K
<1> QED BY <1>1, <1>2, <1>4

(* Steps that leave the stack and all references as they are.              *)
LEMMA QuietShape ==
  ASSUME Shape, UNCHANGED <<alive, leaked, registry, held, kept>>,
         libs' \in Seq(LibraryObjects), DOMAIN libs' = DOMAIN libs,
         \A j \in DOMAIN libs : Required(libs', j) = Required(libs, j),
         imports' \in Seq(Imports), Len(imports') = Len(imports),
         \A k \in DOMAIN imports : /\ imports'[k].lib = imports[k].lib
                                 /\ imports'[k].kind = imports[k].kind
                                 /\ imports'[k].holder = imports[k].holder,
         recorded' \in [ClassNames -> DOMAIN libs \union {None}],
         clash' \in BOOLEAN
  PROVE  Shape'
<1>1. Types'
  BY DEF Shape, Types
<1>2. HeldTargets' = HeldTargets
  BY DEF HeldTargets
<1>3. Targeted'
  BY <1>2 DEF Shape, Targeted
<1>4. DOMAIN imports' = DOMAIN imports /\ imports \in Seq(Imports)
  BY DEF Shape, Types
<1>5. OnlyStacked'
  BY <1>2, <1>4 DEF Shape, OnlyStacked
<1>6. Bottom'
  BY <1>4 DEF Shape, Bottom
<1>7. \A k \in DOMAIN imports' : imports'[k].lib \in DOMAIN libs'
  BY <1>1, <1>5 DEF OnlyStacked, Types
<1>8. Roots(imports, held) \subseteq Kept(libs, imports, held)'
  BY <1>1, <1>2, <1>3, <1>4, <1>7, RootsKeptAfter DEF Roots, HeldTargets
<1>9. AliveKept'
  BY <1>1, <1>3, <1>7, <1>8, AliveStays
<1> QED BY <1>1, <1>3, <1>5, <1>6, <1>9 DEF Shape

(* A new library object, imported on top of the others.                    *)
LEMMA BeginShape ==
  ASSUME Shape, NEW n \in Names, NEW kind \in {"import", "execute"},
         NEW holder \in Holders \union {None}, Begin(n, kind, holder),
         leaked' = IF kind = "execute" THEN leaked \union {Fresh} ELSE leaked,
         kind = "execute" => imports = <<>>,
         imports = <<>> /\ kind = "import" =>
           /\ kept' => holder # None
           /\ holder # None => held[holder] = Nothing,
         kept' \in BOOLEAN, kept' => kept
  PROVE  Shape'
<1> DEFINE x == Importing(Fresh, kind, holder)
<1>1. /\ libs' \in Seq(LibraryObjects)
      /\ DOMAIN libs' = DOMAIN libs \union {Fresh}
      /\ Fresh \notin DOMAIN libs /\ Fresh \in Nat
      /\ \A j \in DOMAIN libs : Required(libs', j) = Required(libs, j)
      /\ Required(libs', Fresh) = {}
  BY ObjectMade DEF Begin, Shape
<1>2. /\ x \in Imports /\ x.lib = Fresh /\ x.kind = kind /\ x.holder = holder
  BY <1>1 DEF Importing, Imports
<1>3. imports \in Seq(Imports) /\ imports' = <<x>> \o imports
  BY DEF Begin, Shape, Types
<1> HIDE DEF x
<1>4. /\ imports' \in Seq(Imports) /\ Len(imports') = Len(imports) + 1
      /\ imports'[1] = x
      /\ \A k \in DOMAIN imports' : k # 1 => /\ k - 1 \in DOMAIN imports
                                            /\ imports'[k] = imports[k - 1]
      /\ \A k \in DOMAIN imports : /\ k + 1 \in DOMAIN imports'
                                  /\ imports'[k + 1] = imports[k]
  BY <1>2, <1>3, Pushed
<1>5. /\ alive' = alive \union {Fresh}
      /\ UNCHANGED <<registry, recorded, held, clash>>
      /\ HeldTargets' = HeldTargets
  BY DEF Begin, HeldTargets
<1>6. Types'
  BY <1>1, <1>4, <1>5 DEF Shape, Types
<1>7. Targeted'
  BY <1>1, <1>5 DEF Shape, Targeted
<1>8. \A k \in DOMAIN imports : imports[k].lib \in alive /\ imports[k].lib # Fresh
  BY <1>1 DEF Shape, OnlyStacked, Types
<1>9. OnlyStacked'
  <2> SUFFICES ASSUME NEW k \in DOMAIN imports'
               PROVE  LET i == imports'[k].lib
                      IN /\ i \in alive'
                         /\ \A j \in DOMAIN imports' : imports'[j].lib = i => j = k
                         /\ i \notin HeldTargets'
                         /\ \A l \in DOMAIN libs' : i \notin Required(libs', l)
                         /\ \A m \in Names : registry'[m] # i
    BY DEF OnlyStacked
  <2>1. CASE k = 1
    <3>1. \A j \in DOMAIN imports' : imports'[j].lib = Fresh => j = 1
      BY <1>4, <1>8
    <3>2. Fresh \notin HeldTargets /\ \A l \in DOMAIN libs : Fresh \notin Required(libs, l)
      BY <1>1 DEF Shape, Targeted
    <3>3. \A m \in Names : registry[m] # Fresh
      BY <1>1, NoneAssumption DEF Shape, Types
    <3> QED BY <1>1, <1>2, <1>4, <1>5, <2>1, <3>1, <3>2, <3>3
  <2>2. CASE k # 1
    <3>1. k - 1 \in DOMAIN imports /\ imports'[k] = imports[k - 1]
      BY <1>4, <2>2
    <3> DEFINE i == imports[k - 1].lib
    <3>2. /\ i \in alive /\ i \notin HeldTargets
          /\ \A l \in DOMAIN libs : i \notin Required(libs, l)
          /\ \A m \in Names : registry[m] # i
          /\ \A j \in DOMAIN imports : imports[j].lib = i => j = k - 1
      BY <3>1 DEF Shape, OnlyStacked
    <3>3. \A j \in DOMAIN imports' : imports'[j].lib = i => j = k
      <4>1. ASSUME NEW j \in DOMAIN imports', imports'[j].lib = i
            PROVE  j = k
        <5>1. j # 1
          BY <1>2, <1>4, <1>8, <3>1, <4>1
        <5>2. j - 1 \in DOMAIN imports /\ imports[j - 1].lib = i
          BY <1>4, <4>1, <5>1
        <5>3. j - 1 = k - 1 /\ j \in Nat /\ k \in Nat
          BY <1>4, <3>2, <5>2
        <5> QED BY <5>3
      <4> QED BY <4>1
    <3> QED BY <1>1, <1>5, <3>1, <3>2, <3>3
  <2> QED BY <2>1, <2>2
<1>10. Bottom'
  <2> SUFFICES ASSUME NEW k \in DOMAIN imports'
               PROVE  /\ imports'[k].lib \in leaked' <=> imports'[k].kind = "execute"
                      /\ k # Len(imports') => imports'[k].kind = "import"
                      /\ k = Len(imports') /\ imports'[k].kind = "import" =>
                           /\ kept' => imports'[k].holder # None
                           /\ imports'[k].holder # None =>
                                held'[imports'[k].holder] = Nothing
    BY DEF Bottom
  <2>1. CASE k = 1
    <3>1. Fresh \notin leaked
      BY <1>1 DEF Shape, Types
    <3>2. k = Len(imports') => imports = <<>>
      BY <1>3, <1>4, <2>1
    <3>3. kind = "execute" => k = Len(imports')
      BY <1>4, <2>1
    <3> QED BY <1>2, <1>4, <1>5, <2>1, <3>1, <3>2, <3>3
  <2>2. CASE k # 1
    <3>1. /\ k - 1 \in DOMAIN imports /\ imports'[k] = imports[k - 1]
          /\ k = Len(imports') <=> k - 1 = Len(imports)
          /\ imports # <<>>
      BY <1>3, <1>4, <2>2
    <3>2. kind = "import" /\ leaked' = leaked
      BY <3>1
    <3> QED BY <1>5, <3>1, <3>2 DEF Shape, Bottom
  <2> QED BY <2>1, <2>2
<1>11. \A k \in DOMAIN imports' : imports'[k].lib \in DOMAIN libs'
  BY <1>6, <1>9 DEF OnlyStacked, Types
<1>12. /\ Roots(imports, held) \subseteq Kept(libs, imports, held)'
       /\ Fresh \in Kept(libs, imports, held)'
  <2>1. /\ \A k \in DOMAIN imports' : imports'[k].lib \in Kept(libs, imports, held)'
        /\ leaked' \subseteq Kept(libs, imports, held)'
        /\ HeldTargets' \subseteq Kept(libs, imports, held)'
    BY <1>6, <1>7, <1>11, RootsKeptAfter
  <2>2. \A k \in DOMAIN imports : imports[k].lib \in Kept(libs, imports, held)'
    BY <1>4, <2>1
  <2>3. leaked \subseteq Kept(libs, imports, held)'
    BY <2>1
  <2>4. Fresh \in Kept(libs, imports, held)'
    <3>1. 1 \in DOMAIN imports'
      BY <1>3, <1>4
    <3> QED BY <1>2, <1>4, <2>1, <3>1
  <2> QED BY <1>5, <2>1, <2>2, <2>3, <2>4 DEF Roots, HeldTargets
<1>13. AliveKept'
  BY <1>1, <1>5, <1>6, <1>7, <1>11, <1>12, AliveStays
<1> QED BY <1>6, <1>7, <1>9, <1>10, <1>13 DEF Shape

(* References are dropped and the stack is empty.                          *)
LEMMA ReleaseShape ==
  ASSUME Shape, NEW hs \in [Holders -> References],
         Targets({hs[h] : h \in Holders}) \subseteq DOMAIN libs,
         Release(<<>>, hs), UNCHANGED <<libs, leaked>>,
         registry' \in [Names -> DOMAIN libs \union {None}],
         kept' \in BOOLEAN, clash' \in BOOLEAN
  PROVE  Shape'
<1>1. /\ alive' = Kept(libs, <<>>, hs) \intersect alive
      /\ recorded' = Unrecord(alive \ alive')
      /\ imports' = <<>> /\ held' = hs
  BY DEF Release
<1>2. recorded' \in [ClassNames -> DOMAIN libs \union {None}]
  BY <1>1 DEF Unrecord, Shape, Types
<1>3. Types'
  <2>1. /\ libs' \in Seq(LibraryObjects) /\ DOMAIN libs' = DOMAIN libs
        /\ alive' \subseteq DOMAIN libs' /\ leaked' \subseteq DOMAIN libs'
    BY <1>1 DEF Shape, Types
  <2>2. imports' \in Seq(Imports) /\ held' \in [Holders -> References]
    BY <1>1
  <2> QED BY <1>2, <2>1, <2>2 DEF Types
<1>4. Targeted'
  BY <1>1 DEF Shape, Targeted, HeldTargets
<1>5. OnlyStacked' /\ Bottom'
  BY <1>1 DEF OnlyStacked, Bottom
<1>6. AliveKept'
  BY <1>1 DEF AliveKept, Kept, Roots
<1> QED BY <1>3, <1>4, <1>5, <1>6 DEF Shape

LEMMA ImportAgainShape ==
  ASSUME Shape, NEW n \in Names, NEW h, ImportAgain(n, h)
  PROVE  /\ Shape' /\ HeldTargets' = HeldTargets
<1>1. /\ imports = <<>> /\ h \in Holders /\ held[h] = Nothing
      /\ held' = [held EXCEPT ![h] = Weak(registry[n])]
      /\ UNCHANGED <<libs, alive, leaked, registry, recorded, imports, kept, clash>>
  BY DEF ImportAgain, history
<1>2. Weak(registry[n]) \in References /\ Weak(registry[n]).weak
  BY DEF Weak, References, Shape, Types
<1>3. held' \in [Holders -> References]
  BY <1>1, <1>2 DEF Shape, Types
<1>4. Nothing.weak
  BY DEF Nothing, Weak
<1>5. {x \in {held'[g] : g \in Holders} : ~x.weak}
        = {x \in {held[g] : g \in Holders} : ~x.weak}
  <2>1. ASSUME NEW g \in Holders
        PROVE  IF g = h THEN held'[g].weak /\ held[g].weak ELSE held'[g] = held[g]
    BY <1>1, <1>2, <1>4 DEF Shape, Types
  <2> QED BY <2>1
<1>6. HeldTargets' = HeldTargets
  BY <1>5 DEF HeldTargets, Targets
<1>7. Types' /\ Targeted' /\ OnlyStacked' /\ Bottom'
  BY <1>1, <1>3, <1>6 DEF Shape, Types, Targeted, OnlyStacked, Bottom
<1>8. Roots(imports, held)' = Roots(imports, held)
  BY <1>1, <1>6 DEF Roots, HeldTargets
<1>9. AliveKept'
  BY <1>1, <1>8 DEF Shape, AliveKept, Kept
<1> QED BY <1>6, <1>7, <1>9 DEF Shape

LEMMA FinishExecuteShape ==
  ASSUME Shape, FinishExecute
  PROVE  Shape'
<1>1. /\ imports # <<>> /\ top.kind = "execute"
      /\ imports' = Tail(imports)
      /\ UNCHANGED <<libs, alive, leaked, registry, recorded, held, kept, clash>>
  BY DEF FinishExecute, Finished, Loaded, history
<1>2. Len(imports) = 1 /\ top.lib \in leaked /\ imports \in Seq(Imports)
  BY <1>1, TopType DEF Shape, Bottom, Types
<1>3. imports' = <<>>
  BY <1>1, <1>2
<1>4. Types' /\ Targeted' /\ OnlyStacked' /\ Bottom'
  <2>1. Types'
    BY <1>1, <1>3 DEF Shape, Types
  <2>2. Targeted'
    BY <1>1 DEF Shape, Targeted, HeldTargets
  <2>3. OnlyStacked' /\ Bottom'
    BY <1>3 DEF OnlyStacked, Bottom
  <2> QED BY <2>1, <2>2, <2>3
<1>5. Roots(imports, held)' = Roots(imports, held)
  <2>1. \A k \in DOMAIN imports : imports[k].lib \in leaked
    BY <1>1, <1>2, TopType
  <2> QED BY <1>1, <1>3, <2>1 DEF Roots
<1>6. AliveKept'
  BY <1>1, <1>5 DEF Shape, AliveKept, Kept
<1> QED BY <1>4, <1>6 DEF Shape

(* An import that another one waits for: that one gets the reference.      *)
LEMMA DeliverShape ==
  ASSUME Shape, FinishImport, Tail(imports) # <<>>
  PROVE  /\ Shape'
         /\ Len(imports) > 1 /\ imports[2].lib \in DOMAIN libs
         /\ imports[2].lib # top.lib
         /\ libs' = [libs EXCEPT ![imports[2].lib].requirements =
                        Append(@, Strong(top.lib))]
         /\ Strong(top.lib) \in References
<1> DEFINE i == imports[2].lib
           r == Strong(top.lib)
<1>1. imports # <<>>
  BY DEF FinishImport, Finished, Loaded
<1>2. /\ Len(imports) > 1 /\ 2 \in DOMAIN imports /\ 1 \in DOMAIN imports
      /\ Tail(imports)[1] = imports[2] /\ imports \in Seq(Imports)
      /\ DOMAIN imports = 1 .. Len(imports)
      /\ DOMAIN Tail(imports) = 1 .. Len(imports) - 1
  BY <1>1, TopType DEF Shape, Types
<1>3. i \in DOMAIN libs /\ i # top.lib
  BY <1>1, <1>2, TopType DEF Shape, OnlyStacked, Types
<1>4. /\ libs' = [libs EXCEPT ![i].requirements = Append(@, r)]
      /\ imports' = Tail(imports)
      /\ registry' = [registry EXCEPT ![file.name] = top.lib]
      /\ UNCHANGED <<alive, recorded, held, leaked, kept, clash>>
  BY <1>2 DEF FinishImport, Deliver, history
<1>5. r \in References /\ ReferredBy(r) = {top.lib}
  BY <1>1, TopType DEF Strong, References, ReferredBy, Imports
<1> HIDE DEF i, r
<1>6. /\ libs' \in Seq(LibraryObjects)
      /\ DOMAIN libs' = DOMAIN libs
      /\ Required(libs', i) = Required(libs, i) \union {top.lib}
      /\ \A j \in DOMAIN libs : j # i => Required(libs', j) = Required(libs, j)
  <2>1. Types
    BY DEF Shape
  <2>2. r \in References /\ libs' = WithRequirement(i, r)
    BY <1>4, <1>5 DEF WithRequirement
  <2> QED BY <1>3, <1>5, <2>1, <2>2, RequirementAppended
<1>7. /\ registry' \in [Names -> DOMAIN libs \union {None}]
      /\ \A n \in Names : registry'[n] = registry[n] \/ registry'[n] = top.lib
      /\ imports' \in Seq(Imports)
  BY <1>1, <1>4, TopType DEF Shape, Types, LibraryObjects
<1>8. Types'
  BY <1>4, <1>6, <1>7 DEF Shape, Types
<1>9. HeldTargets' = HeldTargets
  BY <1>4 DEF HeldTargets
<1>10. Targeted'
  BY <1>1, <1>6, <1>9, TopType DEF Shape, Targeted
<1>11. /\ DOMAIN imports' = 1 .. Len(imports) - 1 /\ Len(imports') = Len(imports) - 1
       /\ \A k \in DOMAIN imports' :
            k + 1 \in DOMAIN imports /\ imports'[k] = imports[k + 1] /\ k + 1 # 1
  BY <1>1, <1>2, <1>4, TopType
<1>12. \A k \in DOMAIN imports : k # 1 => imports[k].lib # top.lib
  BY <1>1, <1>2, TopType DEF Shape, OnlyStacked
<1>13. OnlyStacked'
  <2> SUFFICES ASSUME NEW k \in DOMAIN imports'
               PROVE  LET l == imports'[k].lib
                      IN /\ l \in alive'
                         /\ \A j \in DOMAIN imports' : imports'[j].lib = l => j = k
                         /\ l \notin HeldTargets'
                         /\ \A m \in DOMAIN libs' : l \notin Required(libs', m)
                         /\ \A n \in Names : registry'[n] # l
    BY DEF OnlyStacked
  <2> DEFINE l == imports[k + 1].lib
  <2>1. /\ k + 1 \in DOMAIN imports /\ imports'[k] = imports[k + 1]
        /\ l # top.lib
    BY <1>11, <1>12
  <2>2. /\ l \in alive /\ l \notin HeldTargets
        /\ \A m \in DOMAIN libs : l \notin Required(libs, m)
        /\ \A n \in Names : registry[n] # l
        /\ \A j \in DOMAIN imports : imports[j].lib = l => j = k + 1
    BY <2>1 DEF Shape, OnlyStacked
  <2> HIDE DEF l
  <2>3. \A j \in DOMAIN imports' : imports'[j].lib = l => j = k
    <3>1. ASSUME NEW j \in DOMAIN imports', imports'[j].lib = l
          PROVE  j = k
      <4>1. j + 1 \in DOMAIN imports /\ imports[j + 1].lib = l
        BY <1>11, <3>1
      <4>2. j + 1 = k + 1 /\ j \in Nat /\ k \in Nat
        BY <1>2, <1>11, <2>2, <4>1
      <4> QED BY <4>2
    <3> QED BY <3>1
  <2>4. \A m \in DOMAIN libs' : l \notin Required(libs', m)
    BY <1>6, <2>1, <2>2
  <2> QED BY <1>4, <1>7, <1>9, <2>1, <2>2, <2>3, <2>4 DEF l
<1>14. Bottom'
  <2> SUFFICES ASSUME NEW k \in DOMAIN imports'
               PROVE  /\ imports'[k].lib \in leaked' <=> imports'[k].kind = "execute"
                      /\ k # Len(imports') => imports'[k].kind = "import"
                      /\ k = Len(imports') /\ imports'[k].kind = "import" =>
                           /\ kept' => imports'[k].holder # None
                           /\ imports'[k].holder # None =>
                                held'[imports'[k].holder] = Nothing
    BY DEF Bottom
  <2>1. /\ k + 1 \in DOMAIN imports /\ imports'[k] = imports[k + 1]
        /\ k = Len(imports') <=> k + 1 = Len(imports)
    BY <1>2, <1>11
  <2> QED BY <1>4, <2>1 DEF Shape, Bottom
<1>15. \A k \in DOMAIN imports' : imports'[k].lib \in DOMAIN libs'
  BY <1>8, <1>13 DEF OnlyStacked, Types
<1>16. Roots(imports, held) \subseteq Kept(libs, imports, held)'
  <2>1. /\ \A k \in DOMAIN imports' : imports'[k].lib \in Kept(libs, imports, held)'
        /\ leaked' \subseteq Kept(libs, imports, held)'
        /\ HeldTargets' \subseteq Kept(libs, imports, held)'
        /\ Closed(libs', Kept(libs, imports, held)')
    BY <1>8, <1>10, <1>15, RootsKeptAfter
  <2>2. i \in Kept(libs, imports, held)'
    <3>1. 1 \in DOMAIN imports' /\ imports'[1] = imports[2]
      BY <1>2, <1>4, <1>11
    <3> QED BY <2>1, <3>1 DEF i
  <2>3. top.lib \in Kept(libs, imports, held)'
    BY <1>6, <2>1, <2>2 DEF Closed
  <2>4. \A k \in DOMAIN imports : imports[k].lib \in Kept(libs, imports, held)'
    <3>1. ASSUME NEW k \in DOMAIN imports, k # 1
          PROVE  k - 1 \in DOMAIN imports' /\ imports'[k - 1] = imports[k]
      <4>1. k - 1 \in DOMAIN imports'
        BY <1>2, <1>11, <3>1
      <4>2. imports'[k - 1] = imports[(k - 1) + 1] /\ (k - 1) + 1 = k
        BY <1>2, <1>11, <4>1
      <4> QED BY <4>1, <4>2
    <3> QED BY <1>1, <2>1, <2>3, <3>1, TopType
  <2> QED BY <1>4, <1>9, <2>1, <2>4 DEF Roots, HeldTargets
<1>17. AliveKept'
  <2>1. /\ \A j \in DOMAIN libs : Required(libs, j) \subseteq Required(libs', j)
        /\ DOMAIN libs \subseteq DOMAIN libs' /\ alive' = alive
    BY <1>4, <1>6
  <2> QED BY <1>8, <1>10, <1>15, <1>16, <2>1, AliveStays
<1> QED BY <1>2, <1>3, <1>4, <1>5, <1>8, <1>10, <1>13, <1>14, <1>17 DEF Shape, i, r

(* An import nobody waits for: its reference goes to the variable.         *)
LEMMA ReturnedShape ==
  ASSUME Shape, FinishImport, Tail(imports) = <<>>
  PROVE  LET hs == IF top.holder = None THEN held
                   ELSE [held EXCEPT ![top.holder] = Strong(top.lib)]
         IN /\ Shape' /\ Release(<<>>, hs) /\ held' = hs
            /\ imports # <<>> /\ Len(imports) = 1 /\ top.kind = "import"
            /\ UNCHANGED <<libs, leaked, kept, clash>>
            /\ registry' = [registry EXCEPT ![file.name] = top.lib]
            /\ hs \in [Holders -> References]
            /\ top.holder # None => top.holder \in Holders
            /\ Targets({hs[h] : h \in Holders})
                 = HeldTargets \union (IF top.holder = None THEN {} ELSE {top.lib})
<1> DEFINE r == Strong(top.lib)
           hs == IF top.holder = None THEN held
                 ELSE [held EXCEPT ![top.holder] = r]
<1>1. /\ imports # <<>> /\ top.kind = "import" /\ Release(<<>>, hs)
      /\ UNCHANGED <<libs, leaked, kept, clash>>
      /\ registry' = [registry EXCEPT ![file.name] = top.lib]
  BY DEF FinishImport, Finished, Loaded, Deliver, history
<1>2. /\ Len(imports) = 1 /\ imports \in Seq(Imports)
      /\ top.holder # None => top.holder \in Holders /\ held[top.holder] = Nothing
      /\ top.lib \in DOMAIN libs
  <2>1. imports \in Seq(Imports) /\ Len(imports) = 1
    <3>1. imports \in Seq(Imports) /\ imports # <<>>
      BY <1>1 DEF Shape, Types
    <3>2. Len(Tail(imports)) = Len(imports) - 1
      BY <1>1, TopType
    <3>3. Len(Tail(imports)) = 0
      <4> DEFINE rest == Tail(imports)
      <4>1. rest = <<>>
        OBVIOUS
      <4> HIDE DEF rest
      <4>2. Len(rest) = 0
        BY <4>1
      <4> QED BY <4>2 DEF rest
    <3>4. Len(imports) \in Nat
      BY <3>1
    <3> DEFINE n == Len(imports)
    <3>5. n - 1 = 0 /\ n \in Nat
      BY <3>2, <3>3, <3>4, Zenon
    <3> HIDE DEF n
    <3>6. n = 1
      BY <3>5
    <3> QED BY <3>1, <3>6 DEF n
  <2>2. /\ top = imports[1] /\ 1 \in DOMAIN imports /\ top \in Imports
        /\ top.lib \in DOMAIN libs
    BY <1>1, TopType
  <2>3. top.holder # None => held[top.holder] = Nothing
    BY <1>1, <2>1, <2>2 DEF Shape, Bottom
  <2> QED BY <2>1, <2>2, <2>3 DEF Imports
<1>3. r \in References /\ ~r.weak /\ r.lib = top.lib
  BY <1>1, TopType DEF Strong, References, Imports
<1>4. Nothing.weak
  BY DEF Nothing, Weak
<1> HIDE DEF r
<1>5. hs \in [Holders -> References]
  BY <1>2, <1>3 DEF Shape, Types
<1>6. Targets({hs[h] : h \in Holders})
        = HeldTargets \union (IF top.holder = None THEN {} ELSE {top.lib})
  <2>1. CASE top.holder = None
    BY <2>1 DEF HeldTargets
  <2>2. CASE top.holder # None
    <3>1. {x \in {hs[h] : h \in Holders} : ~x.weak}
            = {x \in {held[h] : h \in Holders} : ~x.weak} \union {r}
      <4>1. \A h \in Holders : IF h = top.holder THEN hs[h] = r /\ held[h].weak
                                                ELSE hs[h] = held[h]
        BY <1>2, <1>4, <2>2 DEF Shape, Types
      <4> HIDE DEF hs
      <4> QED BY <1>2, <1>3, <2>2, <4>1
    <3> HIDE DEF hs
    <3> QED BY <1>3, <2>2, <3>1 DEF HeldTargets, Targets
  <2> QED BY <2>1, <2>2
<1> HIDE DEF hs
<1>7. Targets({hs[h] : h \in Holders}) \subseteq DOMAIN libs
  BY <1>2, <1>6 DEF Shape, Targeted
<1>8. registry' \in [Names -> DOMAIN libs \union {None}]
  BY <1>1, <1>2 DEF Shape, Types
<1>9. kept' \in BOOLEAN /\ clash' \in BOOLEAN
  BY <1>1 DEF Shape, Types
<1>10. Shape'
  BY <1>1, <1>5, <1>7, <1>8, <1>9, ReleaseShape
<1>11. held' = hs
  BY <1>1 DEF Release
<1> QED BY <1>1, <1>2, <1>5, <1>6, <1>10, <1>11 DEF hs, r

(* The requirement and the class a library comes to next.                  *)
LEMMA RequirementNamed ==
  ASSUME Shape, Requiring
  PROVE  /\ Requirement \in Names /\ Len(file.requirements) \in Nat
         /\ Len(file.requirements) + 1 \in DOMAIN Requires[file.name]
<1>1. file \in LibraryObjects
  BY TopType DEF Requiring
<1>2. file.name \in Names /\ Len(file.requirements) \in Nat
  BY <1>1 DEF LibraryObjects
<1>3. Requires[file.name] \in Seq(Names)
  BY <1>2, RequiresAssumption
<1>4. Len(file.requirements) + 1 \in DOMAIN Requires[file.name]
  BY <1>2, <1>3 DEF Requiring
<1> QED BY <1>2, <1>3, <1>4 DEF Requirement

LEMMA ClassNamed ==
  ASSUME Shape, Loading
  PROVE  /\ Class \in ClassNames /\ Len(file.classes) \in Nat
         /\ Len(file.classes) + 1 \in DOMAIN Classes[file.name]
<1>1. file \in LibraryObjects
  BY TopType DEF Loading
<1>2. file.name \in Names /\ Len(file.classes) \in Nat
  BY <1>1 DEF LibraryObjects
<1>3. Classes[file.name] \in Seq(ClassNames)
  BY <1>2, ClassesAssumption
<1>4. Len(file.classes) + 1 \in DOMAIN Classes[file.name]
  BY <1>2, <1>3 DEF Loading
<1> QED BY <1>2, <1>3, <1>4 DEF Class

(* A class is listed by the library being loaded.                          *)
WithClass(i, c) == [libs EXCEPT ![i].classes = Append(@, c)]

LEMMA ClassListed ==
  ASSUME Shape, Loading,
         NEW ls, ls = WithClass(top.lib, Class)
  PROVE  /\ ls \in Seq(LibraryObjects)
         /\ DOMAIN ls = DOMAIN libs /\ Len(ls) = Len(libs)
         /\ \A j \in DOMAIN libs : Required(ls, j) = Required(libs, j)
         /\ \A j \in DOMAIN libs : /\ ls[j].name = libs[j].name
                                  /\ ls[j].requirements = libs[j].requirements
                                  /\ ls[j].initialized = libs[j].initialized
         /\ \A j \in DOMAIN libs : j # top.lib => ls[j] = libs[j]
         /\ ls[top.lib].classes = Append(libs[top.lib].classes, Class)
         /\ Range(ls[top.lib].classes) = Range(libs[top.lib].classes) \union {Class}
<1>1. /\ top.lib \in DOMAIN libs /\ file \in LibraryObjects /\ file = libs[top.lib]
      /\ Class \in ClassNames
  BY TopType, ClassNamed DEF Loading
<1> DEFINE x == [file EXCEPT !.classes = Append(@, Class)]
<1>2. file.classes \in Seq(ClassNames) /\ Append(file.classes, Class) \in Seq(ClassNames)
  BY <1>1 DEF LibraryObjects
<1>3. /\ x \in LibraryObjects /\ x.requirements = file.requirements
      /\ x.name = file.name /\ x.initialized = file.initialized
      /\ x.classes = Append(file.classes, Class)
  BY <1>1, <1>2 DEF LibraryObjects
<1>4. ls = WithObject(top.lib, x)
  BY <1>1 DEF WithObject, WithClass
<1> HIDE DEF x
<1>5. /\ ls \in Seq(LibraryObjects)
      /\ DOMAIN ls = DOMAIN libs /\ Len(ls) = Len(libs)
      /\ ls[top.lib] = x
      /\ \A j \in DOMAIN libs : j # top.lib => ls[j] = libs[j]
      /\ \A j \in DOMAIN libs : Required(ls, j) = Required(libs, j)
  <2> DEFINE i == top.lib
  <2>1. /\ Types /\ i \in DOMAIN libs /\ x \in LibraryObjects
        /\ x.requirements = libs[i].requirements
        /\ ls = WithObject(i, x)
    BY <1>1, <1>3, <1>4 DEF Shape
  <2> HIDE DEF i
  <2>2. /\ ls \in Seq(LibraryObjects)
        /\ DOMAIN ls = DOMAIN libs /\ Len(ls) = Len(libs)
        /\ ls[i] = x
        /\ \A j \in DOMAIN libs : j # i => ls[j] = libs[j]
        /\ \A j \in DOMAIN libs : Required(ls, j) = Required(libs, j)
    BY <2>1, ObjectChanged
  <2> QED BY <2>2 DEF i
<1>6. Range(Append(file.classes, Class)) = Range(file.classes) \union {Class}
  <2> DEFINE s == file.classes
             t == Append(s, Class)
  <2>1. /\ DOMAIN t = DOMAIN s \union {Len(s) + 1}
        /\ t[Len(s) + 1] = Class
        /\ \A k \in DOMAIN s : t[k] = s[k]
    <3> HIDE DEF s
    <3> QED BY <1>2 DEF s
  <2> HIDE DEF s, t
  <2>2. Range(t) = Range(s) \union {Class}
    BY <2>1 DEF Range
  <2> QED BY <2>2 DEF s, t
<1> QED BY <1>1, <1>3, <1>5, <1>6

(* A class is initialized.                                                 *)
WithInitialized(i) == [libs EXCEPT ![i].initialized = @ + 1]

LEMMA ClassInitialized ==
  ASSUME Shape, imports # <<>>,
         NEW ls, ls = WithInitialized(top.lib)
  PROVE  /\ ls \in Seq(LibraryObjects)
         /\ DOMAIN ls = DOMAIN libs /\ Len(ls) = Len(libs)
         /\ \A j \in DOMAIN libs : Required(ls, j) = Required(libs, j)
         /\ \A j \in DOMAIN libs : /\ ls[j].name = libs[j].name
                                  /\ ls[j].requirements = libs[j].requirements
                                  /\ ls[j].classes = libs[j].classes
         /\ \A j \in DOMAIN libs : j # top.lib => ls[j] = libs[j]
         /\ ls[top.lib].initialized = libs[top.lib].initialized + 1
<1>1. top.lib \in DOMAIN libs /\ file \in LibraryObjects /\ file = libs[top.lib]
  BY TopType
<1> DEFINE x == [file EXCEPT !.initialized = @ + 1]
<1>2. /\ x \in LibraryObjects /\ x.requirements = file.requirements
      /\ x.name = file.name /\ x.initialized = file.initialized + 1
      /\ x.classes = file.classes
  BY <1>1 DEF LibraryObjects
<1>3. ls = WithObject(top.lib, x)
  BY <1>1 DEF WithObject, WithInitialized
<1> HIDE DEF x
<1>4. /\ ls \in Seq(LibraryObjects)
      /\ DOMAIN ls = DOMAIN libs /\ Len(ls) = Len(libs)
      /\ ls[top.lib] = x
      /\ \A j \in DOMAIN libs : j # top.lib => ls[j] = libs[j]
      /\ \A j \in DOMAIN libs : Required(ls, j) = Required(libs, j)
  <2> DEFINE i == top.lib
  <2>1. /\ Types /\ i \in DOMAIN libs /\ x \in LibraryObjects
        /\ x.requirements = libs[i].requirements
        /\ ls = WithObject(i, x)
    BY <1>1, <1>2, <1>3 DEF Shape
  <2> HIDE DEF i
  <2>2. /\ ls \in Seq(LibraryObjects)
        /\ DOMAIN ls = DOMAIN libs /\ Len(ls) = Len(libs)
        /\ ls[i] = x
        /\ \A j \in DOMAIN libs : j # i => ls[j] = libs[j]
        /\ \A j \in DOMAIN libs : Required(ls, j) = Required(libs, j)
    BY <2>1, ObjectChanged
  <2> QED BY <2>2 DEF i
<1> QED BY <1>1, <1>2, <1>4

(* A requirement that is there already: the reference is weak.             *)
LEMMA RequiredAgain ==
  ASSUME Shape, RequireAgain
  PROVE  /\ libs' \in Seq(LibraryObjects)
         /\ DOMAIN libs' = DOMAIN libs /\ Len(libs') = Len(libs)
         /\ \A j \in DOMAIN libs : Required(libs', j) = Required(libs, j)
         /\ \A j \in DOMAIN libs : /\ libs'[j].name = libs[j].name
                                  /\ libs'[j].classes = libs[j].classes
                                  /\ libs'[j].initialized = libs[j].initialized
         /\ \A j \in DOMAIN libs : j # top.lib => libs'[j] = libs[j]
         /\ libs'[top.lib].requirements
              = Append(libs[top.lib].requirements, Weak(registry[Requirement]))
<1> DEFINE r == Weak(registry[Requirement])
           i == top.lib
<1>1. /\ Requirement \in Names /\ i \in DOMAIN libs
      /\ libs' = WithRequirement(i, r)
  BY RequirementNamed, TopType DEF RequireAgain, Requiring, WithRequirement
<1>2. r \in References /\ ReferredBy(r) = {}
  BY <1>1 DEF Weak, References, ReferredBy, Shape, Types
<1>3. Types
  BY DEF Shape
<1> HIDE DEF r, i
<1>4. /\ libs' \in Seq(LibraryObjects)
      /\ DOMAIN libs' = DOMAIN libs /\ Len(libs') = Len(libs)
      /\ \A j \in DOMAIN libs : /\ libs'[j].name = libs[j].name
                               /\ libs'[j].classes = libs[j].classes
                               /\ libs'[j].initialized = libs[j].initialized
      /\ libs'[i].requirements = Append(libs[i].requirements, r)
      /\ \A j \in DOMAIN libs : j # i => libs'[j] = libs[j]
      /\ Required(libs', i) = Required(libs, i) \union ReferredBy(r)
      /\ \A j \in DOMAIN libs : j # i => Required(libs', j) = Required(libs, j)
  <2>1. i \in DOMAIN libs /\ libs' = WithRequirement(i, r) /\ r \in References
    BY <1>1, <1>2
  <2> QED BY <1>3, <2>1, RequirementAppended
<1>5. \A j \in DOMAIN libs : Required(libs', j) = Required(libs, j)
  BY <1>2, <1>4
<1> QED BY <1>4, <1>5 DEF r, i

LEMMA ShapeNext ==
  ASSUME Shape, [Next]_vars
  PROVE  Shape'
<1>1. CASE UNCHANGED vars
  <2>1. Types'
    BY <1>1 DEF vars, history, Shape, Types
  <2>2. HeldTargets' = HeldTargets /\ Roots(imports, held)' = Roots(imports, held)
    BY <1>1 DEF vars, HeldTargets, Roots
  <2>3. Targeted'
    BY <1>1, <2>2 DEF vars, Shape, Targeted
  <2>4. OnlyStacked' /\ Bottom'
    BY <1>1, <2>2 DEF vars, history, Shape, OnlyStacked, Bottom
  <2>5. AliveKept'
    BY <1>1, <2>2 DEF vars, Shape, AliveKept, Kept
  <2> QED BY <2>1, <2>3, <2>4, <2>5 DEF Shape
<1>2. ASSUME NEW n \in Names, Execute(n)
      PROVE  Shape'
  <2>1. libs = <<>> /\ Begin(n, "execute", None) /\ leaked' = {Fresh} /\ kept' = kept
    BY <1>2 DEF Execute
  <2>2. leaked = {} /\ imports = <<>>
    <3>1. DOMAIN libs = {}
      BY <2>1
    <3> QED BY <3>1, TopType DEF Shape, Types
  <2>3. kept' \in BOOLEAN
    BY <2>1 DEF Shape, Types
  <2> QED BY <2>1, <2>2, <2>3, BeginShape
<1>3. ASSUME NEW n \in Names, NEW h \in Holders \union {None}, Import(n, h)
      PROVE  Shape'
  <2>1. /\ imports = <<>> /\ Begin(n, "import", h) /\ leaked' = leaked
        /\ h # None => held[h] = Nothing
        /\ kept' = (kept /\ h # None) /\ kept \in BOOLEAN
    BY <1>3 DEF Import, Shape, Types
  <2> QED BY <2>1, BeginShape
<1>4. ASSUME NEW n \in Names, NEW h \in Holders \union {None}, ImportAgain(n, h)
      PROVE  Shape'
  BY <1>4, ImportAgainShape
<1>5. ASSUME NEW h \in Holders, Drop(h)
      PROVE  Shape'
  <2> DEFINE hs == [held EXCEPT ![h] = Nothing]
  <2>1. /\ Release(<<>>, hs) /\ kept' = FALSE
        /\ UNCHANGED <<libs, leaked, registry, clash>>
    BY <1>5 DEF Drop
  <2>2. Nothing \in References /\ Nothing.weak
    BY DEF Nothing, Weak, References
  <2>3. hs \in [Holders -> References]
    BY <2>2 DEF Shape, Types
  <2>4. \A g \in Holders : hs[g].weak \/ hs[g] = held[g]
    BY <2>2 DEF Shape, Types
  <2> HIDE DEF hs
  <2>5. Targets({hs[g] : g \in Holders}) \subseteq HeldTargets
    BY <2>4 DEF Targets, HeldTargets
  <2>6. Targets({hs[g] : g \in Holders}) \subseteq DOMAIN libs
    BY <2>5 DEF Shape, Targeted
  <2>7. /\ registry' \in [Names -> DOMAIN libs \union {None}]
        /\ kept' \in BOOLEAN /\ clash' \in BOOLEAN
    BY <2>1 DEF Shape, Types
  <2> QED BY <2>1, <2>3, <2>6, <2>7, ReleaseShape
<1>6. CASE Open
  <2>1. /\ imports # <<>>
        /\ imports' = <<[top EXCEPT !.step = "load"]>> \o Tail(imports)
        /\ UNCHANGED <<libs, alive, leaked, registry, recorded, held, kept, clash>>
    BY <1>6 DEF Open, history
  <2>2. /\ imports' \in Seq(Imports) /\ Len(imports') = Len(imports)
        /\ \A k \in DOMAIN imports : /\ imports'[k].lib = imports[k].lib
                                    /\ imports'[k].kind = imports[k].kind
                                    /\ imports'[k].holder = imports[k].holder
    BY <2>1, TopStepped
  <2>3. /\ libs' \in Seq(LibraryObjects) /\ DOMAIN libs' = DOMAIN libs
        /\ recorded' \in [ClassNames -> DOMAIN libs \union {None}]
        /\ clash' \in BOOLEAN
        /\ \A j \in DOMAIN libs : Required(libs', j) = Required(libs, j)
    BY <2>1 DEF Shape, Types
  <2> QED BY <2>1, <2>2, <2>3, QuietShape
<1>7. CASE Require
  <2>1. Begin(Requirement, "import", None) /\ Requirement \in Names
    BY <1>7, RequirementNamed DEF Require
  <2>2. imports # <<>> /\ leaked' = leaked /\ kept' = kept /\ kept \in BOOLEAN
    BY <1>7 DEF Require, Requiring, Shape, Types
  <2> QED BY <2>1, <2>2, BeginShape
<1>8. CASE RequireAgain
  <2>1. UNCHANGED <<alive, leaked, registry, recorded, imports, held, kept, clash>>
    BY <1>8 DEF RequireAgain, history
  <2>2. /\ libs' \in Seq(LibraryObjects) /\ DOMAIN libs' = DOMAIN libs
        /\ \A j \in DOMAIN libs : Required(libs', j) = Required(libs, j)
    BY <1>8, RequiredAgain
  <2>3. /\ imports' \in Seq(Imports) /\ clash' \in BOOLEAN
        /\ recorded' \in [ClassNames -> DOMAIN libs \union {None}]
    BY <2>1 DEF Shape, Types
  <2> QED BY <2>1, <2>2, <2>3, QuietShape
<1>9. CASE LoadClass
  <2>1. /\ UNCHANGED <<alive, leaked, registry, imports, held, kept, clash>>
        /\ libs' = WithClass(top.lib, Class) /\ Loading
        /\ recorded' = [recorded EXCEPT ![Class] = top.lib]
    BY <1>9 DEF LoadClass, history, WithClass
  <2>2. /\ libs' \in Seq(LibraryObjects) /\ DOMAIN libs' = DOMAIN libs
        /\ \A j \in DOMAIN libs : Required(libs', j) = Required(libs, j)
    BY <2>1, ClassListed
  <2>3. imports' \in Seq(Imports) /\ clash' \in BOOLEAN
    BY <2>1 DEF Shape, Types
  <2>4. recorded' \in [ClassNames -> DOMAIN libs \union {None}]
    BY <2>1, TopType DEF Shape, Types, Loading
  <2> QED BY <2>1, <2>2, <2>3, <2>4, QuietShape
<1>10. CASE AddConflicting
  <2>1. /\ UNCHANGED <<alive, leaked, registry, recorded, held, kept>> /\ clash' = TRUE
        /\ libs' = WithClass(top.lib, Class) /\ Loading /\ imports # <<>>
        /\ imports' = <<[top EXCEPT !.step = "conflict"]>> \o Tail(imports)
    BY <1>10 DEF AddConflicting, Loading, WithClass
  <2>2. /\ libs' \in Seq(LibraryObjects) /\ DOMAIN libs' = DOMAIN libs
        /\ \A j \in DOMAIN libs : Required(libs', j) = Required(libs, j)
    BY <2>1, ClassListed
  <2>3. /\ imports' \in Seq(Imports) /\ Len(imports') = Len(imports)
        /\ \A k \in DOMAIN imports : /\ imports'[k].lib = imports[k].lib
                                    /\ imports'[k].kind = imports[k].kind
                                    /\ imports'[k].holder = imports[k].holder
    BY <2>1, TopStepped
  <2>4. clash' \in BOOLEAN /\ recorded' \in [ClassNames -> DOMAIN libs \union {None}]
    BY <2>1 DEF Shape, Types
  <2> QED BY <2>1, <2>2, <2>3, <2>4, QuietShape
<1>11. CASE InitializeClass
  <2>1. /\ UNCHANGED <<alive, leaked, registry, recorded, imports, held, kept, clash>>
        /\ libs' = WithInitialized(top.lib) /\ imports # <<>>
    BY <1>11 DEF InitializeClass, Initializing, Loaded, history, WithInitialized
  <2>2. /\ libs' \in Seq(LibraryObjects) /\ DOMAIN libs' = DOMAIN libs
        /\ \A j \in DOMAIN libs : Required(libs', j) = Required(libs, j)
    BY <2>1, ClassInitialized
  <2>3. /\ imports' \in Seq(Imports) /\ clash' \in BOOLEAN
        /\ recorded' \in [ClassNames -> DOMAIN libs \union {None}]
    BY <2>1 DEF Shape, Types
  <2> QED BY <2>1, <2>2, <2>3, QuietShape
<1>12. CASE FinishImport
  <2>1. CASE Tail(imports) # <<>>
    BY <1>12, <2>1, DeliverShape
  <2>2. CASE Tail(imports) = <<>>
    BY <1>12, <2>2, ReturnedShape
  <2> QED BY <2>1, <2>2
<1>13. CASE FinishExecute
  BY <1>13, FinishExecuteShape
<1>14. CASE Throw
  <2>1. Release(<<>>, held) /\ UNCHANGED <<libs, leaked, registry, kept, clash>>
    BY <1>14 DEF Throw, history
  <2>2. /\ held \in [Holders -> References]
        /\ Targets({held[h] : h \in Holders}) \subseteq DOMAIN libs
        /\ registry' \in [Names -> DOMAIN libs \union {None}]
        /\ kept' \in BOOLEAN /\ clash' \in BOOLEAN
    BY <2>1 DEF Shape, Types, Targeted, HeldTargets
  <2> QED BY <2>1, <2>2, ReleaseShape
<1> QED BY <1>1, <1>2, <1>3, <1>4, <1>5, <1>6, <1>7, <1>8, <1>9, <1>10, <1>11,
           <1>12, <1>13, <1>14 DEF Next, Progress

(***************************************************************************)
(* What main and the variables keep                                        *)
(***************************************************************************)

(* What is kept by what is kept is kept.                                   *)
LEMMA KeptTogether ==
  ASSUME NEW ls, NEW roots, NEW others,
         others \subseteq DOMAIN ls,
         \A i \in DOMAIN ls : Required(ls, i) \subseteq DOMAIN ls,
         roots \subseteq KeptBy(ls, others)
  PROVE  KeptBy(ls, roots) \subseteq KeptBy(ls, others)
<1> DEFINE K == KeptBy(ls, others)
<1>1. K \in SUBSET DOMAIN ls /\ Closed(ls, K)
  BY KeptClosed
<1> HIDE DEF K
<1>2. roots \subseteq K
  BY DEF K
<1>3. KeptBy(ls, roots) \subseteq K
  BY <1>1, <1>2, KeptLeast
<1> QED BY <1>3 DEF K

(* A library on the stack, other than main's, is kept by the stack alone.  *)
LEMMA StackedNotStaying ==
  ASSUME Shape, NEW k \in DOMAIN imports, imports[k].lib \notin leaked
  PROVE  imports[k].lib \notin Staying
<1> DEFINE i == imports[k].lib
           S == DOMAIN libs \ {i}
<1>1. /\ i \notin HeldTargets
      /\ \A l \in DOMAIN libs : i \notin Required(libs, l)
  BY DEF Shape, OnlyStacked
<1>2. /\ S \in SUBSET DOMAIN libs
      /\ leaked \union HeldTargets \subseteq S
      /\ Closed(libs, S)
  BY <1>1 DEF Shape, Targeted, Types, Closed
<1> HIDE DEF S
<1>3. Staying \subseteq S
  BY <1>2, KeptLeast DEF Staying
<1> QED BY <1>3 DEF S

(* If the stack is kept without itself, everything is.                     *)
LEMMA AllStaying ==
  ASSUME Shape, \A k \in DOMAIN imports : imports[k].lib \in Staying
  PROVE  alive \subseteq Staying
<1>1. /\ Roots(imports, held) \subseteq Staying
      /\ leaked \union HeldTargets \subseteq DOMAIN libs
      /\ \A i \in DOMAIN libs : Required(libs, i) \subseteq DOMAIN libs
  BY RootsKept DEF Roots, HeldTargets, Shape, Targeted, Types
<1>2. KeptBy(libs, Roots(imports, held)) \subseteq Staying
  BY <1>1, KeptTogether DEF Staying
<1> QED BY <1>2 DEF Shape, AliveKept, Kept

(* Requirements of others than those who stay make no difference.          *)
LEMMA StayingSame ==
  ASSUME Shape, Shape',
         leaked' \union HeldTargets' = leaked \union HeldTargets,
         DOMAIN libs \subseteq DOMAIN libs',
         \A j \in DOMAIN libs : Required(libs, j) \subseteq Required(libs', j),
         \A j \in Staying : Required(libs', j) = Required(libs, j)
  PROVE  Staying' = Staying
<1> DEFINE roots == leaked \union HeldTargets
           K == KeptBy(libs', roots)
           S == Staying
<1>1. Staying' = K
  BY DEF Staying
<1>2. /\ roots \subseteq S /\ S \subseteq DOMAIN libs /\ Closed(libs, S)
      /\ roots \subseteq DOMAIN libs
      /\ \A i \in DOMAIN libs : Required(libs, i) \subseteq DOMAIN libs
  BY RootsKept DEF Shape, Targeted, Types
<1>3. \A i \in DOMAIN libs' : Required(libs', i) \subseteq DOMAIN libs'
  BY DEF Shape, Targeted
<1>4. Closed(libs', S)
  BY <1>2 DEF Closed
<1>5. S = KeptBy(libs, roots)
  BY DEF Staying
<1> HIDE DEF roots, S
<1>6. S \in SUBSET DOMAIN libs' /\ roots \subseteq DOMAIN libs'
  BY <1>2
<1>7. K \subseteq S
  BY <1>2, <1>4, <1>6, KeptLeast
<1>8. roots \subseteq K /\ Closed(libs', K)
  BY <1>3, <1>6, KeptClosed
<1> HIDE DEF K
<1>9. KeptBy(libs, roots) \subseteq K
  <2>1. \A i \in DOMAIN libs :
          Required(libs, i) \subseteq Required(libs', i) \intersect DOMAIN libs
    BY <1>2
  <2> QED BY <1>2, <1>8, <2>1, KeptGrows
<1> QED BY <1>1, <1>5, <1>7, <1>9 DEF S

(***************************************************************************)
(* What is on record                                                       *)
(***************************************************************************)

(* Steps that record nothing and unrecord nothing.                         *)
LEMMA QuietRecorded ==
  ASSUME Shape, Recorded, Staying' = Staying,
         recorded' = recorded, clash' = clash, kept' => kept,
         alive \subseteq alive',
         \A i \in alive' \ alive : Range(libs'[i].classes) = {},
         \A i \in DOMAIN libs : libs'[i].classes = libs[i].classes
  PROVE  Recorded'
<1>1. \A i \in alive : Listed(i)' = Listed(i)
  BY DEF Listed, Shape, Types
<1>2. RecordsListed'
  BY <1>1 DEF Recorded, RecordsListed
<1>3. ListedRecorded'
  BY <1>1 DEF Recorded, ListedRecorded, Listed
<1>4. kept' /\ ~clash' => SupersStay'
  BY DEF Recorded, SupersStay
<1> QED BY <1>2, <1>3, <1>4 DEF Recorded

(* Everything alive is going to stay: nothing is left to show.             *)
LEMMA StayingRecorded ==
  ASSUME Shape, Recorded, kept => alive \subseteq Staying',
         recorded' = recorded, alive' = alive, clash' = clash, kept' => kept,
         \A i \in DOMAIN libs : libs'[i].classes = libs[i].classes
  PROVE  Recorded'
<1>1. \A i \in alive : Listed(i)' = Listed(i)
  BY DEF Listed, Shape, Types
<1>2. RecordsListed' /\ ListedRecorded'
  BY <1>1 DEF Recorded, RecordsListed, ListedRecorded
<1>3. ASSUME kept', ~clash', NEW c \in ClassNames, recorded[c] # None, Super[c] # Builtin
      PROVE  /\ recorded[Super[c]] # None
             /\ recorded[c] \in Staying' => recorded[Super[c]] \in Staying'
  <2>1. recorded[Super[c]] # None /\ Super[c] \in ClassNames
    BY <1>3, SuperAssumption DEF Recorded, SupersStay
  <2>2. recorded[Super[c]] \in alive
    BY <2>1 DEF Recorded, RecordsListed
  <2> QED BY <1>3, <2>1, <2>2
<1>4. kept' /\ ~clash' => SupersStay'
  BY <1>3 DEF SupersStay
<1> QED BY <1>2, <1>4 DEF Recorded

(* When libraries are destroyed, the others' classes stay on record.       *)
LEMMA ReleaseRecorded ==
  ASSUME Shape, Recorded, NEW stack, NEW hs, Release(stack, hs),
         libs' = libs, clash' = clash
  PROVE  /\ RecordsListed' /\ ListedRecorded'
         /\ alive' = Kept(libs, stack, hs) \intersect alive
         /\ \A c \in ClassNames : recorded'[c] # None =>
              recorded[c] # None /\ recorded[c] \in alive'
         /\ \A c \in ClassNames :
              ~clash /\ recorded[c] # None /\ recorded[c] \in alive'
                => recorded'[c] = recorded[c]
<1> DEFINE dead == alive \ alive'
           gone == UNION {Range(libs[i].classes) : i \in dead}
<1>1. /\ alive' = Kept(libs, stack, hs) \intersect alive
      /\ recorded' = Unrecord(dead)
      /\ alive' \subseteq alive
  BY DEF Release
<1>2. \A c \in ClassNames : recorded'[c] = IF c \in gone THEN None ELSE recorded[c]
  BY <1>1 DEF Unrecord
<1>3. \A c : c \in gone <=> \E i \in alive : i \notin alive' /\ c \in Listed(i)
  BY DEF Listed
<1> HIDE DEF dead, gone
<1>4. ASSUME NEW c \in ClassNames, recorded'[c] # None
      PROVE  /\ recorded[c] # None /\ recorded[c] \in alive'
             /\ recorded'[c] = recorded[c] /\ c \in Listed(recorded[c])
  <2>1. c \notin gone /\ recorded'[c] = recorded[c]
    BY <1>2, <1>4
  <2>2. recorded[c] \in alive /\ c \in Listed(recorded[c])
    BY <1>4, <2>1 DEF Recorded, RecordsListed
  <2> QED BY <1>3, <1>4, <2>1, <2>2
<1>5. ASSUME NEW c \in ClassNames, ~clash, recorded[c] # None, recorded[c] \in alive'
      PROVE  recorded'[c] = recorded[c]
  <2>1. \A i \in alive : c \in Listed(i) => recorded[c] = i
    BY <1>5 DEF Recorded, ListedRecorded
  <2>2. c \notin gone
    BY <1>3, <1>5, <2>1
  <2> QED BY <1>2, <2>2
<1>6. \A i : Listed(i)' = Listed(i)
  BY DEF Listed
<1>7. RecordsListed'
  BY <1>4, <1>6 DEF RecordsListed
<1>8. ListedRecorded'
  <2>1. ASSUME ~clash, NEW i \in alive', NEW c \in Listed(i)
        PROVE  recorded'[c] = i
    <3>1. i \in alive /\ recorded[c] = i
      BY <1>1, <2>1 DEF Recorded, ListedRecorded
    <3>2. i # None /\ c \in ClassNames
      <4>1. libs[i] \in LibraryObjects /\ i \in Nat
        BY <3>1 DEF Shape, Types
      <4>2. libs[i].classes \in Seq(ClassNames)
        BY <4>1 DEF LibraryObjects
      <4> DEFINE s == libs[i].classes
      <4> HIDE DEF s
      <4>3. s \in Seq(ClassNames) => Range(s) \subseteq ClassNames
        BY DEF Range
      <4> QED BY <4>1, <4>2, <4>3, NoneAssumption, <2>1 DEF Listed, s
    <3> QED BY <1>5, <2>1, <3>1, <3>2
  <2> QED BY <1>6, <2>1 DEF ListedRecorded
<1> QED BY <1>1, <1>4, <1>5, <1>7, <1>8

(* A class is recorded: by a library that is going to go, or by main's,    *)
(* while nothing else is in progress.                                      *)
LEMMA LoadRecorded ==
  ASSUME Shape, Recorded, Shape', LoadClass
  PROVE  Recorded'
<1> DEFINE c0 == Class
           t == top.lib
<1>1. /\ Loading /\ c0 \in Resolvable \union ClassNames
      /\ Super[c0] \in Resolvable /\ recorded[c0] = None
      /\ libs' = WithClass(t, c0)
      /\ recorded' = [recorded EXCEPT ![c0] = t]
      /\ UNCHANGED <<alive, leaked, registry, imports, held, kept, clash>>
  BY ClassNamed DEF LoadClass, Resolves, WithClass, history
<1>2. /\ DOMAIN libs' = DOMAIN libs
      /\ \A j \in DOMAIN libs : Required(libs', j) = Required(libs, j)
      /\ \A j \in DOMAIN libs : j # t => libs'[j] = libs[j]
      /\ Range(libs'[t].classes) = Range(libs[t].classes) \union {c0}
  BY <1>1, ClassListed
<1>3. c0 \in ClassNames /\ t \in alive /\ 1 \in DOMAIN imports /\ top = imports[1]
  BY <1>1, ClassNamed, TopType DEF Loading
<1>4. \A c \in ClassNames : recorded'[c] = IF c = c0 THEN t ELSE recorded[c]
  BY <1>1, <1>3 DEF Shape, Types
<1>5. \A i \in alive : Listed(i)' = IF i = t THEN Listed(i) \union {c0} ELSE Listed(i)
  BY <1>2, <1>3 DEF Listed, Shape, Types
<1>6. alive \subseteq Nat
  BY DEF Shape, Types
<1> HIDE DEF c0, t
<1>7. RecordsListed'
  <2>1. ASSUME NEW c \in ClassNames, recorded'[c] # None
        PROVE  recorded'[c] \in alive /\ c \in Range(libs'[recorded'[c]].classes)
    <3>1. CASE c = c0
      <4>1. recorded'[c] = t
        BY <1>4, <3>1
      <4> QED BY <1>2, <1>3, <3>1, <4>1
    <3>2. CASE c # c0
      <4>1. /\ recorded'[c] = recorded[c] /\ recorded[c] \in alive
            /\ c \in Listed(recorded[c])
        BY <1>4, <2>1, <3>2 DEF Recorded, RecordsListed
      <4>2. Listed(recorded[c]) \subseteq Range(libs'[recorded[c]].classes)
        BY <1>5, <4>1 DEF Listed
      <4> QED BY <4>1, <4>2
    <3> QED BY <3>1, <3>2
  <2> QED BY <1>1, <2>1 DEF RecordsListed, Listed
<1>8. ListedRecorded'
  <2>1. ASSUME ~clash, NEW i \in alive, NEW c \in Listed(i)'
        PROVE  recorded'[c] = i
    <3>1. CASE c \in Listed(i)
      <4>1. recorded[c] = i /\ c # c0 /\ i # None
        BY <1>1, <1>6, <2>1, <3>1, NoneAssumption DEF Recorded, ListedRecorded
      <4> QED BY <1>1, <1>3, <4>1 DEF Shape, Types
    <3>2. CASE c \notin Listed(i)
      BY <1>3, <1>4, <1>5, <2>1, <3>2
    <3> QED BY <3>1, <3>2
  <2> QED BY <1>1, <2>1 DEF ListedRecorded
<1>9. kept' /\ ~clash' => SupersStay'
  <2> SUFFICES ASSUME kept, ~clash, NEW c \in ClassNames,
                      recorded'[c] # None, Super[c] # Builtin
               PROVE  /\ recorded'[Super[c]] # None
                      /\ recorded'[c] \in Staying' => recorded'[Super[c]] \in Staying'
    BY <1>1 DEF SupersStay
  <2>1. Staying' = Staying
    <3>1. HeldTargets' = HeldTargets
      BY <1>1 DEF HeldTargets
    <3> QED BY <1>1, <1>2, <3>1, StayingSame, RootsKept
  <2>2. CASE c # c0
    <3>1. recorded[c] # None /\ recorded'[c] = recorded[c]
      BY <1>4, <2>2
    <3>2. /\ recorded[Super[c]] # None
          /\ recorded[c] \in Staying => recorded[Super[c]] \in Staying
      BY <3>1 DEF Recorded, SupersStay
    <3>3. Super[c] \in ClassNames /\ Super[c] # c0
      BY <1>1, <3>2, SuperAssumption
    <3> QED BY <1>4, <2>1, <3>1, <3>2, <3>3
  <2>3. CASE c = c0
    <3>1. /\ Super[c] \in ClassNames /\ recorded[Super[c]] # None /\ Super[c] # c0
      BY <1>1, <2>3 DEF Resolvable
    <3>2. /\ recorded'[Super[c]] = recorded[Super[c]] /\ recorded'[c] = t
          /\ recorded[Super[c]] \in alive
      BY <1>3, <1>4, <2>3, <3>1 DEF Recorded, RecordsListed
    <3>3. CASE t \in leaked
      <4>1. imports[1].kind = "execute" /\ Len(imports) = 1
        BY <1>3, <3>3 DEF Shape, Bottom, t
      <4>2. \A k \in DOMAIN imports : imports[k].lib = t
        BY <1>3, <4>1 DEF t, Shape, Types
      <4>3. alive \subseteq Staying
        BY <3>3, <4>2, AllStaying, RootsKept
      <4> QED BY <2>1, <3>1, <3>2, <4>3
    <3>4. CASE t \notin leaked
      <4>1. t \notin Staying
        BY <1>3, <3>4, StackedNotStaying DEF t
      <4> QED BY <2>1, <3>1, <3>2, <4>1
    <3> QED BY <3>3, <3>4
  <2> QED BY <2>2, <2>3
<1> QED BY <1>7, <1>8, <1>9 DEF Recorded

(* An import that another one waits for.                                   *)
LEMMA DeliverRecorded ==
  ASSUME Shape, Recorded, Shape', FinishImport, Tail(imports) # <<>>
  PROVE  Recorded'
<1> DEFINE i == imports[2].lib
           r == Strong(top.lib)
<1>1. /\ Len(imports) > 1 /\ i \in DOMAIN libs
      /\ libs' = WithRequirement(i, r) /\ r \in References
      /\ 2 \in DOMAIN imports /\ imports # <<>>
  BY DeliverShape DEF WithRequirement, FinishImport, Finished, Loaded
<1>2. /\ imports' = Tail(imports)
      /\ UNCHANGED <<alive, recorded, held, leaked, kept, clash>>
  BY DEF FinishImport, Deliver, history
<1> HIDE DEF i, r
<1>3. /\ DOMAIN libs' = DOMAIN libs
      /\ \A j \in DOMAIN libs : libs'[j].classes = libs[j].classes
      /\ Required(libs', i) = Required(libs, i) \union ReferredBy(r)
      /\ \A j \in DOMAIN libs : j # i => Required(libs', j) = Required(libs, j)
  <2>1. Types
    BY DEF Shape
  <2> QED BY <1>1, <2>1, RequirementAppended
<1>4. HeldTargets' = HeldTargets
  BY <1>2 DEF HeldTargets
<1>5. CASE i \in leaked
  <2>1. imports[2].kind = "execute" /\ Len(imports) = 2
    BY <1>1, <1>5 DEF i, Shape, Bottom
  <2>2. Len(imports') = 1 /\ imports'[1] = imports[2] /\ imports' \in Seq(Imports)
    BY <1>1, <1>2, <2>1, TopType
  <2>3. \A k \in DOMAIN imports' : imports'[k].lib = i
    BY <2>2 DEF i
  <2>4. alive' \subseteq Staying'
    <3> DEFINE new == Roots(imports, held)'
               roots == leaked \union HeldTargets
    <3>1. new \subseteq roots
      BY <1>2, <1>5, <2>3 DEF Roots, HeldTargets
    <3>2. roots \subseteq DOMAIN libs' /\ \A j \in DOMAIN libs' : Required(libs', j) \subseteq DOMAIN libs'
      BY <1>3 DEF Shape, Targeted, Types
    <3>3. Staying' = KeptBy(libs', roots) /\ alive' \subseteq KeptBy(libs', new)
      BY <1>2, <1>4 DEF Staying, Shape, AliveKept, Kept
    <3> HIDE DEF new, roots
    <3>4. roots \subseteq KeptBy(libs', roots)
      BY <3>2, KeptClosed
    <3>5. new \subseteq KeptBy(libs', roots)
      BY <3>1, <3>4
    <3>6. KeptBy(libs', new) \subseteq KeptBy(libs', roots)
      BY <3>2, <3>5, KeptTogether
    <3> QED BY <3>3, <3>6
  <2> QED BY <1>2, <1>3, <2>4, StayingRecorded
<1>6. CASE i \notin leaked
  <2>1. i \notin Staying
    BY <1>1, <1>6, StackedNotStaying DEF i
  <2>2. Staying' = Staying
    <3>1. \A j \in DOMAIN libs : Required(libs, j) \subseteq Required(libs', j)
      BY <1>3
    <3>2. \A j \in Staying : Required(libs', j) = Required(libs, j)
      BY <1>3, <2>1, RootsKept
    <3> QED BY <1>2, <1>3, <1>4, <3>1, <3>2, StayingSame
  <2> QED BY <1>2, <1>3, <2>2, QuietRecorded
<1> QED BY <1>5, <1>6

(* An import that nobody waits for.                                        *)
LEMMA ReturnedRecorded ==
  ASSUME Shape, Recorded, Shape', FinishImport, Tail(imports) = <<>>
  PROVE  Recorded'
<1> DEFINE hs == IF top.holder = None THEN held
                 ELSE [held EXCEPT ![top.holder] = Strong(top.lib)]
<1>1. /\ Release(<<>>, hs) /\ held' = hs /\ imports # <<>>
      /\ Len(imports) = 1 /\ top.kind = "import"
      /\ UNCHANGED <<libs, leaked, kept, clash>>
      /\ Targets({hs[h] : h \in Holders})
           = HeldTargets \union (IF top.holder = None THEN {} ELSE {top.lib})
  BY ReturnedShape
<1> HIDE DEF hs
<1>2. /\ RecordsListed' /\ ListedRecorded'
      /\ alive' = Kept(libs, <<>>, hs) \intersect alive
      /\ \A c \in ClassNames : recorded'[c] # None =>
           recorded[c] # None /\ recorded[c] \in alive'
      /\ \A c \in ClassNames :
           ~clash /\ recorded[c] # None /\ recorded[c] \in alive'
             => recorded'[c] = recorded[c]
  BY <1>1, ReleaseRecorded
<1>3. ASSUME kept
      PROVE  alive \subseteq KeptBy(libs, leaked \union Targets({hs[h] : h \in Holders}))
  <2>1. top.holder # None
    BY <1>1, <1>3, TopType DEF Shape, Bottom
  <2>2. Roots(imports, held) = leaked \union Targets({hs[h] : h \in Holders})
    <3>1. {imports[k].lib : k \in DOMAIN imports} = {top.lib}
      BY <1>1, TopType DEF Shape, Types
    <3> QED BY <1>1, <2>1, <3>1 DEF Roots, HeldTargets
  <2> QED BY <2>2 DEF Shape, AliveKept, Kept
<1>4. /\ Roots(<<>>, hs) = leaked \union Targets({hs[h] : h \in Holders})
      /\ Staying' = KeptBy(libs, leaked \union Targets({hs[h] : h \in Holders}))
  BY <1>1 DEF Roots, Staying, HeldTargets
<1>5. ASSUME kept', ~clash', NEW c \in ClassNames,
             recorded'[c] # None, Super[c] # Builtin
      PROVE  recorded'[Super[c]] # None /\ recorded'[Super[c]] \in Staying'
  <2>1. alive' = alive /\ alive \subseteq Staying'
    BY <1>1, <1>2, <1>3, <1>4, <1>5 DEF Kept
  <2>2. recorded[c] # None /\ recorded[Super[c]] # None /\ Super[c] \in ClassNames
    BY <1>1, <1>2, <1>5, SuperAssumption DEF Recorded, SupersStay
  <2>3. recorded[Super[c]] \in alive
    BY <2>2 DEF Recorded, RecordsListed
  <2> QED BY <1>1, <1>2, <1>5, <2>1, <2>2, <2>3
<1>6. kept' /\ ~clash' => SupersStay'
  BY <1>5 DEF SupersStay
<1> QED BY <1>2, <1>6 DEF Recorded

(* An exception: those who stay have their super classes with them.        *)
LEMMA ThrowRecorded ==
  ASSUME Shape, Recorded, Throw
  PROVE  Recorded'
<1>1. Release(<<>>, held) /\ held' = held /\ UNCHANGED <<libs, leaked, registry, kept, clash>>
  BY DEF Throw, history, Release
<1>2. /\ RecordsListed' /\ ListedRecorded'
      /\ alive' = Kept(libs, <<>>, held) \intersect alive
      /\ \A c \in ClassNames : recorded'[c] # None =>
           recorded[c] # None /\ recorded[c] \in alive'
      /\ \A c \in ClassNames :
           ~clash /\ recorded[c] # None /\ recorded[c] \in alive'
             => recorded'[c] = recorded[c]
  BY <1>1, ReleaseRecorded
<1>3. Kept(libs, <<>>, held) = Staying /\ Staying' = Staying
  <2>1. Roots(<<>>, held) = leaked \union HeldTargets
    BY DEF Roots, HeldTargets
  <2>2. HeldTargets' = HeldTargets
    BY <1>1 DEF HeldTargets
  <2>3. Staying' = Staying
    BY <1>1, <2>2 DEF Staying
  <2> QED BY <2>1, <2>3 DEF Kept, Staying
<1>4. ASSUME kept', ~clash', NEW c \in ClassNames,
             recorded'[c] # None, Super[c] # Builtin
      PROVE  recorded'[Super[c]] # None /\ recorded'[Super[c]] \in Staying'
  <2>1. recorded[c] # None /\ recorded[c] \in Staying
    BY <1>2, <1>3, <1>4
  <2>2. /\ recorded[Super[c]] # None /\ Super[c] \in ClassNames
        /\ recorded[Super[c]] \in Staying
    BY <1>1, <1>4, <2>1, SuperAssumption DEF Recorded, SupersStay
  <2>3. recorded[Super[c]] \in alive'
    BY <1>2, <1>3, <2>2 DEF Recorded, RecordsListed
  <2> QED BY <1>1, <1>2, <1>3, <1>4, <2>2, <2>3
<1>5. kept' /\ ~clash' => SupersStay'
  BY <1>4 DEF SupersStay
<1> QED BY <1>2, <1>5 DEF Recorded

LEMMA BeginRecorded ==
  ASSUME Shape, Recorded, Shape', NEW n \in Names, NEW kind, NEW holder,
         Begin(n, kind, holder), leaked' = leaked, kept' => kept
  PROVE  Recorded'
<1>1. /\ libs' = Append(libs, Library(n)) /\ alive' = alive \union {Fresh}
      /\ UNCHANGED <<registry, recorded, held, clash>>
  BY DEF Begin
<1>2. /\ DOMAIN libs' = DOMAIN libs \union {Fresh}
      /\ Fresh \notin DOMAIN libs /\ libs'[Fresh] = Library(n)
      /\ \A j \in DOMAIN libs : libs'[j] = libs[j]
      /\ \A j \in DOMAIN libs : Required(libs', j) = Required(libs, j)
  <2>1. Types
    BY DEF Shape
  <2> QED BY <1>1, <2>1, ObjectMade
<1>3. Range(libs'[Fresh].classes) = {}
  BY <1>2 DEF Library, Range
<1>4. HeldTargets' = HeldTargets
  BY <1>1 DEF HeldTargets
<1>5. Staying' = Staying
  BY <1>1, <1>2, <1>4, StayingSame, RootsKept
<1> QED BY <1>1, <1>2, <1>3, <1>5, QuietRecorded

LEMMA RecordedNext ==
  ASSUME Shape, Recorded, [Next]_vars
  PROVE  Recorded'
<1>1. Shape'
  BY ShapeNext
<1>2. CASE UNCHANGED vars
  <2>1. HeldTargets' = HeldTargets /\ Staying' = Staying
    BY <1>2 DEF vars, HeldTargets, Staying
  <2> QED BY <1>2, <2>1, QuietRecorded DEF vars, history
<1>3. ASSUME NEW n \in Names, Execute(n)
      PROVE  Recorded'
  <2>1. /\ libs = <<>> /\ libs' = Append(libs, Library(n)) /\ alive' = alive \union {Fresh}
        /\ UNCHANGED <<recorded, clash, kept>>
    BY <1>3 DEF Execute, Begin
  <2>2. alive = {} /\ \A c \in ClassNames : recorded[c] = None
    <3>1. DOMAIN libs = {}
      BY <2>1
    <3> QED BY <3>1 DEF Shape, Types
  <2>3. Range(libs'[Fresh].classes) = {}
    <3>1. libs'[Fresh] = Library(n) /\ Types
      BY <2>1, ObjectMade DEF Shape
    <3> QED BY <3>1 DEF Library, Range
  <2>4. RecordsListed' /\ SupersStay'
    BY <2>1, <2>2 DEF RecordsListed, SupersStay
  <2>5. ListedRecorded'
    BY <2>1, <2>2, <2>3 DEF ListedRecorded, Listed
  <2> QED BY <2>4, <2>5 DEF Recorded
<1>4. ASSUME NEW n \in Names, NEW h \in Holders \union {None}, Import(n, h)
      PROVE  Recorded'
  <2>1. Begin(n, "import", h) /\ leaked' = leaked /\ (kept' => kept)
    BY <1>4 DEF Import
  <2> QED BY <1>1, <2>1, BeginRecorded
<1>5. ASSUME NEW n \in Names, NEW h \in Holders \union {None}, ImportAgain(n, h)
      PROVE  Recorded'
  <2>1. UNCHANGED <<libs, alive, leaked, recorded, kept, clash>>
    BY <1>5 DEF ImportAgain, history
  <2>2. HeldTargets' = HeldTargets
    BY <1>5, ImportAgainShape
  <2>3. Staying' = Staying
    BY <2>1, <2>2 DEF Staying
  <2> QED BY <2>1, <2>3, QuietRecorded
<1>6. ASSUME NEW h \in Holders, Drop(h)
      PROVE  Recorded'
  <2>1. /\ Release(<<>>, [held EXCEPT ![h] = Nothing]) /\ kept' = FALSE
        /\ libs' = libs /\ clash' = clash
    BY <1>6 DEF Drop
  <2> DEFINE hs == [held EXCEPT ![h] = Nothing]
  <2>2. Release(<<>>, hs)
    BY <2>1
  <2> HIDE DEF hs
  <2>3. RecordsListed' /\ ListedRecorded'
    BY <2>1, <2>2, ReleaseRecorded
  <2> QED BY <2>1, <2>3 DEF Recorded
<1>7. CASE Open
  <2>1. UNCHANGED <<libs, alive, leaked, recorded, held, kept, clash>>
    BY <1>7 DEF Open, history
  <2>2. Staying' = Staying
    BY <2>1 DEF Staying, HeldTargets
  <2> QED BY <2>1, <2>2, QuietRecorded
<1>8. CASE Require
  <2>1. /\ Begin(Requirement, "import", None) /\ Requirement \in Names
        /\ leaked' = leaked /\ kept' = kept
    BY <1>8, RequirementNamed DEF Require
  <2> DEFINE n == Requirement
  <2>2. Begin(n, "import", None) /\ n \in Names
    BY <2>1
  <2> HIDE DEF n
  <2> QED BY <1>1, <2>1, <2>2, BeginRecorded
<1>9. CASE RequireAgain
  <2>1. UNCHANGED <<alive, leaked, recorded, held, kept, clash>>
    BY <1>9 DEF RequireAgain, history
  <2>2. /\ DOMAIN libs' = DOMAIN libs
        /\ \A j \in DOMAIN libs : Required(libs', j) = Required(libs, j)
        /\ \A j \in DOMAIN libs : libs'[j].classes = libs[j].classes
    BY <1>9, RequiredAgain
  <2>3. HeldTargets' = HeldTargets
    BY <2>1 DEF HeldTargets
  <2>4. Staying' = Staying
    BY <1>1, <2>1, <2>2, <2>3, StayingSame, RootsKept
  <2> QED BY <2>1, <2>2, <2>4, QuietRecorded
<1>10. CASE LoadClass
  BY <1>1, <1>10, LoadRecorded
<1>11. CASE AddConflicting
  <2>1. /\ UNCHANGED <<alive, recorded>> /\ clash' = TRUE
        /\ libs' = WithClass(top.lib, Class) /\ Loading
    BY <1>11 DEF AddConflicting, WithClass
  <2>2. \A j \in DOMAIN libs : Range(libs[j].classes) \subseteq Range(libs'[j].classes)
    BY <2>1, ClassListed
  <2>3. RecordsListed'
    <3>1. ASSUME NEW c \in ClassNames, recorded[c] # None
          PROVE  recorded[c] \in alive /\ c \in Range(libs'[recorded[c]].classes)
      BY <2>2, <3>1 DEF Recorded, RecordsListed, Listed, Shape, Types
    <3> QED BY <2>1, <3>1 DEF RecordsListed, Listed
  <2> QED BY <2>1, <2>3 DEF Recorded, ListedRecorded
<1>12. CASE InitializeClass
  <2>1. /\ UNCHANGED <<alive, leaked, recorded, held, kept, clash>>
        /\ libs' = WithInitialized(top.lib) /\ imports # <<>>
    BY <1>12 DEF InitializeClass, Initializing, Loaded, history, WithInitialized
  <2>2. /\ DOMAIN libs' = DOMAIN libs
        /\ \A j \in DOMAIN libs : Required(libs', j) = Required(libs, j)
        /\ \A j \in DOMAIN libs : libs'[j].classes = libs[j].classes
    BY <2>1, ClassInitialized
  <2>3. HeldTargets' = HeldTargets
    BY <2>1 DEF HeldTargets
  <2>4. Staying' = Staying
    BY <1>1, <2>1, <2>2, <2>3, StayingSame, RootsKept
  <2> QED BY <2>1, <2>2, <2>4, QuietRecorded
<1>13. CASE FinishImport
  <2>1. CASE Tail(imports) # <<>>
    BY <1>1, <1>13, <2>1, DeliverRecorded
  <2>2. CASE Tail(imports) = <<>>
    BY <1>1, <1>13, <2>2, ReturnedRecorded
  <2> QED BY <2>1, <2>2
<1>14. CASE FinishExecute
  <2>1. UNCHANGED <<libs, alive, leaked, recorded, held, kept, clash>>
    BY <1>14 DEF FinishExecute, history
  <2>2. Staying' = Staying
    BY <2>1 DEF Staying, HeldTargets
  <2> QED BY <2>1, <2>2, QuietRecorded
<1>15. CASE Throw
  BY <1>15, ThrowRecorded
<1> QED BY <1>2, <1>3, <1>4, <1>5, <1>6, <1>7, <1>8, <1>9, <1>10, <1>11, <1>12,
           <1>13, <1>14, <1>15 DEF Next, Progress

LEMMA InitIInv == Init => IInv
<1> SUFFICES ASSUME Init PROVE IInv
  OBVIOUS
<1>1. DOMAIN libs = {} /\ DOMAIN imports = {}
  BY DEF Init
<1>2. Nothing \in References /\ Nothing.weak
  BY DEF Nothing, Weak, References
<1>3. HeldTargets = {}
  BY <1>2 DEF Init, HeldTargets, Targets
<1>4. Types
  <2>1. /\ libs \in Seq(LibraryObjects) /\ imports \in Seq(Imports)
        /\ alive \subseteq DOMAIN libs /\ leaked \subseteq DOMAIN libs
    BY DEF Init
  <2>2. /\ registry \in [Names -> DOMAIN libs \union {None}]
        /\ recorded \in [ClassNames -> DOMAIN libs \union {None}]
    BY DEF Init
  <2>3. held \in [Holders -> References] /\ kept \in BOOLEAN /\ clash \in BOOLEAN
    BY <1>2 DEF Init
  <2> QED BY <2>1, <2>2, <2>3 DEF Types
<1>5. Targeted /\ OnlyStacked /\ Bottom /\ AliveKept
  BY <1>1, <1>3 DEF Init, Targeted, OnlyStacked, Bottom, AliveKept
<1>6. Recorded
  BY DEF Init, Recorded, RecordsListed, ListedRecorded, SupersStay
<1> QED BY <1>4, <1>5, <1>6 DEF IInv, Shape

(* The invariant above is one.                                             *)
THEOREM Invariance == Spec => []IInv
<1>1. IInv /\ [Next]_vars => IInv'
  BY ShapeNext, RecordedNext DEF IInv
<1> QED BY InitIInv, <1>1, PTL DEF Spec

(* Whatever is imported, fails half way or is dropped, in any order: the   *)
(* classes on record are those of the libraries that live, and their super *)
(* classes are on record as well.                                          *)
THEOREM ClassesFollow == Spec => []ClassesFollowLibraries
<1>1. IInv => ClassesFollowLibraries
  <2> SUFFICES ASSUME IInv PROVE ClassesFollowLibraries
    OBVIOUS
  <2>1. kept /\ ~clash =>
          \A c \in ClassNames : recorded[c] # None => Resolves(Super[c])
    BY SuperAssumption DEF IInv, Recorded, SupersStay, Resolves, Resolvable
  <2> QED BY <2>1 DEF IInv, Recorded, RecordsListed, ListedRecorded, ClassesFollowLibraries
<1> QED BY Invariance, <1>1, PTL

(***************************************************************************)
(* What is in the registry is complete                                     *)
(***************************************************************************)

(* A file is read from its beginning, in its order, without leaving out.   *)
InOrder(l) ==
  /\ Len(l.requirements) <= Len(Requires[l.name])
  /\ Len(l.classes) <= Len(Classes[l.name])
  /\ \A k \in DOMAIN l.classes : l.classes[k] = Classes[l.name][k]
  /\ l.initialized <= Len(l.classes)

FilesRead == \A i \in DOMAIN libs : InOrder(libs[i])

(* An import below another one waits for a requirement.                    *)
Awaits(l) == Len(l.requirements) < Len(Requires[l.name])
Waiting == \A k \in DOMAIN imports : k # 1 => Awaits(libs[imports[k].lib])

(* An entry of the registry, also one that is left of a library that has   *)
(* been destroyed, refers to an object that had read its whole file.       *)
EntriesRead ==
  \A n \in Names :
    registry[n] # None =>
      LET lib == libs[registry[n]]
      IN /\ lib.name = n
         /\ Len(lib.requirements) = Len(Requires[n])
         /\ lib.classes = Classes[n]
         /\ lib.initialized = Len(Classes[n])

Reading == FilesRead /\ Waiting /\ EntriesRead

LEMMA ObjectType ==
  ASSUME Shape, NEW i \in DOMAIN libs
  PROVE  /\ libs[i] \in LibraryObjects /\ libs[i].name \in Names
         /\ Requires[libs[i].name] \in Seq(Names)
         /\ Classes[libs[i].name] \in Seq(ClassNames)
         /\ Len(libs[i].requirements) \in Nat /\ Len(libs[i].classes) \in Nat
         /\ Len(Requires[libs[i].name]) \in Nat
         /\ Len(Classes[libs[i].name]) \in Nat
         /\ libs[i].initialized \in Nat
<1>1. libs[i] \in LibraryObjects
  BY DEF Shape, Types
<1>2. /\ libs[i].name \in Names /\ libs[i].requirements \in Seq(References)
      /\ libs[i].classes \in Seq(ClassNames) /\ libs[i].initialized \in Nat
  BY <1>1 DEF LibraryObjects
<1>3. /\ Requires[libs[i].name] \in Seq(Names)
      /\ Classes[libs[i].name] \in Seq(ClassNames)
  BY <1>2, RequiresAssumption, ClassesAssumption
<1> QED BY <1>1, <1>2, <1>3

(* Steps that change no library object.                                    *)
LEMMA QuietReading ==
  ASSUME Shape, Reading, libs' = libs, registry' = registry,
         \/ imports' = <<>>
         \/ /\ DOMAIN imports' = DOMAIN imports
            /\ \A k \in DOMAIN imports : imports'[k].lib = imports[k].lib
  PROVE  Reading'
<1>1. FilesRead'
  BY DEF Reading, FilesRead
<1>2. Waiting'
  BY DEF Reading, Waiting
<1>3. EntriesRead'
  BY DEF Reading, EntriesRead
<1> QED BY <1>1, <1>2, <1>3 DEF Reading

(* Steps that read on in the file of the inmost import.                    *)
LEMMA TopRead ==
  ASSUME Shape, Reading, imports # <<>>, registry' = registry,
         DOMAIN libs' = DOMAIN libs,
         \A j \in DOMAIN libs : j # top.lib => libs'[j] = libs[j],
         InOrder(libs'[top.lib]),
         DOMAIN imports' = DOMAIN imports,
         \A k \in DOMAIN imports : imports'[k].lib = imports[k].lib
  PROVE  Reading'
<1>1. FilesRead'
  BY DEF Reading, FilesRead
<1>2. \A k \in DOMAIN imports :
        imports[k].lib \in DOMAIN libs /\ (k # 1 => imports[k].lib # top.lib)
  BY TopType DEF Shape, OnlyStacked, Types
<1>3. Waiting'
  BY <1>2 DEF Reading, Waiting
<1>4. \A n \in Names : registry[n] # None =>
        registry[n] \in DOMAIN libs /\ registry[n] # top.lib
  BY TopType DEF Shape, OnlyStacked, Types
<1>5. EntriesRead'
  BY <1>4 DEF Reading, EntriesRead
<1> QED BY <1>1, <1>3, <1>5 DEF Reading

LEMMA BeginReading ==
  ASSUME Shape, Reading, Shape', NEW n \in Names, NEW kind, NEW holder,
         Begin(n, kind, holder), imports # <<>> => Requiring
  PROVE  Reading'
<1>1. /\ DOMAIN libs' = DOMAIN libs \union {Fresh}
      /\ Fresh \notin DOMAIN libs /\ libs'[Fresh] = Library(n)
      /\ \A j \in DOMAIN libs : libs'[j] = libs[j]
  <2>1. Types /\ libs' = Append(libs, Library(n))
    BY DEF Shape, Begin
  <2> QED BY <2>1, ObjectMade
<1> DEFINE x == Importing(Fresh, kind, holder)
<1>2. imports' = <<x>> \o imports /\ imports \in Seq(Imports) /\ registry' = registry
  BY DEF Begin, Shape, Types
<1> HIDE DEF x
<1>3. \A k \in DOMAIN imports' : k # 1 => /\ k - 1 \in DOMAIN imports
                                        /\ imports'[k] = imports[k - 1]
  BY <1>2
<1>4. InOrder(Library(n))
  <2>1. Requires[n] \in Seq(Names) /\ Classes[n] \in Seq(ClassNames)
    BY RequiresAssumption, ClassesAssumption
  <2>2. Len(Requires[n]) >= 0 /\ Len(Classes[n]) >= 0
    BY <2>1
  <2>3. /\ Library(n).name = n /\ Library(n).requirements = <<>>
        /\ Library(n).classes = <<>> /\ Library(n).initialized = 0
    BY DEF Library
  <2> QED BY <2>2, <2>3 DEF InOrder
<1>5. FilesRead'
  BY <1>1, <1>4 DEF Reading, FilesRead
<1>6. Waiting'
  <2> SUFFICES ASSUME NEW k \in DOMAIN imports', k # 1
               PROVE  Awaits(libs'[imports'[k].lib])
    BY DEF Waiting
  <2>1. /\ k - 1 \in DOMAIN imports /\ imports'[k] = imports[k - 1]
        /\ imports[k - 1].lib \in DOMAIN libs
        /\ libs'[imports[k - 1].lib] = libs[imports[k - 1].lib]
    BY <1>1, <1>3 DEF Shape, OnlyStacked, Types
  <2>2. CASE k - 1 = 1
    <3>1. imports # <<>> /\ imports[k - 1] = top
      BY <2>1, <2>2, TopType
    <3>2. Awaits(libs[top.lib])
      BY <3>1 DEF Requiring, Awaits, file
    <3> QED BY <2>1, <3>1, <3>2
  <2>3. CASE k - 1 # 1
    BY <2>1, <2>3 DEF Reading, Waiting
  <2> QED BY <2>2, <2>3
<1>7. EntriesRead'
  <2>1. \A m \in Names : registry[m] # None => registry[m] \in DOMAIN libs
    BY DEF Shape, Types
  <2> QED BY <1>1, <1>2, <2>1 DEF Reading, EntriesRead
<1> QED BY <1>5, <1>6, <1>7 DEF Reading

(* What an import leaves behind in the registry.                           *)
LEMMA FinishedComplete ==
  ASSUME Shape, Reading, Finished, top.kind = "import"
  PROVE  /\ Len(file.requirements) = Len(Requires[file.name])
         /\ file.classes = Classes[file.name]
         /\ file.initialized = Len(Classes[file.name])
<1>1. /\ imports # <<>>
      /\ Len(file.requirements) = Len(Requires[file.name])
      /\ Len(file.classes) = Len(Classes[file.name])
      /\ ~(file.initialized < Len(file.classes))
  BY DEF Finished, Loaded, Initializing
<1>2. top.lib \in DOMAIN libs /\ file = libs[top.lib]
  BY <1>1, TopType
<1>3. InOrder(file)
  BY <1>2 DEF Reading, FilesRead
<1>4. /\ file \in LibraryObjects /\ Classes[file.name] \in Seq(ClassNames)
      /\ file.initialized \in Nat /\ Len(file.classes) \in Nat
  BY <1>2, ObjectType
<1>5. file.classes \in Seq(ClassNames)
  BY <1>4 DEF LibraryObjects
<1> DEFINE s == file.classes
           t == Classes[file.name]
<1>6. /\ s \in Seq(ClassNames) /\ t \in Seq(ClassNames) /\ Len(s) = Len(t)
      /\ \A k \in DOMAIN s : s[k] = t[k]
  BY <1>1, <1>3, <1>4, <1>5 DEF InOrder
<1>7. file.initialized = Len(s)
  BY <1>1, <1>3, <1>4 DEF InOrder
<1> HIDE DEF s, t
<1>8. s = t
  BY <1>6
<1> QED BY <1>1, <1>7, <1>8 DEF s, t

LEMMA FinishReading ==
  ASSUME Shape, Reading, FinishImport
  PROVE  Reading'
<1>1. /\ Finished /\ top.kind = "import" /\ imports # <<>>
      /\ registry' = [registry EXCEPT ![file.name] = top.lib]
  BY DEF FinishImport, Finished, Loaded
<1>2. /\ top.lib \in DOMAIN libs /\ file = libs[top.lib]
      /\ file.name \in Names /\ Len(imports) - 1 \in Nat
  BY <1>1, TopType, ObjectType DEF Shape, Types
<1>3. \A n \in Names : registry'[n] = IF n = file.name THEN top.lib ELSE registry[n]
  BY <1>1, <1>2 DEF Shape, Types
<1>4. /\ Len(file.requirements) = Len(Requires[file.name])
      /\ file.classes = Classes[file.name]
      /\ file.initialized = Len(Classes[file.name])
  BY <1>1, FinishedComplete
<1>5. \A n \in Names : registry[n] # None => registry[n] \in DOMAIN libs
  BY DEF Shape, Types
<1>6. CASE Tail(imports) = <<>>
  <2>1. libs' = libs /\ imports' = <<>>
    BY <1>6, ReturnedShape DEF Release
  <2>2. FilesRead' /\ Waiting'
    BY <2>1 DEF Reading, FilesRead, Waiting
  <2>3. EntriesRead'
    BY <1>2, <1>3, <1>4, <2>1 DEF Reading, EntriesRead
  <2> QED BY <2>2, <2>3 DEF Reading
<1>7. CASE Tail(imports) # <<>>
  <2> DEFINE i == imports[2].lib
             r == Strong(top.lib)
  <2>1. /\ Len(imports) > 1 /\ 2 \in DOMAIN imports /\ i \in DOMAIN libs /\ i # top.lib
        /\ libs' = WithRequirement(i, r) /\ r \in References
        /\ imports' = Tail(imports)
    <3>1. /\ Len(imports) > 1 /\ i \in DOMAIN libs /\ i # top.lib
          /\ libs' = WithRequirement(i, r) /\ r \in References
      BY <1>7, DeliverShape DEF WithRequirement
    <3>2. imports' = Tail(imports)
      BY <1>7 DEF Deliver, FinishImport
    <3>3. 2 \in DOMAIN imports
      BY <3>1 DEF Shape, Types
    <3> QED BY <3>1, <3>2, <3>3
  <2>2. /\ Awaits(libs[i]) /\ InOrder(libs[i])
        /\ \A n \in Names : registry[n] # i
        /\ \A k \in DOMAIN imports : imports[k].lib = i => k = 2
    BY <2>1 DEF Reading, Waiting, FilesRead, Shape, OnlyStacked
  <2> HIDE DEF i, r
  <2>3. /\ DOMAIN libs' = DOMAIN libs
        /\ \A j \in DOMAIN libs : j # i => libs'[j] = libs[j]
        /\ libs'[i].name = libs[i].name /\ libs'[i].classes = libs[i].classes
        /\ libs'[i].initialized = libs[i].initialized
        /\ libs'[i].requirements = Append(libs[i].requirements, r)
    <3>1. Types
      BY DEF Shape
    <3> QED BY <2>1, <3>1, RequirementAppended
  <2>4. InOrder(libs'[i])
    <3>1. libs[i].requirements \in Seq(References) /\ Len(Requires[libs[i].name]) \in Nat
      BY <2>1, ObjectType DEF LibraryObjects
    <3>2. Len(libs'[i].requirements) = Len(libs[i].requirements) + 1
      BY <2>1, <2>3, <3>1
    <3> QED BY <2>2, <2>3, <3>1, <3>2 DEF InOrder, Awaits
  <2>5. FilesRead'
    BY <2>3, <2>4 DEF Reading, FilesRead
  <2>6. Waiting'
    <3> SUFFICES ASSUME NEW k \in DOMAIN imports', k # 1
                 PROVE  Awaits(libs'[imports'[k].lib])
      BY DEF Waiting
    <3>1. /\ k + 1 \in DOMAIN imports /\ imports'[k] = imports[k + 1]
          /\ k + 1 # 1 /\ k + 1 # 2 /\ imports[k + 1].lib \in DOMAIN libs
      BY <1>1, <1>2, <2>1, TopType DEF Shape, OnlyStacked, Types
    <3>2. Awaits(libs[imports[k + 1].lib])
      BY <3>1 DEF Reading, Waiting
    <3> QED BY <2>2, <2>3, <3>1, <3>2
  <2>7. EntriesRead'
    <3> SUFFICES ASSUME NEW n \in Names, registry'[n] # None
                 PROVE  LET lib == libs'[registry'[n]]
                        IN /\ lib.name = n
                           /\ Len(lib.requirements) = Len(Requires[n])
                           /\ lib.classes = Classes[n]
                           /\ lib.initialized = Len(Classes[n])
      BY DEF EntriesRead
    <3>1. CASE n = file.name
      BY <1>2, <1>3, <1>4, <2>1, <2>3, <3>1
    <3>2. CASE n # file.name
      <4>1. registry'[n] = registry[n] /\ libs'[registry[n]] = libs[registry[n]]
        BY <1>3, <1>5, <2>2, <2>3, <3>2
      <4> QED BY <4>1 DEF Reading, EntriesRead
    <3> QED BY <3>1, <3>2
  <2> QED BY <2>5, <2>6, <2>7 DEF Reading
<1> QED BY <1>6, <1>7

LEMMA ReadingNext ==
  ASSUME Shape, Reading, [Next]_vars
  PROVE  Reading'
<1>1. Shape'
  BY ShapeNext
<1>2. CASE UNCHANGED vars
  BY <1>2, QuietReading DEF vars
<1>3. ASSUME NEW n \in Names, Execute(n)
      PROVE  Reading'
  <2>1. Begin(n, "execute", None) /\ imports = <<>>
    <3>1. DOMAIN libs = {} /\ Begin(n, "execute", None)
      BY <1>3 DEF Execute
    <3> QED BY <3>1, TopType
  <2> QED BY <1>1, <2>1, BeginReading
<1>4. ASSUME NEW n \in Names, NEW h \in Holders \union {None}, Import(n, h)
      PROVE  Reading'
  <2>1. Begin(n, "import", h) /\ imports = <<>>
    BY <1>4 DEF Import
  <2> QED BY <1>1, <2>1, BeginReading
<1>5. ASSUME NEW n \in Names, NEW h \in Holders \union {None}, ImportAgain(n, h)
      PROVE  Reading'
  BY <1>5, QuietReading DEF ImportAgain
<1>6. ASSUME NEW h \in Holders, Drop(h)
      PROVE  Reading'
  BY <1>6, QuietReading DEF Drop, Release
<1>7. CASE Open
  <2>1. /\ imports # <<>> /\ libs' = libs /\ registry' = registry
        /\ imports' = <<[top EXCEPT !.step = "load"]>> \o Tail(imports)
    BY <1>7 DEF Open
  <2>2. /\ DOMAIN imports' = DOMAIN imports
        /\ \A k \in DOMAIN imports : imports'[k].lib = imports[k].lib
    <3>1. /\ imports' \in Seq(Imports) /\ Len(imports') = Len(imports)
          /\ \A k \in DOMAIN imports : imports'[k].lib = imports[k].lib
      BY <2>1, TopStepped
    <3> QED BY <3>1 DEF Shape, Types
  <2> QED BY <2>1, <2>2, QuietReading
<1>8. CASE Require
  <2> DEFINE n == Requirement
  <2>1. Begin(n, "import", None) /\ n \in Names /\ Requiring
    BY <1>8, RequirementNamed DEF Require
  <2> HIDE DEF n
  <2> QED BY <1>1, <2>1, BeginReading
<1>9. CASE RequireAgain
  <2>1. /\ Requiring /\ imports # <<>> /\ UNCHANGED <<registry, imports>>
    BY <1>9 DEF RequireAgain, Requiring
  <2> DEFINE i == top.lib
             r == Weak(registry[Requirement])
  <2>2. /\ DOMAIN libs' = DOMAIN libs
        /\ \A j \in DOMAIN libs : j # i => libs'[j] = libs[j]
        /\ \A j \in DOMAIN libs : /\ libs'[j].name = libs[j].name
                                 /\ libs'[j].classes = libs[j].classes
                                 /\ libs'[j].initialized = libs[j].initialized
        /\ libs'[i].requirements = Append(libs[i].requirements, r)
    BY <1>9, RequiredAgain
  <2>3. /\ i \in DOMAIN libs /\ Awaits(libs[i]) /\ InOrder(libs[i])
    BY <2>1, TopType DEF Requiring, Awaits, Reading, FilesRead
  <2> HIDE DEF i, r
  <2>4. libs[i].requirements \in Seq(References) /\ Len(Requires[libs[i].name]) \in Nat
    BY <2>3, ObjectType DEF LibraryObjects
  <2>5. Len(libs'[i].requirements) = Len(libs[i].requirements) + 1
    BY <2>2, <2>4
  <2>6. InOrder(libs'[i])
    BY <2>2, <2>3, <2>4, <2>5 DEF InOrder, Awaits
  <2> QED BY <2>1, <2>2, <2>6, TopRead DEF i
<1>10. ASSUME NEW ls, ls = WithClass(top.lib, Class), Loading
       PROVE  /\ InOrder(ls[top.lib]) /\ imports # <<>>
              /\ DOMAIN ls = DOMAIN libs
              /\ \A j \in DOMAIN libs : j # top.lib => ls[j] = libs[j]
  <2>1. /\ DOMAIN ls = DOMAIN libs
        /\ \A j \in DOMAIN libs : /\ ls[j].name = libs[j].name
                                 /\ ls[j].requirements = libs[j].requirements
                                 /\ ls[j].initialized = libs[j].initialized
        /\ \A j \in DOMAIN libs : j # top.lib => ls[j] = libs[j]
        /\ ls[top.lib].classes = Append(libs[top.lib].classes, Class)
    BY <1>10, ClassListed
  <2>2. /\ imports # <<>> /\ top.lib \in DOMAIN libs /\ file = libs[top.lib]
        /\ InOrder(file) /\ file \in LibraryObjects
        /\ Len(file.classes) < Len(Classes[file.name])
        /\ Len(Classes[file.name]) \in Nat
        /\ file.initialized \in Nat
    BY <1>10, TopType, ObjectType DEF Loading, Reading, FilesRead
  <2> DEFINE s == file.classes
             t == Append(s, Class)
             u == Classes[file.name]
  <2>3. s \in Seq(ClassNames) /\ Class \in ClassNames /\ Class = u[Len(s) + 1]
    BY <1>10, <2>2, ClassNamed DEF LibraryObjects, Class
  <2>4. /\ Len(s) < Len(u) /\ Len(u) \in Nat /\ file.initialized <= Len(s)
        /\ \A k \in DOMAIN s : s[k] = u[k]
    BY <2>2 DEF InOrder
  <2>5. /\ ls[top.lib].classes = t /\ ls[top.lib].name = file.name
        /\ ls[top.lib].initialized = file.initialized
        /\ ls[top.lib].requirements = file.requirements
    BY <2>1, <2>2
  <2> HIDE DEF s, u
  <2>6. /\ Len(t) = Len(s) + 1 /\ Len(s) \in Nat
        /\ \A k \in DOMAIN t : t[k] = u[k]
    BY <2>3, <2>4
  <2> HIDE DEF t
  <2>7. InOrder(ls[top.lib])
    BY <2>2, <2>4, <2>5, <2>6 DEF InOrder, u
  <2> QED BY <2>1, <2>2, <2>7
<1>11. CASE LoadClass
  <2>1. libs' = WithClass(top.lib, Class) /\ Loading /\ UNCHANGED <<registry, imports>>
    BY <1>11 DEF LoadClass, WithClass
  <2> QED BY <1>10, <2>1, TopRead
<1>12. CASE AddConflicting
  <2>1. /\ libs' = WithClass(top.lib, Class) /\ Loading /\ registry' = registry
        /\ imports' = <<[top EXCEPT !.step = "conflict"]>> \o Tail(imports)
    BY <1>12 DEF AddConflicting, WithClass
  <2>2. /\ DOMAIN imports' = DOMAIN imports
        /\ \A k \in DOMAIN imports : imports'[k].lib = imports[k].lib
    <3>1. /\ imports' \in Seq(Imports) /\ Len(imports') = Len(imports)
          /\ \A k \in DOMAIN imports : imports'[k].lib = imports[k].lib
      BY <1>10, <2>1, TopStepped
    <3> QED BY <3>1 DEF Shape, Types
  <2> QED BY <1>10, <2>1, <2>2, TopRead
<1>13. CASE InitializeClass
  <2>1. /\ UNCHANGED <<registry, imports>> /\ imports # <<>>
        /\ libs' = WithInitialized(top.lib) /\ file.initialized < Len(file.classes)
    BY <1>13 DEF InitializeClass, Initializing, Loaded, WithInitialized
  <2>2. /\ DOMAIN libs' = DOMAIN libs
        /\ \A j \in DOMAIN libs : /\ libs'[j].name = libs[j].name
                                 /\ libs'[j].requirements = libs[j].requirements
                                 /\ libs'[j].classes = libs[j].classes
        /\ \A j \in DOMAIN libs : j # top.lib => libs'[j] = libs[j]
        /\ libs'[top.lib].initialized = libs[top.lib].initialized + 1
    BY <2>1, ClassInitialized
  <2>3. /\ top.lib \in DOMAIN libs /\ file = libs[top.lib] /\ InOrder(file)
        /\ file.initialized \in Nat /\ Len(file.classes) \in Nat
    BY <2>1, TopType, ObjectType DEF Reading, FilesRead
  <2> DEFINE x == libs'[top.lib]
  <2>4. /\ x.name = file.name /\ x.requirements = file.requirements
        /\ x.classes = file.classes /\ x.initialized = file.initialized + 1
    BY <2>2, <2>3
  <2>5. file.initialized + 1 <= Len(file.classes)
    BY <2>1, <2>3
  <2> HIDE DEF x
  <2>6. InOrder(x)
    BY <2>3, <2>4, <2>5 DEF InOrder
  <2> QED BY <2>1, <2>2, <2>6, TopRead DEF x
<1>14. CASE FinishImport
  BY <1>14, FinishReading
<1>15. CASE FinishExecute
  <2>1. imports' = Tail(imports) /\ libs' = libs /\ registry' = registry
    BY <1>15 DEF FinishExecute
  <2>2. Waiting'
    <3>1. imports # <<>> /\ top.kind = "execute"
      BY <1>15 DEF FinishExecute, Finished, Loaded
    <3>2. Len(imports) = 1
      BY <3>1, TopType DEF Shape, Bottom, Types
    <3>3. DOMAIN imports' = {}
      BY <2>1, <3>1, <3>2, TopType
    <3> QED BY <3>3 DEF Waiting
  <2> QED BY <2>1, <2>2 DEF Reading, FilesRead, EntriesRead
<1>16. CASE Throw
  BY <1>16, QuietReading DEF Throw, Release
<1> QED BY <1>2, <1>3, <1>4, <1>5, <1>6, <1>7, <1>8, <1>9, <1>11, <1>12, <1>13,
           <1>14, <1>15, <1>16 DEF Next, Progress

(***************************************************************************)
(* What a library holds is there                                           *)
(***************************************************************************)
RequirementsLive == Closed(libs, alive)

(* Steps by which nothing is destroyed and no library gets a reference     *)
(* that keeps another one.                                                 *)
LEMMA QuietLive ==
  ASSUME Shape, RequirementsLive, alive' = alive,
         \A j \in DOMAIN libs : Required(libs', j) = Required(libs, j)
  PROVE  RequirementsLive'
<1>1. \A i \in alive : Required(libs', i) = Required(libs, i)
  BY DEF Shape, Types
<1> QED BY <1>1 DEF RequirementsLive, Closed

LEMMA BeginLive ==
  ASSUME Shape, RequirementsLive, NEW n \in Names, NEW kind, NEW holder,
         Begin(n, kind, holder)
  PROVE  RequirementsLive'
<1>1. /\ Types /\ libs' = Append(libs, Library(n)) /\ alive' = alive \union {Fresh}
  BY DEF Shape, Begin
<1>2. /\ \A j \in DOMAIN libs : Required(libs', j) = Required(libs, j)
      /\ Required(libs', Fresh) = {}
  BY <1>1, ObjectMade
<1>3. ASSUME NEW i \in alive'
      PROVE  Required(libs', i) \subseteq alive'
  <2>1. CASE i = Fresh
    BY <1>2, <2>1
  <2>2. CASE i # Fresh
    <3>1. i \in alive /\ i \in DOMAIN libs
      BY <1>1, <1>3, <2>2 DEF Types
    <3> QED BY <1>1, <1>2, <3>1 DEF RequirementsLive, Closed
  <2> QED BY <2>1, <2>2
<1> QED BY <1>3 DEF RequirementsLive, Closed

(* What lives and is kept holds what lives and is kept.                    *)
LEMMA ReleaseLive ==
  ASSUME Shape, RequirementsLive, NEW stack, NEW hs, Release(stack, hs),
         Roots(stack, hs) \subseteq DOMAIN libs, libs' = libs
  PROVE  RequirementsLive'
<1>1. alive' = Kept(libs, stack, hs) \intersect alive
  BY DEF Release
<1>2. Closed(libs, Kept(libs, stack, hs))
  <2>1. \A i \in DOMAIN libs : Required(libs, i) \subseteq DOMAIN libs
    BY DEF Shape, Targeted
  <2> QED BY <2>1, KeptClosed DEF Kept
<1>3. Closed(libs, alive')
  BY <1>1, <1>2 DEF RequirementsLive, Closed
<1> QED BY <1>3 DEF RequirementsLive

(* An exception or a variable that goes out of scope: the stack is empty.  *)
LEMMA EmptiedLive ==
  ASSUME Shape, RequirementsLive, NEW hs, Release(<<>>, hs), libs' = libs,
         Targets({hs[h] : h \in Holders}) \subseteq DOMAIN libs
  PROVE  RequirementsLive'
<1>1. Roots(<<>>, hs) \subseteq DOMAIN libs
  BY DEF Roots, Shape, Types
<1> QED BY <1>1, ReleaseLive

LEMMA FinishLive ==
  ASSUME Shape, RequirementsLive, FinishImport
  PROVE  RequirementsLive'
<1>1. imports # <<>> /\ top.lib \in alive
  <2>1. imports # <<>>
    BY DEF FinishImport, Finished, Loaded
  <2> QED BY <2>1, TopType
<1>2. CASE Tail(imports) = <<>>
  <2> DEFINE hs == IF top.holder = None THEN held
                   ELSE [held EXCEPT ![top.holder] = Strong(top.lib)]
  <2>1. Release(<<>>, hs) /\ libs' = libs /\ held' = hs /\ Shape'
    BY <1>2, ReturnedShape
  <2>2. HeldTargets' = Targets({hs[h] : h \in Holders})
    BY <2>1 DEF HeldTargets
  <2>3. Targets({hs[h] : h \in Holders}) \subseteq DOMAIN libs
    BY <2>1, <2>2 DEF Shape, Targeted
  <2> HIDE DEF hs
  <2> QED BY <2>1, <2>3, EmptiedLive
<1>3. CASE Tail(imports) # <<>>
  <2> DEFINE i == imports[2].lib
             r == Strong(top.lib)
  <2>1. /\ i \in DOMAIN libs /\ libs' = WithRequirement(i, r) /\ r \in References
        /\ ReferredBy(r) = {top.lib}
    <3>1. /\ i \in DOMAIN libs /\ libs' = WithRequirement(i, r) /\ r \in References
      BY <1>3, DeliverShape DEF WithRequirement
    <3> QED BY <3>1 DEF Strong, ReferredBy
  <2>2. alive' = alive
    BY <1>3 DEF FinishImport, Deliver
  <2> HIDE DEF i, r
  <2>3. /\ Required(libs', i) = Required(libs, i) \union {top.lib}
        /\ \A j \in DOMAIN libs : j # i => Required(libs', j) = Required(libs, j)
    <3>1. Types
      BY DEF Shape
    <3> QED BY <2>1, <3>1, RequirementAppended
  <2>4. ASSUME NEW j \in alive
        PROVE  Required(libs', j) \subseteq alive
    <3>1. j \in DOMAIN libs /\ Required(libs, j) \subseteq alive
      BY DEF Shape, Types, RequirementsLive, Closed
    <3> QED BY <1>1, <2>3, <3>1
  <2> QED BY <2>2, <2>4 DEF RequirementsLive, Closed
<1> QED BY <1>2, <1>3

LEMMA LiveNext ==
  ASSUME Shape, RequirementsLive, [Next]_vars
  PROVE  RequirementsLive'
<1>1. CASE UNCHANGED vars
  BY <1>1 DEF vars, RequirementsLive, Closed, Required
<1>2. ASSUME NEW n \in Names, Execute(n)
      PROVE  RequirementsLive'
  <2>1. Begin(n, "execute", None)
    BY <1>2 DEF Execute
  <2> QED BY <2>1, BeginLive
<1>3. ASSUME NEW n \in Names, NEW h \in Holders \union {None}, Import(n, h)
      PROVE  RequirementsLive'
  <2>1. Begin(n, "import", h)
    BY <1>3 DEF Import
  <2> QED BY <2>1, BeginLive
<1>4. ASSUME NEW n \in Names, NEW h \in Holders \union {None}, ImportAgain(n, h)
      PROVE  RequirementsLive'
  <2>1. libs' = libs /\ alive' = alive
    BY <1>4 DEF ImportAgain
  <2> QED BY <2>1, QuietLive
<1>5. ASSUME NEW h \in Holders, Drop(h)
      PROVE  RequirementsLive'
  <2> DEFINE hs == [held EXCEPT ![h] = Nothing]
  <2>1. Release(<<>>, hs) /\ libs' = libs /\ held' = hs
    BY <1>5 DEF Drop, Release
  <2>2. Shape'
    BY <1>5, ShapeNext DEF Next
  <2>3. HeldTargets' = Targets({hs[g] : g \in Holders})
    BY <2>1 DEF HeldTargets
  <2>4. Targets({hs[g] : g \in Holders}) \subseteq DOMAIN libs
    BY <2>1, <2>2, <2>3 DEF Shape, Targeted
  <2> HIDE DEF hs
  <2> QED BY <2>1, <2>4, EmptiedLive
<1>6. CASE Open
  <2>1. libs' = libs /\ alive' = alive
    BY <1>6 DEF Open
  <2> QED BY <2>1, QuietLive
<1>7. CASE Require
  <2> DEFINE n == Requirement
  <2>1. Begin(n, "import", None) /\ n \in Names
    BY <1>7, RequirementNamed DEF Require
  <2> HIDE DEF n
  <2> QED BY <2>1, BeginLive
<1>8. CASE RequireAgain
  <2>1. alive' = alive
    BY <1>8 DEF RequireAgain
  <2>2. \A j \in DOMAIN libs : Required(libs', j) = Required(libs, j)
    BY <1>8, RequiredAgain
  <2> QED BY <2>1, <2>2, QuietLive
<1>9. ASSUME libs' = WithClass(top.lib, Class), Loading, alive' = alive
      PROVE  RequirementsLive'
  <2>1. \A j \in DOMAIN libs : Required(libs', j) = Required(libs, j)
    BY <1>9, ClassListed
  <2> QED BY <1>9, <2>1, QuietLive
<1>10. CASE LoadClass
  BY <1>9, <1>10 DEF LoadClass, WithClass
<1>11. CASE AddConflicting
  BY <1>9, <1>11 DEF AddConflicting, WithClass
<1>12. CASE InitializeClass
  <2>1. alive' = alive /\ libs' = WithInitialized(top.lib) /\ imports # <<>>
    BY <1>12 DEF InitializeClass, Initializing, Loaded, WithInitialized
  <2>2. \A j \in DOMAIN libs : Required(libs', j) = Required(libs, j)
    BY <2>1, ClassInitialized
  <2> QED BY <2>1, <2>2, QuietLive
<1>13. CASE FinishImport
  BY <1>13, FinishLive
<1>14. CASE FinishExecute
  <2>1. libs' = libs /\ alive' = alive
    BY <1>14 DEF FinishExecute
  <2> QED BY <2>1, QuietLive
<1>15. CASE Throw
  <2>1. Release(<<>>, held) /\ libs' = libs
    BY <1>15 DEF Throw
  <2>2. Targets({held[h] : h \in Holders}) \subseteq DOMAIN libs
    BY DEF Shape, Targeted, HeldTargets
  <2> QED BY <2>1, <2>2, EmptiedLive
<1> QED BY <1>1, <1>2, <1>3, <1>4, <1>5, <1>6, <1>7, <1>8, <1>10, <1>11, <1>12,
           <1>13, <1>14, <1>15 DEF Next, Progress

(* An entry of a library that is there names what is there.                *)
LEMMA EntriesComplete ==
  ASSUME IInv, Reading, RequirementsLive
  PROVE  RegisteredComplete
<1> SUFFICES ASSUME NEW n \in Names, registry[n] \in alive
             PROVE  LET i   == registry[n]
                        lib == libs[i]
                    IN /\ lib.name = n
                       /\ Len(lib.requirements) = Len(Requires[n])
                       /\ Required(libs, i) \subseteq alive
                       /\ lib.classes = Classes[n]
                       /\ lib.initialized = Len(Classes[n])
                       /\ clash \/ \A c \in Range(Classes[n]) : recorded[c] = i
  BY DEF RegisteredComplete
<1> DEFINE i == registry[n]
<1>1. i \in Nat /\ i # None
  BY NoneAssumption DEF IInv, Shape, Types
<1>2. /\ libs[i].name = n /\ Len(libs[i].requirements) = Len(Requires[n])
      /\ libs[i].classes = Classes[n] /\ libs[i].initialized = Len(Classes[n])
  BY <1>1 DEF Reading, EntriesRead
<1>3. Required(libs, i) \subseteq alive
  BY DEF RequirementsLive, Closed
<1>4. Listed(i) = Range(Classes[n])
  BY <1>2 DEF Listed
<1>5. clash \/ \A c \in Listed(i) : recorded[c] = i
  BY DEF IInv, Recorded, ListedRecorded
<1> QED BY <1>2, <1>3, <1>4, <1>5

(***************************************************************************)
(* One object for each name, unless libraries require each other in turn   *)
(***************************************************************************)
Ranks(rank) ==
  /\ rank \in [Names -> Nat]
  /\ \A n \in Names : \A k \in DOMAIN Requires[n] : rank[Requires[n][k]] < rank[n]

(* No library requires itself, directly or by way of others.               *)
Acyclic == \E rank : Ranks(rank)
Rank == CHOOSE rank : Ranks(rank)

NameAt(k) == libs[imports[k].lib].name

(* Each import in progress is of a name deeper down in the requirements.   *)
StackRanked ==
  \A j, k \in DOMAIN imports : j < k => Rank[NameAt(j)] < Rank[NameAt(k)]

StackedUnregistered ==
  \A k \in DOMAIN imports : imports[k].lib \notin leaked => registry[NameAt(k)] = None

(* What has been imported and lives is in the registry.                    *)
AliveRegistered ==
  \A i \in alive \ leaked :
    (\E k \in DOMAIN imports : imports[k].lib = i) \/ registry[libs[i].name] = i

Once == StackRanked /\ StackedUnregistered /\ AliveRegistered

LEMMA RankIs ==
  ASSUME Acyclic
  PROVE  Ranks(Rank)
BY DEF Acyclic, Rank

LEMMA StackType ==
  ASSUME Shape
  PROVE  /\ \A k \in DOMAIN imports : /\ imports[k].lib \in DOMAIN libs
                                     /\ NameAt(k) \in Names
         /\ \A k \in DOMAIN imports : k \in Nat
         /\ alive \subseteq DOMAIN libs /\ None \notin DOMAIN libs
         /\ \A i \in DOMAIN libs : libs[i].name \in Names
<1>1. \A k \in DOMAIN imports : imports[k].lib \in DOMAIN libs
  BY DEF Shape, OnlyStacked, Types
<1>2. \A i \in DOMAIN libs : libs[i].name \in Names
  BY ObjectType
<1>3. \A k \in DOMAIN imports : k \in Nat
  BY DEF Shape, Types
<1>4. alive \subseteq DOMAIN libs /\ None \notin DOMAIN libs
  BY NoneAssumption DEF Shape, Types
<1> QED BY <1>1, <1>2, <1>3, <1>4 DEF NameAt

(* Steps that leave the stack and the registry as they are.                *)
LEMMA QuietOnce ==
  ASSUME Shape, Once, registry' = registry, leaked' = leaked, alive' = alive,
         \A i \in DOMAIN libs : libs'[i].name = libs[i].name,
         DOMAIN imports' = DOMAIN imports,
         \A k \in DOMAIN imports : imports'[k].lib = imports[k].lib
  PROVE  Once'
<1>1. \A k \in DOMAIN imports : libs'[imports'[k].lib].name = NameAt(k)
  BY StackType DEF NameAt
<1>2. StackRanked'
  BY <1>1 DEF Once, StackRanked, NameAt
<1>3. StackedUnregistered'
  BY <1>1 DEF Once, StackedUnregistered, NameAt
<1>4. AliveRegistered'
  BY StackType DEF Once, AliveRegistered
<1> QED BY <1>2, <1>3, <1>4 DEF Once

(* Steps after which the stack is empty.                                   *)
LEMMA EmptyOnce ==
  ASSUME Shape, Once, registry' = registry, leaked' = leaked, libs' = libs,
         imports' = <<>>, alive' \subseteq alive,
         \A k \in DOMAIN imports : imports[k].lib \in alive' => imports[k].lib \in leaked
  PROVE  Once'
<1>1. StackRanked' /\ StackedUnregistered'
  BY DEF StackRanked, StackedUnregistered
<1>2. AliveRegistered'
  BY DEF Once, AliveRegistered
<1> QED BY <1>1, <1>2 DEF Once

(* A new import is of a name that is not in the registry.                  *)
LEMMA BeginOnce ==
  ASSUME Acyclic, Shape, Once, NEW n \in Names, NEW kind, NEW holder,
         Begin(n, kind, holder), leaked' = leaked, registry[n] = None,
         imports # <<>> => Rank[n] < Rank[file.name]
  PROVE  Once'
<1>1. /\ DOMAIN libs' = DOMAIN libs \union {Fresh}
      /\ Fresh \notin DOMAIN libs /\ libs'[Fresh] = Library(n)
      /\ \A j \in DOMAIN libs : libs'[j] = libs[j]
  <2>1. Types /\ libs' = Append(libs, Library(n))
    BY DEF Shape, Begin
  <2> QED BY <2>1, ObjectMade
<1> DEFINE x == Importing(Fresh, kind, holder)
<1>2. /\ imports' = <<x>> \o imports /\ imports \in Seq(Imports)
      /\ registry' = registry /\ alive' = alive \union {Fresh} /\ x.lib = Fresh
  BY DEF Begin, Shape, Types, Importing
<1> HIDE DEF x
<1>3. /\ 1 \in DOMAIN imports' /\ imports'[1] = x
      /\ DOMAIN imports' \subseteq Nat
      /\ \A k \in DOMAIN imports' : k # 1 => /\ k - 1 \in DOMAIN imports
                                           /\ imports'[k] = imports[k - 1]
      /\ \A k \in DOMAIN imports : /\ k + 1 \in DOMAIN imports'
                                 /\ imports'[k + 1] = imports[k]
  BY <1>2
<1>4. NameAt(1)' = n
  BY <1>1, <1>2, <1>3 DEF NameAt, Library
<1>5. \A k \in DOMAIN imports' :
        k # 1 => /\ libs'[imports'[k].lib].name = NameAt(k - 1)
                 /\ k - 1 \in DOMAIN imports
  BY <1>1, <1>3, StackType DEF NameAt
<1>6. \A k \in DOMAIN imports : Rank[n] < Rank[NameAt(k)]
  <2> SUFFICES ASSUME NEW k \in DOMAIN imports PROVE Rank[n] < Rank[NameAt(k)]
    OBVIOUS
  <2>1. /\ imports # <<>> /\ 1 \in DOMAIN imports /\ NameAt(1) = file.name
        /\ k \in 1 .. Len(imports)
    BY <1>2, TopType DEF NameAt
  <2>2. k # 1 => Rank[NameAt(1)] < Rank[NameAt(k)]
    BY <2>1 DEF Once, StackRanked
  <2>3. \A m \in Names : Rank[m] \in Nat
    BY RankIs DEF Ranks
  <2>4. NameAt(k) \in Names /\ NameAt(1) \in Names
    BY <2>1, StackType
  <2> QED BY <2>1, <2>2, <2>3, <2>4
<1>7. StackRanked'
  <2> SUFFICES ASSUME NEW j \in DOMAIN imports', NEW k \in DOMAIN imports', j < k
               PROVE  Rank[libs'[imports'[j].lib].name] < Rank[libs'[imports'[k].lib].name]
    BY DEF StackRanked, NameAt
  <2>1. k # 1 /\ j \in Nat /\ k \in Nat
    BY <1>2, <1>3
  <2>2. CASE j = 1
    BY <1>4, <1>5, <1>6, <2>1, <2>2 DEF NameAt
  <2>3. CASE j # 1
    <3>1. j - 1 \in DOMAIN imports /\ k - 1 \in DOMAIN imports /\ j - 1 < k - 1
      BY <1>5, <2>1, <2>3
    <3>2. Rank[NameAt(j - 1)] < Rank[NameAt(k - 1)]
      BY <3>1 DEF Once, StackRanked
    <3> QED BY <1>5, <2>1, <2>3, <3>2
  <2> QED BY <2>2, <2>3
<1>8. StackedUnregistered'
  <2> SUFFICES ASSUME NEW k \in DOMAIN imports', imports'[k].lib \notin leaked
               PROVE  registry[libs'[imports'[k].lib].name] = None
    BY <1>2 DEF StackedUnregistered, NameAt
  <2>1. CASE k = 1
    BY <1>4, <2>1 DEF NameAt
  <2>2. CASE k # 1
    BY <1>3, <1>5, <2>2 DEF Once, StackedUnregistered
  <2> QED BY <2>1, <2>2
<1>9. AliveRegistered'
  <2> SUFFICES ASSUME NEW i \in alive', i \notin leaked
               PROVE  \/ \E k \in DOMAIN imports' : imports'[k].lib = i
                      \/ registry[libs'[i].name] = i
    BY <1>2 DEF AliveRegistered
  <2>1. CASE i = Fresh
    BY <1>2, <1>3, <2>1
  <2>2. CASE i # Fresh
    <3>1. i \in alive /\ libs'[i] = libs[i]
      BY <1>1, <1>2, <2>2, StackType
    <3> QED BY <1>3, <3>1 DEF Once, AliveRegistered
  <2> QED BY <2>1, <2>2
<1> QED BY <1>7, <1>8, <1>9 DEF Once

(* The import that ends is the only one of its name.                       *)
LEMMA FinishOnce ==
  ASSUME Acyclic, Shape, Once, FinishImport
  PROVE  Once'
<1>1. /\ imports # <<>> /\ top.kind = "import" /\ leaked' = leaked
      /\ registry' = [registry EXCEPT ![file.name] = top.lib]
  BY DEF FinishImport, Finished, Loaded
<1>2. /\ 1 \in DOMAIN imports /\ top = imports[1] /\ file.name = NameAt(1)
      /\ file.name \in Names /\ top.lib \in DOMAIN libs /\ top.lib \notin leaked
  BY <1>1, TopType, StackType DEF NameAt, Shape, Bottom
<1>3. \A n \in Names : registry'[n] = IF n = file.name THEN top.lib ELSE registry[n]
  BY <1>1, <1>2 DEF Shape, Types
<1>4. /\ imports' = Tail(imports) /\ alive' \subseteq alive
      /\ \A i \in DOMAIN libs : libs'[i].name = libs[i].name
  <2>1. CASE Tail(imports) = <<>>
    BY <2>1, ReturnedShape DEF Release
  <2>2. CASE Tail(imports) # <<>>
    <3> DEFINE i == imports[2].lib
               r == Strong(top.lib)
    <3>1. /\ i \in DOMAIN libs /\ libs' = WithRequirement(i, r) /\ r \in References
          /\ Types
      BY <2>2, DeliverShape DEF WithRequirement, Shape
    <3> HIDE DEF i, r
    <3>2. \A j \in DOMAIN libs : libs'[j].name = libs[j].name
      BY <3>1, RequirementAppended
    <3> QED BY <2>2, <3>2 DEF FinishImport, Deliver
  <2> QED BY <2>1, <2>2
<1>5. /\ \A k \in DOMAIN imports' : /\ k + 1 \in DOMAIN imports /\ k \in Nat /\ k # 0
                                   /\ imports'[k] = imports[k + 1]
                                   /\ libs'[imports'[k].lib].name = NameAt(k + 1)
      /\ \A k \in DOMAIN imports : k # 1 => /\ k - 1 \in DOMAIN imports'
                                          /\ imports'[k - 1] = imports[k]
  <2>1. \A k \in DOMAIN imports' : /\ k + 1 \in DOMAIN imports /\ k \in Nat /\ k # 0
                                 /\ imports'[k] = imports[k + 1]
    BY <1>1, <1>4, TopType
  <2>2. \A k \in DOMAIN imports : k # 1 => k - 1 \in DOMAIN imports' /\ k \in Nat
    BY <1>1, <1>4, TopType DEF Shape, Types
  <2>3. \A k \in DOMAIN imports : k # 1 => imports'[k - 1] = imports[k]
    <3>1. ASSUME NEW k \in DOMAIN imports, k # 1
          PROVE  imports'[k - 1] = imports[k]
      <4>1. imports'[k - 1] = imports[(k - 1) + 1] /\ (k - 1) + 1 = k
        BY <2>1, <2>2, <3>1
      <4> QED BY <4>1
    <3> QED BY <3>1
  <2> QED BY <1>4, <2>1, <2>2, <2>3, StackType DEF NameAt
<1>6. StackRanked'
  <2> SUFFICES ASSUME NEW j \in DOMAIN imports', NEW k \in DOMAIN imports', j < k
               PROVE  Rank[libs'[imports'[j].lib].name] < Rank[libs'[imports'[k].lib].name]
    BY DEF StackRanked, NameAt
  <2>1. Rank[NameAt(j + 1)] < Rank[NameAt(k + 1)]
    BY <1>5 DEF Once, StackRanked
  <2> QED BY <1>5, <2>1
<1>7. StackedUnregistered'
  <2> SUFFICES ASSUME NEW k \in DOMAIN imports', imports'[k].lib \notin leaked
               PROVE  registry'[libs'[imports'[k].lib].name] = None
    BY <1>1 DEF StackedUnregistered, NameAt
  <2>1. registry[NameAt(k + 1)] = None
    BY <1>5 DEF Once, StackedUnregistered
  <2>2. NameAt(k + 1) # file.name
    <3>1. Rank[NameAt(1)] < Rank[NameAt(k + 1)]
      BY <1>2, <1>5 DEF Once, StackRanked
    <3>2. \A m \in Names : Rank[m] \in Nat
      BY RankIs DEF Ranks
    <3> QED BY <1>2, <3>1, <3>2
  <2> QED BY <1>3, <1>5, <2>1, <2>2, StackType
<1>8. AliveRegistered'
  <2> SUFFICES ASSUME NEW i \in alive', i \notin leaked
               PROVE  \/ \E k \in DOMAIN imports' : imports'[k].lib = i
                      \/ registry'[libs'[i].name] = i
    BY <1>1 DEF AliveRegistered
  <2>1. i \in alive /\ i \in DOMAIN libs /\ libs'[i].name = libs[i].name /\ libs[i].name \in Names
    BY <1>4, StackType
  <2>2. CASE i = top.lib
    BY <1>2, <1>3, <2>1, <2>2, TopType DEF NameAt
  <2>3. CASE i # top.lib /\ \E k \in DOMAIN imports : imports[k].lib = i
    BY <1>2, <1>5, <2>3
  <2>4. CASE i # top.lib /\ registry[libs[i].name] = i
    <3>1. registry[file.name] = None
      BY <1>2 DEF Once, StackedUnregistered
    <3> QED BY <1>3, <2>1, <2>4, <3>1, StackType
  <2> QED BY <2>1, <2>2, <2>3, <2>4 DEF Once, AliveRegistered
<1> QED BY <1>6, <1>7, <1>8 DEF Once

LEMMA OnceNext ==
  ASSUME Acyclic, Shape, Once, [Next]_vars
  PROVE  Once'
<1>1. CASE UNCHANGED vars
  BY <1>1, QuietOnce DEF vars
<1>2. ASSUME NEW n \in Names, Execute(n)
      PROVE  Once'
  <2>1. /\ libs = <<>> /\ libs' = Append(libs, Library(n)) /\ leaked' = {Fresh}
        /\ alive' = alive \union {Fresh}
        /\ imports' = <<Importing(Fresh, "execute", None)>> \o imports
    BY <1>2 DEF Execute, Begin
  <2>2. alive = {} /\ imports = <<>>
    <3>1. DOMAIN libs = {}
      BY <2>1
    <3> QED BY <3>1, TopType DEF Shape, Types
  <2>3. /\ DOMAIN imports' = {1} /\ imports'[1].lib = Fresh
    BY <2>1, <2>2 DEF Importing
  <2>4. StackRanked' /\ StackedUnregistered' /\ AliveRegistered'
    BY <2>1, <2>2, <2>3 DEF StackRanked, StackedUnregistered, AliveRegistered
  <2> QED BY <2>4 DEF Once
<1>3. ASSUME NEW n \in Names, NEW h \in Holders \union {None}, Import(n, h)
      PROVE  Once'
  <2>1. Begin(n, "import", h) /\ imports = <<>> /\ leaked' = leaked /\ registry[n] = None
    BY <1>3 DEF Import
  <2> QED BY <2>1, BeginOnce
<1>4. ASSUME NEW n \in Names, NEW h \in Holders \union {None}, ImportAgain(n, h)
      PROVE  Once'
  BY <1>4, QuietOnce DEF ImportAgain
<1>5. ASSUME NEW h \in Holders, Drop(h)
      PROVE  Once'
  BY <1>5, EmptyOnce DEF Drop, Release
<1>6. CASE Open
  <2>1. /\ imports # <<>> /\ UNCHANGED <<libs, alive, leaked, registry>>
        /\ imports' = <<[top EXCEPT !.step = "load"]>> \o Tail(imports)
    BY <1>6 DEF Open
  <2>2. /\ imports' \in Seq(Imports) /\ Len(imports') = Len(imports)
        /\ \A k \in DOMAIN imports : imports'[k].lib = imports[k].lib
    BY <2>1, TopStepped
  <2>3. DOMAIN imports' = DOMAIN imports
    BY <2>2 DEF Shape, Types
  <2> QED BY <2>1, <2>2, <2>3, QuietOnce
<1>7. CASE Require
  <2> DEFINE n == Requirement
  <2>1. /\ Begin(n, "import", None) /\ leaked' = leaked /\ registry[n] = None
        /\ Requiring /\ n \in Names
    BY <1>7, RequirementNamed DEF Require
  <2>2. Rank[n] < Rank[file.name]
    <3>1. file.name \in Names
      BY <2>1, TopType, ObjectType DEF Requiring
    <3> QED BY <2>1, <3>1, RankIs, RequirementNamed DEF Ranks, Requirement
  <2> HIDE DEF n
  <2> QED BY <2>1, <2>2, BeginOnce
<1>8. CASE RequireAgain
  <2>1. UNCHANGED <<alive, leaked, registry, imports>>
    BY <1>8 DEF RequireAgain
  <2>2. \A j \in DOMAIN libs : libs'[j].name = libs[j].name
    BY <1>8, RequiredAgain
  <2> QED BY <2>1, <2>2, QuietOnce
<1>9. CASE LoadClass
  <2>1. /\ UNCHANGED <<alive, leaked, registry, imports>>
        /\ libs' = WithClass(top.lib, Class) /\ Loading
    BY <1>9 DEF LoadClass, WithClass
  <2>2. \A j \in DOMAIN libs : libs'[j].name = libs[j].name
    BY <2>1, ClassListed
  <2> QED BY <2>1, <2>2, QuietOnce
<1>10. CASE AddConflicting
  <2>1. /\ UNCHANGED <<alive, leaked, registry>> /\ imports # <<>>
        /\ libs' = WithClass(top.lib, Class) /\ Loading
        /\ imports' = <<[top EXCEPT !.step = "conflict"]>> \o Tail(imports)
    BY <1>10 DEF AddConflicting, WithClass, Loading
  <2>2. \A j \in DOMAIN libs : libs'[j].name = libs[j].name
    BY <2>1, ClassListed
  <2>3. /\ imports' \in Seq(Imports) /\ Len(imports') = Len(imports)
        /\ \A k \in DOMAIN imports : imports'[k].lib = imports[k].lib
    BY <2>1, TopStepped
  <2>4. DOMAIN imports' = DOMAIN imports
    BY <2>3 DEF Shape, Types
  <2> QED BY <2>1, <2>2, <2>3, <2>4, QuietOnce
<1>11. CASE InitializeClass
  <2>1. /\ UNCHANGED <<alive, leaked, registry, imports>>
        /\ libs' = WithInitialized(top.lib) /\ imports # <<>>
    BY <1>11 DEF InitializeClass, Initializing, Loaded, WithInitialized
  <2>2. \A j \in DOMAIN libs : libs'[j].name = libs[j].name
    BY <2>1, ClassInitialized
  <2> QED BY <2>1, <2>2, QuietOnce
<1>12. CASE FinishImport
  BY <1>12, FinishOnce
<1>13. CASE FinishExecute
  <2>1. /\ imports' = Tail(imports) /\ UNCHANGED <<libs, alive, leaked, registry>>
        /\ imports # <<>> /\ top.kind = "execute"
    BY <1>13 DEF FinishExecute, Finished, Loaded
  <2>2. Len(imports) = 1 /\ top.lib \in leaked
    BY <2>1, TopType DEF Shape, Bottom
  <2>3. \A k \in DOMAIN imports : imports[k].lib \in leaked
    BY <2>1, <2>2, TopType DEF Shape, Types
  <2>4. imports' = <<>>
    BY <2>1, <2>2 DEF Shape, Types
  <2> QED BY <2>1, <2>3, <2>4, EmptyOnce
<1>14. CASE Throw
  <2>1. Release(<<>>, held) /\ UNCHANGED <<libs, leaked, registry>>
    BY <1>14 DEF Throw
  <2>2. alive' \subseteq Staying
    <3>1. Roots(<<>>, held) = leaked \union HeldTargets
      BY DEF Roots, HeldTargets
    <3> QED BY <2>1, <3>1 DEF Release, Kept, Staying
  <2>3. \A k \in DOMAIN imports : imports[k].lib \in alive' => imports[k].lib \in leaked
    BY <2>2, StackedNotStaying
  <2> QED BY <2>1, <2>3, EmptyOnce DEF Release
<1> QED BY <1>1, <1>2, <1>3, <1>4, <1>5, <1>6, <1>7, <1>8, <1>9, <1>10, <1>11,
           <1>12, <1>13, <1>14 DEF Next, Progress

LEMMA OnceLoaded ==
  ASSUME Shape, Once, Acyclic
  PROVE  LoadedOnce
<1> SUFFICES ASSUME NEW i \in alive \ leaked, NEW j \in alive \ leaked,
                    libs[i].name = libs[j].name
             PROVE  i = j
  BY DEF LoadedOnce
<1>1. i # None /\ j # None
  BY StackType
<1>2. CASE \E k, l \in DOMAIN imports : imports[k].lib = i /\ imports[l].lib = j
  <2>1. PICK k \in DOMAIN imports, l \in DOMAIN imports :
               imports[k].lib = i /\ imports[l].lib = j
    BY <1>2
  <2>2. NameAt(k) = NameAt(l) /\ NameAt(k) \in Names /\ k \in Nat /\ l \in Nat
    BY <2>1, StackType DEF NameAt
  <2>3. \A m \in Names : Rank[m] \in Nat
    BY RankIs DEF Ranks
  <2>4. ~(k < l) /\ ~(l < k)
    BY <2>2, <2>3 DEF Once, StackRanked
  <2> QED BY <2>1, <2>2, <2>4
<1>3. CASE \A k \in DOMAIN imports : imports[k].lib # i
  BY <1>1, <1>3 DEF Once, AliveRegistered, StackedUnregistered, NameAt
<1>4. CASE \A k \in DOMAIN imports : imports[k].lib # j
  BY <1>1, <1>4 DEF Once, AliveRegistered, StackedUnregistered, NameAt
<1> QED BY <1>2, <1>3, <1>4

LEMMA InitReading == Init => Reading /\ RequirementsLive /\ Once
<1> SUFFICES ASSUME Init PROVE Reading /\ RequirementsLive /\ Once
  OBVIOUS
<1>1. DOMAIN libs = {} /\ DOMAIN imports = {} /\ alive = {}
  BY DEF Init
<1>2. FilesRead /\ Waiting /\ EntriesRead
  BY <1>1 DEF Init, FilesRead, Waiting, EntriesRead
<1>3. RequirementsLive
  BY <1>1 DEF RequirementsLive, Closed
<1>4. StackRanked /\ StackedUnregistered /\ AliveRegistered
  BY <1>1 DEF StackRanked, StackedUnregistered, AliveRegistered
<1> QED BY <1>2, <1>3, <1>4 DEF Reading, Once

(* Whatever throws, wherever: a library that is found in the registry, and *)
(* has not been destroyed, has read its whole file, holds requirements     *)
(* that are there, and has each of its classes initialized and on record.  *)
THEOREM CompleteWhenRegistered == Spec => []RegisteredComplete
<1>1. Init => IInv /\ Reading /\ RequirementsLive
  BY InitIInv, InitReading
<1>2. IInv /\ Reading /\ RequirementsLive /\ [Next]_vars
        => (IInv /\ Reading /\ RequirementsLive)'
  BY ShapeNext, RecordedNext, ReadingNext, LiveNext DEF IInv
<1>3. IInv /\ Reading /\ RequirementsLive => RegisteredComplete
  BY EntriesComplete
<1> QED BY <1>1, <1>2, <1>3, PTL DEF Spec

(* And there is no second object of its name, if no library requires       *)
(* itself by way of others.                                                *)
THEOREM VisibleComplete ==
  ASSUME Acyclic
  PROVE  Spec => []VisibleWhenComplete
<1> DEFINE Inv == IInv /\ Reading /\ RequirementsLive /\ Once
<1>1. Init => Inv
  BY InitIInv, InitReading
<1>2. Inv /\ [Next]_vars => Inv'
  BY ShapeNext, RecordedNext, ReadingNext, LiveNext, OnceNext DEF IInv
<1>3. Inv => VisibleWhenComplete
  BY EntriesComplete, OnceLoaded DEF VisibleWhenComplete, IInv
<1> QED BY <1>1, <1>2, <1>3, PTL DEF Spec
=============================================================================
