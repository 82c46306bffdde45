----------------------------- MODULE References -----------------------------
(***************************************************************************)
(* Meat's reference counting: the template class memory::reference and the *)
(* control block (__reference) it shares between references.               *)
(*                                                                         *)
(* A slot is one C++ variable of type reference: a local or static         *)
(* variable, or a member of a heap object (a property, a local of a        *)
(* Context).  A cell is one control block together with the one object it  *)
(* wraps.  The destructor of an object releases the object's own slots,    *)
(* which may destroy further objects: the stack of running destructors is  *)
(* part of the state, and the operation that started it completes only     *)
(* when the stack is empty again.                                          *)
(***************************************************************************)
EXTENDS Naturals, Sequences, FiniteSets

CONSTANTS
  Slots,        (* Every variable of type reference.                       *)
  Cells,        (* Every control block, with the object it wraps.          *)
  Owner,        (* The cell whose object a slot is a member of, or None.   *)
  None          (* Neither a slot nor a cell: the null pointer.            *)

ASSUME SlotsAssumption == IsFiniteSet(Slots) /\ None \notin Slots
ASSUME CellsAssumption == None \notin Cells
ASSUME OwnerAssumption == Owner \in [Slots -> Cells \union {None}]

VARIABLES
  live,         (* The constructed slots.                                  *)
  obj,          (* obj[s]: the cell that slot s points to, or None.        *)
  weak,         (* weak[s]: the slot's weak_ref flag.                      *)
  refs,         (* refs[c]: the strong count in the control block.         *)
  wrefs,        (* wrefs[c]: the weak count in the control block.          *)
  block,        (* block[c]: the memory of the control block.              *)
  object,       (* object[c]: the wrapped object.                          *)
  dying,        (* The cells whose object's destructor runs, inmost first. *)
  deletes,      (* Those that delete the control block when it returns.    *)
  todo,         (* The slot of an unfinished assignment, or None.          *)
  source,       (* The slot being assigned from, None for a new object.    *)
  adopted,      (* History: cells whose first reference was a weak slot.   *)
  poisoned      (* History: a slot was read after its destruction.         *)

counts  == <<refs, wrefs>>
pending == <<todo, source>>
vars == <<live, obj, weak, refs, wrefs, block, object, dying, deletes,
          todo, source, adopted, poisoned>>

Variables == {s \in Slots : Owner[s] = None}
Members(c) == {s \in Slots : Owner[s] = c}

(***************************************************************************)
(* The slots that count as strong and as weak references to a cell.        *)
(***************************************************************************)
Strong(c) == {s \in live : obj[s] = c /\ ~weak[s]}
Weak(c)   == {s \in live : obj[s] = c /\ weak[s]}

(* No assignment is half done and no destructor is running.                *)
Quiet == dying = <<>> /\ todo = None /\ ~poisoned

(***************************************************************************)
(* A slot can be used when it is a variable or a member of an object that  *)
(* a strong variable (self, a local, a static) keeps alive.                *)
(***************************************************************************)
HeldBy(v, t) ==
  /\ v \in Variables \intersect live
  /\ ~weak[v]
  /\ obj[v] = Owner[t]

Usable(t) == t \in live /\ (t \in Variables \/ \E v \in Slots : HeldBy(v, t))

(* Mutants of IncReference: it takes every reference for a strong one, or  *)
(* forgets to count at all.                                                *)
IncStrong(c, w) ==
  /\ refs'  = [d \in Cells |-> IF d = c THEN refs[d] + 1 ELSE refs[d]]
  /\ UNCHANGED wrefs
IncNothing(c, w) == UNCHANGED counts

(***************************************************************************)
(* inc_reference for a slot with weak flag w that points to c.             *)
(***************************************************************************)
IncReference(c, w) ==
  /\ refs'  = [d \in Cells |-> IF d = c /\ ~w THEN refs[d] + 1 ELSE refs[d]]
  /\ wrefs' = [d \in Cells |-> IF d = c /\ w THEN wrefs[d] + 1 ELSE wrefs[d]]

(***************************************************************************)
(* dec_reference and ~reference.  The count the weak flag selects goes     *)
(* down (the weak one never below zero).  When the last strong reference   *)
(* goes while weak ones remain, free() destroys the object and keeps the   *)
(* block; when nothing remains, the block is deleted, and its destructor   *)
(* destroys the object if there still is one.                              *)
(***************************************************************************)

(* Mutant of DecWeak: the block stays.                                     *)
DecWeakKeepsBlock(s, c) ==
  /\ wrefs' = [wrefs EXCEPT ![c] = IF @ > 0 THEN @ - 1 ELSE 0]
  /\ UNCHANGED <<refs, block, object, dying, deletes>>

DecWeak(s, c) ==
  /\ wrefs' = [wrefs EXCEPT ![c] = IF @ > 0 THEN @ - 1 ELSE 0]
  /\ block' = IF refs[c] = 0 /\ wrefs'[c] = 0
                THEN [block EXCEPT ![c] = "deleted"] ELSE block
  /\ UNCHANGED <<refs, object, dying, deletes>>

(* Mutants of DecStrong: the block goes in spite of weak references, or    *)
(* the object goes with the last but one reference.                        *)
DecStrongForgetsWeak(s, c) ==
  LET last == refs[c] = 1
      kill == last /\ object[c] = "alive"
  IN /\ refs' = [refs EXCEPT ![c] = @ - 1]
     /\ object' = IF kill THEN [object EXCEPT ![c] = "destructing"] ELSE object
     /\ dying' = IF kill THEN <<c>> \o dying ELSE dying
     /\ deletes' = IF kill THEN deletes \union {c} ELSE deletes
     /\ block' = IF last /\ ~kill THEN [block EXCEPT ![c] = "deleted"] ELSE block
     /\ UNCHANGED wrefs
DecStrongTooEarly(s, c) ==
  LET kill == refs[c] <= 2 /\ object[c] = "alive"
  IN /\ refs' = [refs EXCEPT ![c] = @ - 1]
     /\ object' = IF kill THEN [object EXCEPT ![c] = "destructing"] ELSE object
     /\ dying' = IF kill THEN <<c>> \o dying ELSE dying
     /\ UNCHANGED <<wrefs, deletes, block>>

DecStrong(s, c) ==
  LET last == refs[c] = 1
      kill == last /\ object[c] = "alive"
      gone == last /\ wrefs[c] = 0
  IN /\ refs' = [refs EXCEPT ![c] = @ - 1]
     /\ object' = IF kill THEN [object EXCEPT ![c] = "destructing"] ELSE object
     /\ dying' = IF kill THEN <<c>> \o dying ELSE dying
     /\ deletes' = IF kill /\ gone THEN deletes \union {c} ELSE deletes
     /\ block' = IF gone /\ ~kill THEN [block EXCEPT ![c] = "deleted"]
                                  ELSE block
     /\ UNCHANGED wrefs

DecReference(s) ==
  /\ obj' = [obj EXCEPT ![s] = None]
  /\ IF obj[s] = None
       THEN UNCHANGED <<refs, wrefs, block, object, dying, deletes>>
       ELSE IF weak[s] THEN DecWeak(s, obj[s]) ELSE DecStrong(s, obj[s])

(***************************************************************************)
(* A new object gets a control block with one strong reference; the        *)
(* object's own slots are constructed as null references.                  *)
(***************************************************************************)
Wrap(s, c) ==
  /\ block[c] = "fresh"
  /\ block' = [block EXCEPT ![c] = "allocated"]
  /\ object' = [object EXCEPT ![c] = "alive"]
  /\ refs' = [refs EXCEPT ![c] = 1]
  /\ obj' = [obj EXCEPT ![s] = c]
  /\ UNCHANGED wrefs

(* reference(): a null reference in a variable.                            *)
Construct(s) ==
  /\ Quiet
  /\ s \in Variables \ live
  /\ live' = live \union {s}
  /\ obj' = [obj EXCEPT ![s] = None]
  /\ weak' = [weak EXCEPT ![s] = FALSE]
  /\ UNCHANGED <<counts, block, object, dying, deletes, pending, adopted,
                 poisoned>>

(* reference(Ty* obj): the first reference to a new object.                 *)
ConstructNew(s, c) ==
  /\ Quiet
  /\ s \in Variables \ live
  /\ Wrap(s, c)
  /\ live' = live \union {s} \union Members(c)
  /\ weak' = [weak EXCEPT ![s] = FALSE]
  /\ UNCHANGED <<dying, deletes, pending, adopted, poisoned>>

(* A variable constructed from slot t, with the given weak flag.           *)
ConstructFrom(s, t, w) ==
  /\ Quiet
  /\ s \in Variables \ live
  /\ Usable(t)
  /\ live' = live \union {s}
  /\ obj' = [obj EXCEPT ![s] = obj[t]]
  /\ weak' = [weak EXCEPT ![s] = w]
  /\ IncReference(obj[t], w)
  /\ UNCHANGED <<block, object, dying, deletes, pending, adopted, poisoned>>

(* The copy constructor keeps the flag; weak() and normal() choose it.     *)
Copy(s, t)       == ConstructFrom(s, t, weak[t])
MakeWeak(s, t)   == ConstructFrom(s, t, TRUE)
MakeNormal(s, t) == ConstructFrom(s, t, FALSE)

(* ~reference() of a variable that goes out of scope.                      *)
Destroy(s) ==
  /\ Quiet
  /\ s \in Variables \intersect live
  /\ live' = live \ {s}
  /\ DecReference(s)
  /\ UNCHANGED <<weak, pending, adopted, poisoned>>

(* operator=(pointer) with a null pointer; the weak flag stays as it was.     *)
AssignNull(s) ==
  /\ Quiet
  /\ Usable(s)
  /\ DecReference(s)
  /\ UNCHANGED <<live, weak, pending, adopted, poisoned>>

(* operator=(pointer) with a new object: first drop the old reference.        *)
AssignNew(s) ==
  /\ Quiet
  /\ Usable(s)
  /\ DecReference(s)
  /\ todo' = s
  /\ UNCHANGED <<live, weak, source, adopted, poisoned>>

(* ... and, once the destructors have run, wrap the new object.  The slot's *)
(* weak flag is not reset.                                                  *)
AdoptNew(s, c) ==
  /\ todo = s
  /\ source = None
  /\ dying = <<>>
  /\ s \in live
  /\ Wrap(s, c)
  /\ live' = live \union Members(c)
  /\ adopted' = IF weak[s] THEN adopted \union {c} ELSE adopted
  /\ todo' = None
  /\ UNCHANGED <<weak, dying, deletes, source, poisoned>>

(* operator=(const reference &): first drop the old reference ...          *)
Assign(s, t) ==
  /\ Quiet
  /\ Usable(s)
  /\ t \in live \ {s}
  /\ Usable(t)
  /\ DecReference(s)
  /\ todo' = s
  /\ source' = t
  /\ UNCHANGED <<live, weak, adopted, poisoned>>

(* ... and, once the destructors have run, copy the argument and count it. *)
CopySource(s, t) ==
  /\ todo = s
  /\ source = t
  /\ dying = <<>>
  /\ s \in live
  /\ t \in live
  /\ obj' = [obj EXCEPT ![s] = obj[t]]
  /\ weak' = [weak EXCEPT ![s] = weak[t]]
  /\ IncReference(obj[t], weak[t])
  /\ todo' = None
  /\ source' = None
  /\ UNCHANGED <<live, block, object, dying, deletes, adopted, poisoned>>

(* The argument, or the slot itself, went away with the destroyed objects: *)
(* what is read or written is undefined, and nothing is modelled after it. *)
TouchDestroyed ==
  /\ todo # None
  /\ dying = <<>>
  /\ ~poisoned
  /\ ~({todo, source} \ {None} \subseteq live)
  /\ poisoned' = TRUE
  /\ UNCHANGED <<live, obj, weak, counts, block, object, dying, deletes,
                 pending, adopted>>

(* The inmost running destructor releases one member of its object ...     *)
ReleaseMember(s) ==
  /\ dying # <<>>
  /\ s \in Members(Head(dying)) \intersect live
  /\ live' = live \ {s}
  /\ DecReference(s)
  /\ UNCHANGED <<weak, pending, adopted, poisoned>>

(* ... and returns when none is left; then the block goes if it has to.    *)
FinishDestructor(c) ==
  /\ dying # <<>>
  /\ c = Head(dying)
  /\ Members(c) \intersect live = {}
  /\ dying' = Tail(dying)
  /\ object' = [object EXCEPT ![c] = "destroyed"]
  /\ block' = IF c \in deletes THEN [block EXCEPT ![c] = "deleted"] ELSE block
  /\ deletes' = deletes \ {c}
  /\ UNCHANGED <<live, obj, weak, counts, pending, adopted, poisoned>>

Init ==
  /\ live = {}
  /\ obj = [s \in Slots |-> None]
  /\ weak = [s \in Slots |-> FALSE]
  /\ refs = [c \in Cells |-> 0]
  /\ wrefs = [c \in Cells |-> 0]
  /\ block = [c \in Cells |-> "fresh"]
  /\ object = [c \in Cells |-> "none"]
  /\ dying = <<>>
  /\ deletes = {}
  /\ todo = None
  /\ source = None
  /\ adopted = {}
  /\ poisoned = FALSE

Next ==
  \/ \E s \in Slots :
       \/ Construct(s)
       \/ Destroy(s)
       \/ AssignNull(s)
       \/ AssignNew(s)
       \/ ReleaseMember(s)
       \/ \E c \in Cells : ConstructNew(s, c) \/ AdoptNew(s, c)
       \/ \E t \in Slots :
            \/ Copy(s, t)
            \/ MakeWeak(s, t)
            \/ MakeNormal(s, t)
            \/ Assign(s, t)
            \/ CopySource(s, t)
  \/ \E c \in Cells : FinishDestructor(c)
  \/ TouchDestroyed

Spec == Init /\ [][Next]_vars

(***************************************************************************)
(* Properties                                                              *)
(***************************************************************************)

(* The variables hold values of the types the code declares.               *)
TypeOK ==
  /\ live \subseteq Slots
  /\ obj \in [Slots -> Cells \union {None}]
  /\ weak \in [Slots -> BOOLEAN]
  /\ refs \in [Cells -> Nat]
  /\ wrefs \in [Cells -> Nat]
  /\ block \in [Cells -> {"fresh", "allocated", "deleted"}]
  /\ object \in [Cells -> {"none", "alive", "destructing", "destroyed"}]
  /\ dying \in Seq(Cells)
  /\ deletes \subseteq Cells
  /\ todo \in Slots \union {None}
  /\ source \in Slots \union {None}
  /\ adopted \subseteq Cells
  /\ poisoned \in BOOLEAN

(* The counts in a control block are the numbers of live references to it,  *)
(* whatever order slots are copied, weakened, reassigned and destroyed in.  *)
(* operator=(pointer) on a slot left weak is the exception: it counts one      *)
(* strong reference for a weak slot.                                        *)
CountsExact ==
  \A c \in Cells :
    /\ refs[c] = Cardinality(Strong(c)) + (IF c \in adopted THEN 1 ELSE 0)
    /\ c \notin adopted => wrefs[c] = Cardinality(Weak(c))

(* No live reference, strong or weak, points to a deleted control block.    *)
NoDangling ==
  \A s \in live : obj[s] # None => block[obj[s]] = "allocated"

(* A control block outlives its last reference, and an object its last      *)
(* strong reference, only when a weak slot adopted it; nothing else leaks   *)
(* but the cycles that reference counting cannot see.                       *)
LeaksOnlyByAdoption ==
  Quiet => \A c \in Cells \ adopted :
             /\ block[c] = "allocated" => Strong(c) \union Weak(c) # {}
             /\ object[c] = "alive" => Strong(c) # {}

(* The interpreter's convention is enough: an assignment's argument that    *)
(* is a variable, or a member of an object which a variable other than the  *)
(* target keeps, is still there when the old object's destructors have run. *)
HeldArgumentsSurvive ==
  [][TouchDestroyed => /\ source \notin Variables
                       /\ \A v \in Slots \ {todo} : ~HeldBy(v, source)]_vars

(* operator=(const reference &) references the passed object               *)
(* (memory.h:258), for every slot a caller may pass.  The code does not    *)
(* (README).                                                               *)
ReferencesPassedObject == ~poisoned

(* An object is destroyed only when no strong reference to it is left, and *)
(* once destroyed (or being destroyed) it never comes back: not through a  *)
(* weak reference that outlives it, nor through normal().                  *)
DestroyOnce ==
  [][\A c \in Cells :
       /\ object[c] = "alive" /\ object'[c] # "alive" => Strong(c)' = {}
       /\ object[c] \in {"destructing", "destroyed"} =>
            object'[c] \in {"destructing", "destroyed"}
       /\ object[c] = "destroyed" => object'[c] = "destroyed"
       /\ block[c] = "deleted" => block'[c] = "deleted"]_vars

(***************************************************************************)
(* The inductive strengthening: what the memory of cells, objects and      *)
(* slots looks like between any two steps, a destructor's included.        *)
(***************************************************************************)

(* A cell is fresh until its object exists, and a fresh cell is unused.    *)
FreshCells ==
  \A c \in Cells :
    /\ block[c] = "fresh" <=> object[c] = "none"
    /\ block[c] = "fresh" => c \notin adopted
    /\ block[c] = "deleted" => c \notin adopted /\ refs[c] = 0

(* Exactly the objects with a strong count are alive, and all others have  *)
(* begun to be destroyed.                                                  *)
AliveObjects ==
  \A c \in Cells :
    object[c] = "alive" => refs[c] > 0 /\ block[c] = "allocated"

(* A member lives inside an object; a slot outside its life points nowhere. *)
LiveMembers ==
  \A s \in Slots :
    /\ s \in live /\ Owner[s] # None =>
         object[Owner[s]] \in {"alive", "destructing"}
    /\ s \notin live => obj[s] = None

(* The stack holds each object being destroyed once; a block that goes     *)
(* with its object has no references left.                                 *)
DyingStack ==
  /\ \A i \in 1 .. Len(dying) : object[dying[i]] = "destructing"
  /\ \A i, j \in 1 .. Len(dying) : dying[i] = dying[j] => i = j
  /\ \A c \in deletes : /\ object[c] = "destructing"
                         /\ refs[c] = 0 /\ wrefs[c] = 0 /\ c \notin adopted

(* The target of an unfinished assignment already points nowhere.          *)
PendingTarget ==
  /\ todo # None => obj[todo] = None
  /\ todo = None => source = None

(* The state between any two steps; each part needs the others.            *)
IInv ==
  /\ TypeOK
  /\ CountsExact
  /\ NoDangling
  /\ FreshCells
  /\ AliveObjects
  /\ LiveMembers
  /\ DyingStack
  /\ PendingTarget

(* Every object that is being destroyed is on the stack, and nobody owns it *)
(* any more.                                                               *)
DyingUnowned ==
  \A c \in Cells : object[c] = "destructing" =>
    /\ \E i \in 1 .. Len(dying) : dying[i] = c
    /\ Strong(c) = {}

(* A control block is there for a count that is not zero, or for the       *)
(* destructor that will delete it.                                         *)
BlocksNeeded ==
  \A c \in Cells \ adopted :
    block[c] = "allocated" => refs[c] > 0 \/ wrefs[c] > 0 \/ c \in deletes

(* The target of an unfinished assignment is there, kept by whoever made it *)
(* usable; so is its argument when a variable keeps it.                    *)
PendingKept ==
  /\ todo # None =>
       todo \in live /\ (todo \in Variables \/ \E v \in Slots : HeldBy(v, todo))
  /\ source # None =>
       /\ source \in Variables => source \in live
       /\ \A v \in Slots \ {todo} : HeldBy(v, source) => source \in live

(* What makes nothing leak and no held argument go away, given IInv.       *)
KeepInv == DyingUnowned /\ BlocksNeeded /\ PendingKept

(***************************************************************************)
(* The counting implements Ownership: its owners are the strong references *)
(* and an object is dead from the moment its destructor starts.            *)
(***************************************************************************)
Life(c) == CASE object[c] = "none"  -> "unborn"
             [] object[c] = "alive" -> "alive"
             [] OTHER               -> "dead"

Abstract == INSTANCE Ownership WITH
  owners <- [c \in Cells |-> Strong(c)],
  life   <- [c \in Cells |-> Life(c)],
  pinned <- adopted

(* Every step of the counting is a step of Ownership or changes nothing    *)
(* that Ownership sees: the last strong reference to go, and no other      *)
(* step, destroys the object, in every nesting of destructors.             *)
ImplementsOwnership == Abstract!Spec
=============================================================================
