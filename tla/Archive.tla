------------------------------ MODULE Archive -------------------------------
(***************************************************************************)
(* data::Archive: writing the objects that can be reached from one object  *)
(* to a file, and reading them back.                                       *)
(*                                                                         *)
(* The writer's index has every object once, and grows while the objects   *)
(* in it are written.  The reader makes an object when it first meets a    *)
(* reference to it, and goes into that object's references before it goes  *)
(* on.  Its index keeps what it has made, in weak references: an object    *)
(* met again is the same object as long as somebody holds it, and is made  *)
(* again when nobody did.                                                  *)
(*                                                                         *)
(* Properties are written with the flag of the reference; the elements of  *)
(* a List or a Set without.  Binary data is left out; Null stands for the  *)
(* objects that are written by their class alone, the Booleans among them. *)
(***************************************************************************)
EXTENDS Naturals, Sequences, Functions

CONSTANTS
  Objects,      (* The program's objects.                                  *)
  Lists,        (* Those whose references are elements, not properties.    *)
  Graphs,       (* What they may refer to: graph[o] is a sequence of       *)
                (* references to objects or to Null.                       *)
  Null,
  MaxElements,  (* Bound: the elements a read that fails may ask for.      *)
  MaxHeap       (* Bound: no more calls when there are this many objects.  *)

ASSUME ListsAssumption == Lists \subseteq Objects /\ Null \notin Objects
ASSUME GraphsAssumption ==
  Graphs \subseteq
    [Objects -> Seq([to : Objects \union {Null}, weak : BOOLEAN])]

VARIABLES
  graph,        (* The references of the program's objects.                *)
  index,        (* Archive::index of the writer: objects, by position.     *)
  synced,       (* Archive::synced.                                        *)
  file,         (* The entries in the file: null, or references to others. *)
  stream,       (* data_stream of the reader, "none" before Archive open.  *)
  heap,         (* The objects the reader has made, by number: the entry,  *)
                (* the references to read for it, and those it has.        *)
  alive,        (* Those that have not been destroyed.                     *)
  cache,        (* Archive::index of the reader: cache[p] is the object    *)
                (* that was made for entry p, or 0.                        *)
  calls,        (* The calls of get_object in progress, inmost first: the  *)
                (* objects they are reading.                               *)
  held          (* The reference in which the program keeps the result.    *)

writer == <<graph, index, synced, file>>
vars == <<writer, stream, heap, alive, cache, calls, held>>

Strong(n) == [obj |-> n, weak |-> FALSE]
Weak(n)   == [obj |-> n, weak |-> TRUE]
None      == Weak(0)

(***************************************************************************)
(* Writing                                                                 *)
(***************************************************************************)
Position(idx, o) == CHOOSE p \in DOMAIN idx : idx[p] = o

(* Mutant of add_property: looks at the last entry only.                   *)
AddUnlessLast(idx, o) == IF idx[Len(idx)] = o THEN idx ELSE Append(idx, o)

(* An object that is in the index stays where it is.                       *)
add_property(idx, o) == IF o \in Range(idx) THEN idx ELSE Append(idx, o)

AddReferences(idx, o) ==
  LET added[k \in 0 .. Len(graph[o])] ==
        IF k = 0 THEN idx ELSE add_property(added[k - 1], graph[o][k].to)
  IN added[Len(graph[o])]

(* The entry of o in a file with index idx.                                *)
Entry(idx, o) ==
  IF o = Null THEN [null |-> TRUE, refs |-> <<>>]
  ELSE [null |-> FALSE,
        refs |-> [k \in DOMAIN graph[o] |->
                    [at   |-> Position(idx, graph[o][k].to),
                     weak |-> graph[o][k].weak /\ o \notin Lists]]]

(* set_object: a new index, also for an archive that has been written; sync *)
(* truncates the file, which nobody has opened to read.                    *)
set_object(o) ==
  /\ stream = "none"
  /\ file = <<>> \/ synced
  /\ index' = <<o>>
  /\ file' = <<>>
  /\ synced' = FALSE
  /\ UNCHANGED <<graph, stream, heap, alive, cache, calls, held>>

(* sync, one object at a time.                                             *)
WriteObject ==
  /\ ~synced
  /\ Len(file) < Len(index)
  /\ LET o == index[Len(file) + 1]
         grown == IF o = Null THEN index ELSE AddReferences(index, o)
     IN /\ index' = grown
        /\ file' = Append(file, Entry(grown, o))
  /\ UNCHANGED <<graph, synced, stream, heap, alive, cache, calls, held>>

WriteIndex ==
  /\ ~synced
  /\ file # <<>> /\ Len(file) = Len(index)
  /\ synced' = TRUE
  /\ UNCHANGED <<graph, index, file, stream, heap, alive, cache, calls, held>>

(***************************************************************************)
(* Reading                                                                 *)
(***************************************************************************)

(* Archive open: reads the index.                                          *)
Open ==
  /\ synced /\ stream = "none"
  /\ stream' = "closed"
  /\ cache' = [p \in DOMAIN file |-> 0]
  /\ UNCHANGED <<writer, heap, alive, calls, held>>

(* The objects of h kept by the calls and the variable, and, in turn, by   *)
(* the references of those.                                                *)
Roots(h, running, variable) ==
  {running[k] : k \in DOMAIN running} \union {n \in DOMAIN h : variable = Strong(n)}

Owned(h, n) == {m \in DOMAIN h : Strong(m) \in Range(h[n].refs)}

Closed(h, S) == \A n \in S : Owned(h, n) \subseteq S

KeptBy(h, roots) ==
  {n \in DOMAIN h :
     \A S \in SUBSET DOMAIN h : roots \subseteq S /\ Closed(h, S) => n \in S}

Kept(h, running, variable) == KeptBy(h, Roots(h, running, variable))

reader == Head(calls)
Reading == calls # <<>> /\ Len(heap[reader].refs) < Len(heap[reader].wants)
wanted == heap[reader].wants[Len(heap[reader].refs) + 1]

(* Mutant of Loaded: asks whether there is a reference only.               *)
LoadedOnce(p) == file[p].null \/ cache[p] # 0

(* A weak reference to an object that has been destroyed is null.          *)
Loaded(p) == file[p].null \/ cache[p] \in alive

(* What get_object answers without reading: Null, or its weak reference.   *)
Cached(p) == IF file[p].null THEN Strong(0) ELSE Weak(cache[p])

(* The references that are read for entry p.  The stream fails when it is  *)
(* opened a second time, and reads nothing from then on: the offsets of    *)
(* properties stay 0 and their flags are the end of the file, the number   *)
(* and offsets of elements stay what they were in memory.                  *)
Wants(p, str) ==
  IF str = "open" THEN {file[p].refs}
  ELSE IF index[p] \notin Lists
    THEN {[k \in DOMAIN file[p].refs |-> [at |-> 1, weak |-> TRUE]]}
    ELSE UNION {[1 .. n -> {[at |-> q, weak |-> FALSE] : q \in DOMAIN file}] :
                  n \in 0 .. MaxElements}

(* Mutant of Record: nothing is recorded.                                  *)
RecordNothing(p) == UNCHANGED cache

(* The object is recorded before its references are read.                  *)
Record(p) == cache' = [cache EXCEPT ![p] = Len(heap) + 1]

(* get_object makes the object, records it, and reads its references.      *)
Make(p) ==
  /\ \E wants \in Wants(p, stream') :
       heap' = Append(heap, [entry |-> p, wants |-> wants, refs |-> <<>>])
  /\ alive' = alive \union {Len(heap) + 1}
  /\ Record(p)
  /\ calls' = <<Len(heap) + 1>> \o calls
  /\ UNCHANGED <<writer, held>>

(* Mutant of Flagged: all references become strong.                        *)
FlaggedNever(want, ref) == [ref EXCEPT !.weak = FALSE]

(* A property written weak is made weak; any other is as it was answered.  *)
Flagged(want, ref) == [ref EXCEPT !.weak = ref.weak \/ want.weak]

(* A call that is in progress, or the program, gets a reference; what only *)
(* the temporary kept is destroyed.                                        *)
Receive(running, ref) ==
  /\ IF running = <<>>
       THEN held' = ref /\ UNCHANGED heap
       ELSE /\ LET o == heap[running[1]]
               IN heap' = [heap EXCEPT ![running[1]].refs =
                    Append(@, Flagged(o.wants[Len(o.refs) + 1], ref))]
            /\ UNCHANGED held
  /\ alive' = Kept(heap', running, held') \intersect alive
  /\ calls' = running
  /\ UNCHANGED <<writer, cache>>

(* The variable has an object from inside, and no longer the one it was    *)
(* given.                                                                  *)
Narrowed ==
  ~held.weak /\ held.obj \in DOMAIN heap /\ heap[held.obj].entry # 1

(* Archive getObject.  The stream is never closed.  Bound: a program that  *)
(* has kept an inner object drops it before it asks again.                 *)
get_object ==
  /\ stream # "none" /\ calls = <<>>
  /\ ~Narrowed
  /\ Len(heap) < MaxHeap
  /\ stream' = IF stream = "closed" THEN "open" ELSE "failed"
  /\ IF Loaded(1) THEN Receive(<<>>, Cached(1)) ELSE Make(1)

ReadNew ==
  /\ Reading
  /\ ~Loaded(wanted.at)
  /\ UNCHANGED stream
  /\ Make(wanted.at)

ReadCached ==
  /\ Reading
  /\ Loaded(wanted.at)
  /\ Receive(calls, Cached(wanted.at))
  /\ UNCHANGED stream

(* The object is read.                                                     *)
Return ==
  /\ calls # <<>> /\ ~Reading
  /\ Receive(Tail(calls), Strong(reader))
  /\ UNCHANGED stream

(* The program keeps an object that the one in its variable refers to, in  *)
(* place of that one.                                                      *)
KeepInner ==
  /\ calls = <<>>
  /\ \E n \in DOMAIN heap : \E m \in Owned(heap, n) :
       /\ held = Strong(n)
       /\ heap[m].entry # 1
       /\ held' = Strong(m)
       /\ alive' = KeptBy(heap, {m}) \intersect alive
  /\ UNCHANGED <<writer, stream, heap, cache, calls>>

(* The program's variable goes out of scope.                               *)
Drop ==
  /\ calls = <<>>
  /\ held # None
  /\ held' = None
  /\ alive' = {}
  /\ UNCHANGED <<writer, stream, heap, cache, calls>>

Init ==
  /\ graph \in Graphs
  /\ index = <<>>
  /\ synced = FALSE
  /\ file = <<>>
  /\ stream = "none"
  /\ heap = <<>>
  /\ alive = {}
  /\ cache = <<>>
  /\ calls = <<>>
  /\ held = None

Next ==
  \/ \E o \in Objects : set_object(o)
  \/ WriteObject \/ WriteIndex
  \/ Open \/ get_object \/ KeepInner \/ Drop
  \/ ReadNew \/ ReadCached \/ Return

Spec == Init /\ [][Next]_vars

(***************************************************************************)
(* Properties                                                              *)
(***************************************************************************)
Numbers == 0 .. Len(heap)

(* The variables have the types the code declares.                         *)
TypeOK ==
  /\ \A p \in DOMAIN index : index[p] \in Objects \union {Null}
  /\ \A p \in DOMAIN file : \A k \in DOMAIN file[p].refs :
       file[p].refs[k].at \in DOMAIN index
  /\ synced \in BOOLEAN
  /\ stream \in {"none", "closed", "open", "failed"}
  /\ alive \subseteq DOMAIN heap
  /\ \A n \in DOMAIN heap : heap[n].entry \in DOMAIN file
  /\ \A p \in DOMAIN cache : cache[p] \in Numbers
  /\ held.obj \in Numbers

(* sync: the references written so far lead to the objects they led to,    *)
(* and go on doing so while the index grows; no object has two entries.    *)
WrittenAsIs ==
  /\ \A p, q \in DOMAIN index : index[p] = index[q] => p = q
  /\ \A p \in DOMAIN file : index[p] # Null =>
       [k \in DOMAIN file[p].refs |-> index[file[p].refs[k].at]]
         = [k \in DOMAIN graph[index[p]] |-> graph[index[p]][k].to]

(* get_object: at no time are there two objects of an entry, however it is *)
(* shared or part of a cycle; and, the first time, every reference read    *)
(* leads to the object of the entry it leads to in the file, and is weak   *)
(* if it is there.                                                         *)
AliveOnce ==
  /\ \A n, m \in alive : heap[n].entry = heap[m].entry => n = m
  /\ stream = "open" => \A n \in DOMAIN heap : \A k \in DOMAIN heap[n].refs :
       LET ref  == heap[n].refs[k]
           want == file[heap[n].entry].refs[k]
       IN /\ IF ref.obj = 0 THEN file[want.at].null ELSE heap[ref.obj].entry = want.at
          /\ want.weak => ref.weak

(* The file has one strong reference to each entry but the first, and weak *)
(* ones only to entries further up, as a tree with parents does.           *)
StrongFrom(f, p) ==
  {q \in DOMAIN f : ~f[q].null /\
     \E k \in DOMAIN f[p].refs : f[p].refs[k] = [at |-> q, weak |-> FALSE]}
Below(f, p) ==
  LET within[k \in 0 .. Len(f)] ==
        IF k = 0 THEN {p} ELSE within[k - 1] \union
                                 UNION {StrongFrom(f, q) : q \in within[k - 1]}
  IN within[Len(f)]

ReferencesTo(f, p) ==
  UNION {{<<q, k>> : k \in {i \in DOMAIN f[q].refs :
                              f[q].refs[i] = [at |-> p, weak |-> FALSE]}} :
           q \in DOMAIN f}
Tree(f) ==
  /\ ReferencesTo(f, 1) = {}
  /\ \A p \in DOMAIN f : ~f[p].null =>
       \A x, y \in ReferencesTo(f, p) : x = y
  /\ \A p \in DOMAIN f : \A k \in DOMAIN f[p].refs :
       f[p].refs[k].weak => p \in Below(f, f[p].refs[k].at)

FirstRead == stream = "open" /\ calls = <<>> /\ held = Strong(1)

(* A tree with references to parents comes back whole, with the same       *)
(* references strong and weak.                                             *)
TreesComeBack ==
  FirstRead /\ Tree(file) =>
    /\ alive = DOMAIN heap
    /\ \A p \in DOMAIN file : ~file[p].null => cache[p] # 0
    /\ \A n \in DOMAIN heap :
         [k \in DOMAIN heap[n].refs |-> heap[n].refs[k].weak]
           = [k \in DOMAIN file[heap[n].entry].refs |->
                file[heap[n].entry].refs[k].weak]

(* get_object: while objects are read, and as long as the program keeps    *)
(* the one it was given, a reference that the file does not call weak      *)
(* leads to an object that is there as long as its reader is, although the *)
(* cache answered some of them weak and others were destroyed while they   *)
(* were read.  A program that keeps an inner object only (Narrowed) loses  *)
(* what that one refers to by a reference that was answered from the       *)
(* cache: then only the reference that was read first leads.               *)
StrongOnesLead ==
  ~Narrowed =>
    \A n \in alive : \A k \in DOMAIN heap[n].refs :
      ~heap[n].wants[k].weak /\ heap[n].refs[k].obj # 0
        => heap[n].refs[k].obj \in alive
=============================================================================
