------------------------------ MODULE Dispatch ------------------------------
(***************************************************************************)
(* Finding the method of a message: the virtual tables of classes, from    *)
(* the compiler that makes them to message and message_super that search   *)
(* them.                                                                   *)
(*                                                                         *)
(* A class's table has an entry for every method of the class, and one     *)
(* marked VTM_SUPER for every entry its super class's table had when the   *)
(* class was compiled: it names the class that defined the method, but has *)
(* no code.  When the class is recorded these are linked: they become      *)
(* copies of what the super class's table has then.  Files are compiled    *)
(* one by one and loaded later, so that a class may meet another version   *)
(* of its super class than it was compiled with, and an entry that then    *)
(* finds nothing to copy stays as it was in the file.                      *)
(*                                                                         *)
(* An entry names its class by hash and its method by an offset into that  *)
(* class's bytecode: here by the number of the compilation that made the   *)
(* bytecode.  One table stands for both tables of a class, which are       *)
(* treated alike; VTableSearch has the search within one.                  *)
(***************************************************************************)
EXTENDS Naturals, Sequences, FiniteSets

CONSTANTS
  Classes,      (* The names of classes.                                   *)
  Root,         (* The one that is part of the program: Object.            *)
  Super,        (* Super[c]: the super class of any other.                 *)
  Messages,
  MaxCompiles,  (* Bound: how often a class is compiled.                   *)
  MaxObjects,   (* Bound: how many Class objects are made.                 *)
  None

Entries == [class_id : Classes, offset : Nat, super : BOOLEAN]

(* A compiled class: its methods, and for the entries marked VTM_SUPER the *)
(* class that each one names.                                              *)
Files ==
  [version   : Nat,
   own       : SUBSET Messages,
   inherited : UNION {[D -> Classes] : D \in SUBSET Messages}]

ASSUME RootAssumption == Root \in Classes /\ Super \in [Classes \ {Root} -> Classes]
(* Super classes lead up to the root.                                      *)
ASSUME HierarchyAssumption ==
  /\ IsFiniteSet(Classes)
  /\ \E level \in [Classes -> 0 .. Cardinality(Classes)] :
       \A c \in Classes \ {Root} : level[Super[c]] < level[c]
ASSUME NoneAssumption == None \notin Entries /\ None \notin Files

VARIABLES
  compiles,     (* How often a class was compiled.                         *)
  file,         (* file[c]: the compiled class, or None.                   *)
  objects,      (* The Class objects ever made, by number.                 *)
  registry      (* registry[c]: the number of the class on record, or 0.   *)

vars == <<compiles, file, objects, registry>>

(***************************************************************************)
(* Compiling                                                               *)
(***************************************************************************)

(* The hashes in the table of a compiled class.                            *)
Keys(f) == f.own \union DOMAIN f.inherited

(* The class that the entry for m names in the table of class c, where the *)
(* compiler has loaded it from its file and linked it with those of its    *)
(* super classes: its own, what the super class's entry names, or, if that *)
(* has none, what is in the file.                                          *)
Named(c, m) ==
  LET at[k \in Classes] ==
        IF m \in file[k].own THEN k
        ELSE IF k # Root /\ m \in Keys(file[Super[k]]) THEN at[Super[k]]
        ELSE file[k].inherited[m]
  IN at[c]

(* create_class: the methods that are defined, and an entry marked         *)
(* VTM_SUPER for each other one in the table of the super class.           *)
Compiled(c, own) ==
  LET above == IF c = Root THEN {} ELSE Keys(file[Super[c]])
  IN [version   |-> compiles + 1,
      own       |-> own,
      inherited |-> [m \in above \ own |-> Named(Super[c], m)]]

Compile(c, own) ==
  /\ compiles < MaxCompiles
  /\ c # Root => file[Super[c]] # None
  /\ compiles' = compiles + 1
  /\ file' = [file EXCEPT ![c] = Compiled(c, own)]
  /\ UNCHANGED <<objects, registry>>

(***************************************************************************)
(* Loading                                                                 *)
(***************************************************************************)
Entry(c, version, super) == [class_id |-> c, offset |-> version, super |-> super]

(* Compilations are numbered from 1: an entry of a method has an offset,   *)
(* one that VTable::write has marked VTM_SUPER has none.                   *)
NoCode == 0
Unlinked(class_id) == Entry(class_id, NoCode, TRUE)

(* Mutant of Linked: the offset is not copied.                             *)
LinkedKeepsOffset(table, m, class_id) ==
  IF m \in DOMAIN table THEN Unlinked(table[m].class_id) ELSE Unlinked(class_id)
(* Mutant of Linked: nothing is linked.                                    *)
LinkedNever(table, m, class_id) == Unlinked(class_id)

(* VTable::link, for an entry marked VTM_SUPER: a copy of the entry in the *)
(* super class's table, if there is one; else it stays.                    *)
Linked(table, m, class_id) ==
  IF m \in DOMAIN table THEN [table[m] EXCEPT !.super = TRUE] ELSE Unlinked(class_id)

TableOf(o) == IF o = 0 THEN <<>> ELSE objects[o].table

(* Mutant of Table: every entry is linked, also those of the class itself. *)
TableAllLinked(c, f, super) ==
  [m \in Keys(f) |->
     IF m \in DOMAIN TableOf(super) THEN Linked(TableOf(super), m, c)
     ELSE IF m \in f.own THEN Entry(c, f.version, FALSE)
     ELSE Unlinked(f.inherited[m])]

(* The table of a class that is read from file f and linked to super.      *)
Table(c, f, super) ==
  [m \in Keys(f) |-> IF m \in f.own THEN Entry(c, f.version, FALSE)
                     ELSE Linked(TableOf(super), m, f.inherited[m])]

SuperOf(c) == IF c = Root THEN 0 ELSE registry[Super[c]]

NewClass(c) ==
  [class   |-> c,
   super   |-> SuperOf(c),
   version |-> file[c].version,
   own     |-> file[c].own,        (* For the properties.                  *)
   table   |-> Table(c, file[c], SuperOf(c))]

Loadable(c) ==
  /\ Len(objects) < MaxObjects
  /\ file[c] # None
  /\ c # Root => registry[Super[c]] # 0

(* Class::import and Class::record.                                        *)
Load(c) ==
  /\ Loadable(c)
  /\ registry[c] = 0
  /\ objects' = Append(objects, NewClass(c))
  /\ registry' = [registry EXCEPT ![c] = Len(objects) + 1]
  /\ UNCHANGED <<compiles, file>>

(* Class::unrecord, when a library is unloaded.  The object lives on in    *)
(* its sub classes.                                                        *)
Unload(c) ==
  /\ c # Root
  /\ registry[c] # 0
  /\ registry' = [registry EXCEPT ![c] = 0]
  /\ UNCHANGED <<compiles, file, objects>>

Init ==
  /\ compiles = 0
  /\ file = [c \in Classes |-> None]
  /\ objects = <<>>
  /\ registry = [c \in Classes |-> 0]

Next ==
  \E c \in Classes :
    \/ \E own \in SUBSET Messages : Compile(c, own)
    \/ Load(c)
    \/ Unload(c)

Spec == Init /\ [][Next]_vars

(***************************************************************************)
(* Messages                                                                *)
(***************************************************************************)
Numbers == 0 .. Len(objects)

(* The first entry for m in the tables of object o and its super classes,  *)
(* whatever that entry is; None if there is none.                          *)
Search(o, m) ==
  LET at[n \in Numbers] ==
        IF n = 0 THEN None
        ELSE IF m \in DOMAIN objects[n].table THEN objects[n].table[m]
        ELSE at[objects[n].super]
  IN at[o]

Unresolved == [klass |-> 0, ip |-> 0]

(* The class and the position the new context starts with, or the throw of *)
(* message itself or of the Class::resolve in it.  An entry without code   *)
(* is not marked VTM_BYTECODE: the context is that of a native method, at  *)
(* a pointer that was never set.                                           *)
Context(e) ==
  IF e = None THEN Unresolved
  ELSE IF registry[e.class_id] = 0 THEN Unresolved
  ELSE [klass |-> registry[e.class_id], ip |-> e.offset]

message(o, m) == Context(Search(o, m))

(* Mutant of message_super: starts with the class itself.                  *)
MessageSuperSelf(context, m) == Context(Search(context.klass, m))

(* From a method: where its class's super class leads.                     *)
message_super(context, m) == Context(Search(objects[context.klass].super, m))

(***************************************************************************)
(* Properties                                                              *)
(***************************************************************************)

(* The variables have the types the code declares, a class is on record    *)
(* under its own name, and super classes are made before their sub classes.*)
TypeOK ==
  /\ compiles \in 0 .. MaxCompiles
  /\ \A c \in Classes :
       /\ file[c] # None => Keys(file[c]) \subseteq Messages
       /\ registry[c] \in Numbers
       /\ registry[c] # 0 => objects[registry[c]].class = c
  /\ \A o \in DOMAIN objects :
       /\ objects[o].super \in 0 .. o - 1
       /\ \A m \in DOMAIN objects[o].table :
            objects[o].table[m].class_id \in Classes

(* The nearest class, from o upwards, that defines m.                      *)
Nearest(o, m) ==
  LET at[n \in Numbers] ==
        IF n = 0 \/ m \in objects[n].own THEN n ELSE at[objects[n].super]
  IN at[o]

Resolved(o, m) == message(o, m) # Unresolved

(* The class objects that messages to an instance of o may find a method   *)
(* in, and whether another version of one of them is on record now.        *)
Ancestry(o) ==
  LET at[n \in Numbers] == IF n = 0 THEN {} ELSE {n} \union at[objects[n].super]
  IN at[o]

Replaced(o) ==
  \E n \in Ancestry(o) :
    LET now == registry[objects[n].class]
    IN now # 0 /\ objects[now].version # objects[n].version

(* Link found nothing to copy for an entry for m, below the nearest class  *)
(* that defines m: the super class's file had m when the class was         *)
(* compiled, the one it is loaded with has not.                            *)
Missed(o, m) ==
  \E n \in Ancestry(o) :
    /\ n > Nearest(o, m)
    /\ m \in DOMAIN objects[n].table
    /\ m \notin DOMAIN TableOf(objects[n].super)

(* The method a message is sent to is that of the nearest class that       *)
(* defines it, at its place in the version that was linked, whatever       *)
(* versions the tables were compiled with, and also when classes were      *)
(* unloaded and loaded again.  There is one exception, and it leads to no  *)
(* other method: an entry that link found nothing for has no code.  (Which *)
(* bytecode the offset is used in is another question, see CodeMatches.)   *)
RunsNearest ==
  \A o \in DOMAIN objects, m \in Messages :
    Resolved(o, m) =>
      LET n  == Nearest(o, m)
          to == message(o, m)
      IN IF Missed(o, m) THEN to.ip = NoCode
         ELSE /\ n # 0
              /\ objects[to.klass].class = objects[n].class
              /\ to.ip = objects[n].version

(* The offset a method starts at is one of the bytecode it starts in: that *)
(* of the class on record, although the offset was copied from the one     *)
(* that was linked.  It does not hold when an ancestor is on record in     *)
(* another version, nor for an entry that link found nothing for.          *)
CodeMatches ==
  \A o \in DOMAIN objects, m \in Messages :
    Resolved(o, m) /\ ~Replaced(o) /\ ~Missed(o, m) =>
      message(o, m).ip = objects[message(o, m).klass].version

(* "This doesn't cause any problems" (meat.cpp:768), of an entry that link *)
(* finds nothing for: no message starts a method that has no code.         *)
UnlinkedHarmless ==
  \A o \in DOMAIN objects, m \in Messages :
    Resolved(o, m) => message(o, m).ip # NoCode

(* A message to super, and one to super from there, and so on, climbs from *)
(* class to class: it never runs the method that sent it again.            *)
SuperSendsClimb ==
  \A o \in DOMAIN objects, m, n \in Messages :
    LET from == message(o, m)
        to   == message_super(from, n)
    IN from # Unresolved /\ to # Unresolved =>
         objects[to.klass].class # objects[from.klass].class

(* "If the method is inherited then start looking through the parent       *)
(* classes to find the actual method entry." (meat.cpp:1646): a message    *)
(* that a parent class on record defines is found, with its code.          *)
InheritedFound ==
  \A o \in DOMAIN objects, m \in Messages :
    LET n == Nearest(o, m)
    IN n # 0 /\ registry[objects[n].class] # 0 =>
         Resolved(o, m) /\ message(o, m).ip # NoCode

(* As long as every class is compiled once, a message that a parent class  *)
(* on record defines is found, although the tables are copies.             *)
FoundWhenCurrent ==
  compiles = Cardinality({c \in Classes : file[c] # None}) => InheritedFound
=============================================================================
