----------------------------- MODULE Libraries ------------------------------
(***************************************************************************)
(* Loading and unloading class libraries: Library import: and              *)
(* data::Library, with the registry of libraries and the registry of       *)
(* classes that every message and every import goes through.               *)
(*                                                                         *)
(* A library's import imports what it requires first, on the C++ stack.    *)
(* The registry of libraries keeps weak references only: a library lives   *)
(* as long as somebody holds the reference import returned, which is       *)
(* strong for the one who caused it to be loaded and weak for all others.  *)
(* Its destructor unrecords its classes.  An exception unwinds all imports *)
(* that are in progress.                                                   *)
(***************************************************************************)
EXTENDS Naturals, Sequences, FiniteSets, Functions

CONSTANTS
  Names,        (* The names of libraries.                                 *)
  Found,        (* Those the search path has a file for.                   *)
  Native,       (* Those whose file is a native library.                   *)
  Requires,     (* Requires[n]: the sequence of names in the file of n.    *)
  Classes,      (* Classes[n]: the sequence of classes in the file of n.   *)
  Super,        (* Super[c]: the super class of class c, or Builtin.       *)
  Builtin,      (* The classes of the builtin library, always recorded.    *)
  Holders,      (* The variables in which a program keeps libraries.       *)
  MaxLibraries, (* Bound: how many Library objects are created.            *)
  None

ClassNames == UNION {Range(Classes[n]) : n \in Names}

ASSUME FoundAssumption == Found \subseteq Names /\ Native \subseteq Found
ASSUME RequiresAssumption == Requires \in [Names -> Seq(Names)]
ASSUME ClassesAssumption == Classes \in [Names -> Seq(ClassNames)]
ASSUME NoneAssumption == None \notin Nat
ASSUME SuperAssumption == Super \in [ClassNames -> ClassNames \union {Builtin}]

VARIABLES
  libs,         (* The Library objects ever created, by number.            *)
  alive,        (* Those that have not been destroyed.                     *)
  leaked,       (* Those made by execute, which nothing ever destroys.     *)
  registry,     (* registry[n]: the object a weak entry refers to, or None.*)
  recorded,     (* recorded[c]: the object that recorded class c, or None. *)
  imports,      (* The imports in progress, inmost first.                  *)
  held,         (* held[h]: the reference in variable h.                   *)
  kept,         (* History: the program kept every library it imported.    *)
  clash         (* History: a native library had a class of another one.   *)

history == <<kept, clash>>
vars == <<libs, alive, leaked, registry, recorded, imports, held, history>>

Library(n) == [name |-> n, requirements |-> <<>>, classes |-> <<>>,
               initialized |-> 0]
Strong(i) == [lib |-> i, weak |-> FALSE]
Weak(i)   == [lib |-> i, weak |-> TRUE]
Nothing   == Weak(None)

Importing(i, kind, holder) == [lib |-> i, kind |-> kind, holder |-> holder,
                               step |-> "find"]
Fresh == Len(libs) + 1
top == Head(imports)
file == libs[top.lib]

(***************************************************************************)
(* Lifetime                                                                *)
(***************************************************************************)
Targets(refs) == {r.lib : r \in {x \in refs : ~x.weak}}

(* What the imports in progress, the variables and main refer to, and what *)
(* a library of ls refers to.                                              *)
Roots(stack, hs) ==
  {stack[k].lib : k \in DOMAIN stack} \union leaked
    \union Targets({hs[h] : h \in Holders})

Required(ls, i) == Targets(Range(ls[i].requirements))

Closed(ls, S) == \A i \in S : Required(ls, i) \subseteq S

(* The libraries of ls kept by the roots and, in turn, by the requirements *)
(* of those.                                                               *)
KeptBy(ls, roots) ==
  {i \in DOMAIN ls :
     \A S \in SUBSET DOMAIN ls : roots \subseteq S /\ Closed(ls, S) => i \in S}

Kept(ls, stack, hs) == KeptBy(ls, Roots(stack, hs))

(* Mutant of Unrecord: the classes stay.                                   *)
UnrecordNone(dead) == recorded

(* ~Library unrecords the library's classes, by their names.               *)
Unrecord(dead) ==
  LET gone == UNION {Range(libs[i].classes) : i \in dead}
  IN [c \in ClassNames |-> IF c \in gone THEN None ELSE recorded[c]]

(* References are gone: so are the libraries that only they kept.          *)
Release(stack, hs) ==
  LET living == Kept(libs, stack, hs) \intersect alive
  IN /\ alive' = living
     /\ recorded' = Unrecord(alive \ living)
     /\ imports' = stack
     /\ held' = hs

(***************************************************************************)
(* Operations                                                              *)
(***************************************************************************)

(* A new Library object, and its import on top of the others.              *)
Begin(n, kind, holder) ==
  /\ Len(libs) < MaxLibraries
  /\ libs' = Append(libs, Library(n))
  /\ alive' = alive \union {Fresh}
  /\ imports' = <<Importing(Fresh, kind, holder)>> \o imports
  /\ UNCHANGED <<registry, recorded, held, clash>>

(* Library import: of a program, whose result goes to a variable, or to    *)
(* none.  A name in the registry is answered from there.                   *)
Import(n, h) ==
  /\ imports = <<>>
  /\ Len(libs) + Cardinality(Names) <= MaxLibraries
  /\ Begin(n, "import", h)
  /\ registry[n] = None
  /\ h # None => held[h] = Nothing
  /\ kept' = (kept /\ h # None)
  /\ UNCHANGED leaked

ImportAgain(n, h) ==
  /\ imports = <<>>
  /\ registry[n] # None
  /\ h \in Holders
  /\ held[h] = Nothing
  /\ held' = [held EXCEPT ![h] = Weak(registry[n])]
  /\ UNCHANGED <<libs, alive, leaked, registry, recorded, imports, history>>

(* data::Library::execute, from main: the object is never released.        *)
Execute(n) ==
  /\ libs = <<>>
  /\ Begin(n, "execute", None)
  /\ leaked' = {Fresh}
  /\ UNCHANGED kept

(* The file is there ...                                                   *)
Open ==
  /\ imports # <<>> /\ top.step = "find"
  /\ file.name \in Found
  /\ imports' = <<[top EXCEPT !.step = "load"]>> \o Tail(imports)
  /\ UNCHANGED <<libs, alive, leaked, registry, recorded, held, history>>

Requirement == Requires[file.name][Len(file.requirements) + 1]
Requiring ==
  /\ imports # <<>> /\ top.step = "load"
  /\ Len(file.requirements) < Len(Requires[file.name])

(* requires: the next requirement is imported first, and appended when it  *)
(* is there.                                                               *)
Require ==
  /\ Requiring
  /\ registry[Requirement] = None
  /\ Begin(Requirement, "import", None)
  /\ UNCHANGED <<leaked, kept>>

RequireAgain ==
  /\ Requiring
  /\ registry[Requirement] # None
  /\ libs' = [libs EXCEPT ![top.lib].requirements =
                Append(@, Weak(registry[Requirement]))]
  /\ UNCHANGED <<alive, leaked, registry, recorded, imports, held, history>>

(* Then the classes, one by one: import and record.                        *)
Class == Classes[file.name][Len(file.classes) + 1]
Loading ==
  /\ imports # <<>> /\ top.step = "load"
  /\ Len(file.requirements) = Len(Requires[file.name])
  /\ Len(file.classes) < Len(Classes[file.name])

Resolvable == {Builtin} \union {c \in ClassNames : recorded[c] # None}
Resolves(c) == c \in Resolvable

LoadClass ==
  /\ Loading
  /\ Resolves(Super[Class])
  /\ recorded[Class] = None
  /\ libs' = [libs EXCEPT ![top.lib].classes = Append(@, Class)]
  /\ recorded' = [recorded EXCEPT ![Class] = top.lib]
  /\ UNCHANGED <<alive, leaked, registry, imports, held, history>>

(* Library::add of a native library lists a class before it is recorded:   *)
(* also one that is on record already, which record then throws for.       *)
AddConflicting ==
  /\ Loading
  /\ file.name \in Native
  /\ Resolves(Super[Class])
  /\ recorded[Class] # None
  /\ libs' = [libs EXCEPT ![top.lib].classes = Append(@, Class)]
  /\ imports' = <<[top EXCEPT !.step = "conflict"]>> \o Tail(imports)
  /\ clash' = TRUE
  /\ UNCHANGED <<alive, leaked, registry, recorded, held, kept>>

(* init_classes: initialize is messaged to every class; not by execute.    *)
Loaded ==
  /\ imports # <<>> /\ top.step = "load"
  /\ Len(file.requirements) = Len(Requires[file.name])
  /\ Len(file.classes) = Len(Classes[file.name])

Initializing ==
  Loaded /\ top.kind = "import" /\ file.initialized < Len(file.classes)

(* Mutant of InitializeClass: the registry has the library before its      *)
(* classes are initialized.                                                *)
InitializeListed ==
  /\ Initializing
  /\ libs' = [libs EXCEPT ![top.lib].initialized = @ + 1]
  /\ registry' = [registry EXCEPT ![file.name] = top.lib]
  /\ UNCHANGED <<alive, leaked, recorded, imports, held, history>>

InitializeClass ==
  /\ Initializing
  /\ libs' = [libs EXCEPT ![top.lib].initialized = @ + 1]
  /\ UNCHANGED <<alive, leaked, registry, recorded, imports, held, history>>

(* Only then the registry has the library, and the reference is returned:  *)
(* to the import that required it, to a variable, or to nobody.            *)
Finished == Loaded /\ ~Initializing

Deliver(r) ==
  LET below == Tail(imports)
  IN IF below # <<>>
       THEN /\ libs' = [libs EXCEPT ![below[1].lib].requirements = Append(@, r)]
            /\ imports' = below
            /\ UNCHANGED <<alive, recorded, held>>
       ELSE /\ Release(below, IF top.holder = None THEN held
                              ELSE [held EXCEPT ![top.holder] = r])
            /\ UNCHANGED libs

FinishImport ==
  /\ Finished
  /\ top.kind = "import"
  /\ registry' = [registry EXCEPT ![file.name] = top.lib]
  /\ Deliver(Strong(top.lib))
  /\ UNCHANGED <<leaked, history>>

FinishExecute ==
  /\ Finished
  /\ top.kind = "execute"
  /\ imports' = Tail(imports)
  /\ UNCHANGED <<libs, alive, leaked, registry, recorded, held, history>>

Conflicting ==
  \/ imports # <<>> /\ top.step = "conflict"
  \/ /\ Loading /\ Resolves(Super[Class])
     /\ recorded[Class] # None /\ file.name \notin Native

(* An exception: no file, a super class that is not there, a class that    *)
(* is there already, or anything an initialize method throws.  It leaves   *)
(* all the imports in progress.                                            *)
Throws ==
  \/ imports # <<>> /\ top.step = "find" /\ file.name \notin Found
  \/ Loading /\ ~Resolves(Super[Class])
  \/ Conflicting
  \/ Initializing

(* Mutant of Throw: an import catches what the one above it throws, and    *)
(* goes on with its requirements.                                          *)
ThrowsFromOne ==
  /\ Throws
  /\ Release(Tail(imports), held)
  /\ UNCHANGED <<libs, leaked, registry, history>>

Throw ==
  /\ Throws
  /\ Release(<<>>, held)
  /\ UNCHANGED <<libs, leaked, registry, history>>

(* A program's variable goes out of scope.                                 *)
Drop(h) ==
  /\ imports = <<>>
  /\ held[h] # Nothing
  /\ Release(<<>>, [held EXCEPT ![h] = Nothing])
  /\ kept' = FALSE
  /\ UNCHANGED <<libs, leaked, registry, clash>>

Init ==
  /\ libs = <<>>
  /\ alive = {}
  /\ leaked = {}
  /\ registry = [n \in Names |-> None]
  /\ recorded = [c \in ClassNames |-> None]
  /\ imports = <<>>
  /\ held = [h \in Holders |-> Nothing]
  /\ kept = TRUE
  /\ clash = FALSE

Progress ==
  \/ Open \/ Require \/ RequireAgain \/ LoadClass \/ AddConflicting \/ InitializeClass
  \/ FinishImport \/ FinishExecute \/ Throw

Next ==
  \/ \E n \in Names : \/ Execute(n)
                      \/ \E h \in Holders \union {None} :
                           Import(n, h) \/ ImportAgain(n, h)
  \/ \E h \in Holders : Drop(h)
  \/ Progress

Spec == Init /\ [][Next]_vars

(* The thread that imports goes on until the import returns or throws.     *)
FairSpec == Spec /\ WF_vars(Progress)

(***************************************************************************)
(* Properties                                                              *)
(***************************************************************************)
Listed(i) == Range(libs[i].classes)

(* The variables have the types the code declares.                         *)
TypeOK ==
  /\ \A i \in DOMAIN libs :
       /\ libs[i].name \in Names
       /\ \A k \in DOMAIN libs[i].requirements :
            libs[i].requirements[k].lib \in DOMAIN libs
       /\ Listed(i) \subseteq ClassNames
       /\ libs[i].initialized \in 0 .. Len(libs[i].classes)
  /\ alive \subseteq DOMAIN libs
  /\ leaked \subseteq alive
  /\ registry \in [Names -> DOMAIN libs \union {None}]
  /\ recorded \in [ClassNames -> DOMAIN libs \union {None}]
  /\ \A k \in DOMAIN imports : imports[k].lib \in alive
  /\ \A h \in Holders : held[h].lib \in DOMAIN libs \union {None}

(* The classes on record are those of the libraries that live, each by the *)
(* one that loaded it: whatever fails half way leaves no class behind, and *)
(* unloading one library takes no class from another, unless that one is   *)
(* native and has a class of the same name.  As long as a program keeps    *)
(* what it imports, no class on record has a super class that is not.      *)
ClassesFollowLibraries ==
  /\ \A c \in ClassNames :
       recorded[c] # None => recorded[c] \in alive /\ c \in Listed(recorded[c])
  /\ clash \/ \A i \in alive : \A c \in Listed(i) : recorded[c] = i
  /\ kept /\ ~clash =>
       \A c \in ClassNames : recorded[c] # None => Resolves(Super[c])

(* A library that is found in the registry, and is there, has imported its *)
(* requirements, of which those that it holds are there too, and its       *)
(* classes are all initialized and on record, as its own unless a native   *)
(* library had one of another's; and there is no other object for its      *)
(* name.  main's own file is not looked for there.  This is not about the  *)
(* entries of libraries that have been destroyed: FoundIsThere.            *)
RegisteredComplete ==
  \A n \in Names :
    registry[n] \in alive =>
      LET i   == registry[n]
          lib == libs[i]
      IN /\ lib.name = n
         /\ Len(lib.requirements) = Len(Requires[n])
         /\ Required(libs, i) \subseteq alive
         /\ lib.classes = Classes[n]
         /\ lib.initialized = Len(Classes[n])
         /\ clash \/ \A c \in Range(Classes[n]) : recorded[c] = i

LoadedOnce ==
  \A i, j \in alive \ leaked : libs[i].name = libs[j].name => i = j

VisibleWhenComplete == RegisteredComplete /\ LoadedOnce

(* Every import comes to an end, with a library or an exception, if no     *)
(* library requires itself by way of others.  Those that do import each    *)
(* other without end: ImportedOnce.                                        *)
ImportsEnd == imports # <<>> ~> imports = <<>>

(* "Check to see if we have already imported the library."                 *)
(* (datastore.cpp:162): a library that is being imported is not imported   *)
(* a second time.  Two that require each other are, again and again: the   *)
(* registry has a library only when its import has ended.                  *)
ImportedOnce ==
  \A j, k \in DOMAIN imports :
    /\ imports[j].kind = "import" /\ imports[k].kind = "import"
    /\ libs[imports[j].lib].name = libs[imports[k].lib].name
    => j = k

(* ... and what the check finds has been imported and is there, as long as *)
(* the program keeps what it imports.  An exception destroys the libraries *)
(* that the failed import had loaded, and their entries stay.              *)
FoundIsThere ==
  [][\A n \in Names, h \in Holders :
       kept /\ ImportAgain(n, h) => held'[h].lib \in alive]_vars
=============================================================================
