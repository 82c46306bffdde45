------------------------------ MODULE Compiled ------------------------------
(***************************************************************************)
(* A method is compiled (CodeGen), its code is run on slots (Slots), and   *)
(* beside it the text is run by names (Meaning).  Whoever is messaged      *)
(* answers with a new value, and before that may give values to the block  *)
(* parameters it has met and run the blocks it has met: the ones of the    *)
(* message, as loops and conditionals do, or any that was passed earlier   *)
(* and kept, also when the method has ended.                               *)
(*                                                                         *)
(* Not in the model: a block that runs itself through another (it has one  *)
(* position), break, continue, return and exceptions (see Interpreter),    *)
(* and the names that the compiler notes as symbols.                       *)
(***************************************************************************)
EXTENDS CodeGen, FiniteSetsExt

CONSTANTS Methods,    \* the methods compiled: [parameters, nodes]
          Inherited,  \* the values of the super classes' properties
          MaxCalls,   \* bound: how often blocks are run
          MaxAnswers  \* bound: how many messages are answered

VARIABLES method,     \* the method
          g,          \* its syntax tree as the compiler leaves it
          machine,    \* the contexts that run its code
          text,       \* the contexts that run its text
          met,        \* the values the environment has been given
          answers, calls

vars == <<method, g, machine, text, met, answers, calls>>

M == INSTANCE Slots
T == INSTANCE Meaning

Code == g.code

-----------------------------------------------------------------------------

Argument(i) == <<"argument", i>>
Initial(name) == <<"initial", name>>
Numbered(names, offset) ==
    [i \in 0 .. offset + Len(names) - 1 |->
        IF i < offset THEN Inherited ELSE Initial(names[i - offset + 1])]

(* The method is compiled, and messaged. *)
Init ==
    /\ method \in Methods
    /\ g = Compile(method)
    /\ LET arguments == [i \in DOMAIN method.parameters |-> Argument(i)]
           named == [n \in Range(method.parameters) |->
                        Argument(PositionIn(method.parameters, n) + 1)]
           owned == [n \in Range(Properties) \union Range(ClassProperties) |->
                        Initial(n)]
       IN  /\ machine = M!Start(Len(OwnLocals(g, << >>)), arguments,
                                Numbered(Properties, PropertyOffset),
                                Numbered(ClassProperties, 0))
           /\ text = T!Start(method.nodes, named, owned)
    /\ met = {}
    /\ answers = 0
    /\ calls = 0

(* What the environment learns from a message. *)
Shown(event) ==
    IF event.kind # "send" THEN {}
    ELSE {event.who} \union Range(event.parameters)

(* Nothing was thrown while the method was compiled. *)
Compiles == g.thrown = {}

(* The machine executes its next instruction. *)
Execute ==
    /\ Compiles
    /\ machine.event = M!Busy
    /\ ~machine.thrown
    /\ machine' = M!Execute(machine, Code)
    /\ met' = met \union Shown(machine'.event)
    /\ UNCHANGED <<method, g, text, answers, calls>>

(* The text goes on when the machine has got to its next message. *)
Read ==
    /\ machine.event # M!Busy
    /\ text.event = M!Busy
    /\ text' = T!Execute(text)
    /\ UNCHANGED <<method, g, machine, met, answers, calls>>

Waiting == M!Busy \notin {machine.event, text.event}

(* Whoever was messaged last answers with a new value. *)
Answer ==
    /\ Waiting
    /\ machine.stack # << >>
    /\ answers < MaxAnswers
    /\ answers' = answers + 1
    /\ machine' = M!Answer(machine, <<"answer", answers'>>)
    /\ text' = T!Answer(text, <<"answer", answers'>>)
    /\ UNCHANGED <<method, g, met, calls>>

(* The parameters of block b that the environment has met, in the order of *)
(* their making, and the machines with values in them.                     *)
ParametersMet(b) ==
    {k \in DOMAIN machine.parameters :
        <<"parameter", k>> \in met /\ machine.parameters[k].block = b}

Item(k) == <<"item", <<k, calls + 1>>>>

(* A block that the environment has met is run. *)
Call ==
    /\ Waiting
    /\ calls < MaxCalls
    /\ calls' = calls + 1
    /\ \E b \in DOMAIN machine.contexts :
          /\ b > 1
          /\ M!Context(b) \in met
          /\ b \notin Range(machine.stack)
          /\ LET given == SetToSeq(ParametersMet(b))
                 m == FoldLeft(LAMBDA x, k : M!SetParameter(x, k, Item(k)), machine, given)
                 r == FoldLeft(LAMBDA x, k : T!SetParameter(x, k, Item(k)), text, given)
             IN  /\ machine' = M!Call(m, b)
                 /\ text' = T!Call(r, b)
    /\ UNCHANGED <<method, g, met, answers>>

Next == Execute \/ Read \/ Answer \/ Call

Spec == Init /\ [][Next]_vars

-----------------------------------------------------------------------------
(* Correctness *)

TypeOK ==
    /\ method \in Methods
    /\ \A b \in DOMAIN g.locals :
          IsInjective(g.locals[b])
    /\ machine.event.kind \in {"busy", "send", "end"}
    /\ text.event.kind \in {"busy", "send", "end"}
    /\ Range(machine.stack) \subseteq DOMAIN machine.contexts
    /\ answers \in 0 .. MaxAnswers
    /\ calls \in 0 .. MaxCalls

(* A block's code ends with its own CONTEXT_END, at the place to which its *)
(* size leads, and lies wholly inside or outside any other.                *)
BlocksNest ==
    LET blocks == {i \in DOMAIN Code : Code[i].op = "BLOCK"}
        end(i) == i + Code[i].size
    IN  /\ \A i \in blocks :
              /\ end(i) \in i + 1 .. Len(Code) - 1
              /\ Code[end(i)].op = "CONTEXT_END"
              /\ \A j \in blocks : j \in i + 1 .. end(i) => end(j) < end(i)
        /\ Cardinality({i \in DOMAIN Code : Code[i].op = "CONTEXT_END"})
              = Cardinality(blocks) + 1

(* A move whose source has another index now than in stage 1. *)
Stale == \E i \in DOMAIN Code :
            /\ Code[i].op = "ASSIGN"
            /\ Code[i].from # Index(g, Code[i].of)

(* No index of the code lies outside its context. *)
IndicesInRange == ~Stale => ~machine.thrown

(* A node and the nodes in it. *)
RECURSIVE Within(_)
Within(node) ==
    {node} \union
        UNION {Within(n) : n \in
            CASE node.kind = "message" -> {node.who} \union Range(node.parameters)
              [] node.kind = "assignment" -> {node.destination, node.source}
              [] node.kind = "block" -> Range(node.nodes)
              [] OTHER -> {}}

Assignments ==
    {n \in UNION {Within(method.nodes[i]) : i \in DOMAIN method.nodes} :
        n.kind = "assignment"}

(* The result of a message with a block is assigned: x = [a m: {...}].     *)
BlockAssigned == \E n \in Assignments : \E m \in Within(n.source) : IsBlock(m)

(* A class is assigned to a local variable: x = Object.                    *)
ClassAssigned ==
    \E n \in Assignments :
        /\ n.destination.name \notin Range(Properties) \union Range(ClassProperties)
        /\ n.source.kind = "identifier" /\ n.source.name \in Classes

(* A context with so many locals that with four more they exceed a byte.   *)
Crowded == \E b \in DOMAIN g.locals : Len(g.locals[b]) + 4 >= Byte

(* What gen_bytecode makes is sound: it refuses no method whose names are  *)
(* known and whose identifiers to the left of blocks are dotted, unless an *)
(* assigned message has a block; the blocks of the code nest; and execute  *)
(* finds every slot that the code has an index for, as long as all locals  *)
(* and the four slots every context has can be counted in a byte.          *)
CodeIsSound ==
    /\ ~BlockAssigned => Compiles
    /\ Compiles => BlocksNest
    /\ ~Crowded => IndicesInRange

(* Machine and text have done the same: event, stack and properties.       *)
Agree ==
    /\ machine.event = text.event
    /\ machine.stack = text.stack
    /\ \A n \in Range(Properties) :
          machine.properties[PropertyOffset + PositionIn(Properties, n)]
              = text.properties[n]
    /\ \A n \in Range(ClassProperties) :
          machine.classProperties[PositionIn(ClassProperties, n)] = text.properties[n]

(* While the machine waits, unless an index was stale or two blocks have   *)
(* met in a slot.                                                          *)
Agreeing == Waiting /\ ~Stale /\ ~machine.shared => Agree

(* What the code does is what its text says: the same messages, to the     *)
(* same objects with the same parameters, in the same order, whatever the  *)
(* objects answer and whichever blocks they run.  Not so when an index is  *)
(* stale, when two blocks have met in a slot, and for methods that assign  *)
(* a class to a local variable.                                            *)
DoesWhatItSays == ~ClassAssigned => Agreeing

-----------------------------------------------------------------------------
(* What the code says of itself, and does not keep *)

(* "Internal AST Error: Undefined local variable" (ast.cpp, line 79): no   *)
(* text makes the compiler use a variable it has not made.                 *)
NoInternalError == "Internal AST Error: Undefined local variable" \notin g.thrown

(* "Should already be set to a local variable" (ast.cpp, line 968): after  *)
(* the code of its source, the variable that is assigned to has the value, *)
(* a class too.                                                            *)
AlreadySet == ClassAssigned => Agreeing

(* "To many local variables created in a method" (ast.cpp, line 290): a    *)
(* method that is not refused has a slot for every local variable.         *)
LocalsHaveSlots == IndicesInRange
=============================================================================
