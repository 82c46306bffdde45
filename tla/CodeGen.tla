------------------------------- MODULE CodeGen -------------------------------
(***************************************************************************)
(* The grinder's syntax tree and the bytecode it generates: lib/ast.h and  *)
(* lib/ast.cpp.  A method body is a sequence of messages and assignments;  *)
(* the tree is walked three times, in the stages 2 (blocks get a variable  *)
(* and their parameters), 1 (names are resolved, results get variables)    *)
(* and 0 (code).  Every local variable is a byte: an index into the slots  *)
(* of the context that will run the method.                                *)
(*                                                                         *)
(* A node is known by its path, the sequence of positions that leads to it *)
(* from the method, which is << >>.  A scope is the sequence of the blocks *)
(* around a node, innermost first; its last is the method.  The walk keeps *)
(* what the nodes' members hold in one record, g.  Instructions count one  *)
(* each instead of their bytes, and all constants are alike.               *)
(***************************************************************************)
EXTENDS Naturals, Sequences, SequencesExt, Functions, TLC

CONSTANTS Properties,       \* the names of the class's own properties
          PropertyOffset,   \* the number of properties of the super classes
          ClassProperties,  \* the names of the class's class properties
          Classes,          \* the classes on record
          Dotted,           \* the names that start with a dot
          Byte              \* 256: locals are counted in a byte

ASSUME CodeGenAssumption ==
    /\ IsInjective(Properties)
    /\ IsInjective(ClassProperties)
    /\ PropertyOffset \in Nat
    /\ Byte \in Nat

-----------------------------------------------------------------------------
(* The tree *)

Identifier(name) == [kind |-> "identifier", name |-> name]
Constant(value) == [kind |-> "constant", value |-> value]
ContextBlock(nodes) == [kind |-> "block", nodes |-> nodes]
Assignment(name, source) ==
    [kind |-> "assignment", destination |-> Identifier(name), source |-> source]
Message(who, method, parameters) ==
    [kind |-> "message", who |-> who, method |-> method,
     parameters |-> parameters, super |-> FALSE]
SuperMessage(method, parameters) ==
    [Message(Identifier("self"), method, parameters) EXCEPT !.super = TRUE]

IsBlock(node) == node.kind = "block"
IsValue(node) == node.kind = "identifier"

-----------------------------------------------------------------------------
(* What the members of the nodes hold *)

Undefined == << >>
NoIndex == Byte

(* The method's node, with self, class, context, null and the parameters   *)
(* among its locals.                                                       *)
NewMethod(parameters) ==
    [locals  |-> (<< >> :> <<"self", "class", "context", "null">> \o parameters),
     counter |-> (<< >> :> 0),          \* temp_counter of every block
     temps   |-> << >>,                 \* _x_temp_counter of every statement
     result  |-> << >>,                 \* result, where result_set
     variable |-> << >>,                \* _local_var of every block
     type    |-> << >>,                 \* _type, where it is not UNKNOWN
     index   |-> << >>,                 \* _index of identifiers
     bound   |-> << >>,                 \* _block and _parameter
     code    |-> << >>,
     thrown  |-> {}]

Put(f, key, value) == (key :> value) @@ f
Lookup(f, key, default) == IF key \in DOMAIN f THEN f[key] ELSE default
Without(f, key) == Restrict(f, DOMAIN f \ {key})

Raise(g, what) == [g EXCEPT !.thrown = @ \union {what}]

OwnLocals(g, block) == Lookup(g.locals, block, << >>)

(* Block::locals: those of the scopes around it come first. *)
Locals(g, scope) ==
    FoldFunction(+, 0, [i \in DOMAIN scope |-> Len(OwnLocals(g, scope[i]))])

(* LocalVariable::index, counted from zero. *)
Index(g, variable) ==
    IF variable = Undefined THEN NoIndex
    ELSE LET own == OwnLocals(g, variable[2][1])
         IN  IF variable[1] \notin Range(own) THEN NoIndex
             ELSE Locals(g, Tail(variable[2]))
                  + (CHOOSE i \in DOMAIN own : own[i] = variable[1]) - 1

(* Block::local: the name, added unless the block has it. *)
Local(g, scope, name) ==
    IF name \in Range(OwnLocals(g, scope[1])) THEN g
    ELSE IF Locals(g, scope) < Byte - 1
         THEN [g EXCEPT !.locals =
                  Put(@, scope[1], Append(OwnLocals(g, scope[1]), name))]
         ELSE Raise(g, "To many local variables created in a method")

(* anon_local of methods and of blocks, and the variable it has returned. *)
Anonymous(g, scope) ==
    <<(IF Len(scope) = 1 THEN ".anon." ELSE ".anon.b.")
          \o ToString(g.counter[scope[1]]), scope>>

Counted(g, block, count) == [g EXCEPT !.counter = Put(@, block, count)]
Named(g, scope) == Local(g, scope, Anonymous(g, scope)[1])

\* Mutant of AnonLocal: the counter is not advanced.
AnonLocalAgain(g, scope) == Named(Counted(g, scope[1], 1), scope)

AnonLocal(g, scope) ==
    Named(Counted(g, scope[1], Lookup(g.counter, scope[1], 0) + 1), scope)

(* Node::set_result_dest, with a destination and without. *)
SetResult(g, path, variable) == [g EXCEPT !.result = Put(@, path, variable)]

SetAnonymous(g, path, scope) == SetResult(g, path, Anonymous(g, scope))

NeedResult(g, path, scope) ==
    IF path \in DOMAIN g.result THEN g
    ELSE SetAnonymous(AnonLocal(g, scope), path, scope)

(* What gen_result returns for the node. *)
Result(g, node, path) ==
    Lookup(IF IsBlock(node) THEN g.variable ELSE g.result, path, Undefined)

(* The bytecode functions: an instruction is written with the indices of   *)
(* its variables, which throws for one that is not defined.                *)
Emit(g, instruction, indices) ==
    IF NoIndex \in indices
    THEN Raise(g, "Internal AST Error: Undefined local variable")
    ELSE [g EXCEPT !.code = Append(@, instruction)]

-----------------------------------------------------------------------------
(* Identifiers *)

Type(g, path) == Lookup(g.type, path, "unknown")
Known(g, path, type, index) ==
    [g EXCEPT !.type = Put(@, path, type), !.index = Put(@, path, index)]

PositionIn(names, name) == (CHOOSE i \in DOMAIN names : names[i] = name) - 1

RECURSIVE ResolveLocal(_, _, _)
ResolveLocal(g, scope, name) ==
    IF scope = << >> THEN Undefined
    ELSE IF name \in Range(OwnLocals(g, scope[1])) THEN <<name, scope>>
    ELSE ResolveLocal(g, Tail(scope), name)

(* Identifier::gen_result in stage 1.  A name that turns out to be a class *)
(* loses the destination it was given.                                     *)
Resolve(g, name, path, scope) ==
    LET variable == ResolveLocal(g, scope, name)
        forgotten == [g EXCEPT !.result = Without(@, path)]
    IN  CASE name \in Range(Properties) ->
               NeedResult(Known(g, path, "property",
                                PositionIn(Properties, name) + PropertyOffset),
                          path, scope)
          [] name \notin Range(Properties) /\ name \in Range(ClassProperties) ->
               NeedResult(Known(g, path, "class property",
                                PositionIn(ClassProperties, name)), path, scope)
          [] OTHER ->
               IF variable # Undefined
               THEN LET h == Known(g, path, "local", Index(g, variable))
                    IN  IF path \in DOMAIN h.result THEN h
                        ELSE SetResult(h, path, variable)
               ELSE IF name \in Classes
               THEN NeedResult(Known(forgotten, path, "class", 0), path, scope)
               ELSE forgotten

(* Identifier::new_local *)
NewLocal(g, name, path, scope) ==
    IF Type(g, path) # "unknown" THEN g
    ELSE LET h == Local(g, scope, name)
         IN  Known(SetResult(h, path, <<name, scope>>), path, "local",
                   Index(h, <<name, scope>>))

(* Identifier::gen_result in stage 0.  The source of a move is the index   *)
(* that was looked up in stage 1; "of", the variable that is meant, is not *)
(* in the code.                                                            *)
Load(g, name, path, scope) ==
    LET result == Result(g, Identifier(name), path)
        to == Index(g, result)
        type == Type(g, path)
        with(fields) == Emit(g, fields @@ [to |-> to], {to})
    IN  CASE type = "block parameter" ->
               LET block == Index(g, g.bound[path].block)
                   parameter == Index(g, g.bound[path].parameter)
               IN  Emit(g, [op |-> "ASSIGN_BLOCK_PARAM", to |-> to,
                            block |-> block, parameter |-> parameter],
                        {to, block, parameter})
          [] type = "property" ->
               with([op |-> "ASSIGN_PROP", index |-> g.index[path]])
          [] type = "class property" ->
               with([op |-> "ASSIGN_CLASS_PROP", index |-> g.index[path]])
          [] type = "class" -> with([op |-> "ASSIGN_CLASS", class |-> name])
          [] type = "local" ->
               IF result[1] = name THEN g
               ELSE with([op |-> "ASSIGN", from |-> g.index[path],
                          of |-> ResolveLocal(g, scope, name)])
          [] OTHER -> Raise(g, "Identifier is unresolved.")

GenIdentifier(g, node, path, scope, stage) ==
    CASE stage = 2 -> g
      [] stage = 1 -> IF Type(g, path) = "unknown"
                      THEN Resolve(g, node.name, path, scope) ELSE g
      [] stage = 0 -> Load(g, node.name, path, scope)

(* Constant::gen_result *)
LoadConstant(g, node, path) ==
    LET to == Index(g, g.result[path])
    IN  Emit(g, [op |-> "ASSIGN_CONST", to |-> to, value |-> node.value], {to})

GenConstant(g, node, path, scope, stage) ==
    IF stage = 0 THEN LoadConstant(NeedResult(g, path, scope), node, path)
    ELSE NeedResult(g, path, scope)

-----------------------------------------------------------------------------
(* Messages and blocks *)

(* Identifier::block_parameter *)
BlockParameter(g, name, path, block, parameter, scope) ==
    IF name \notin Dotted
    THEN Raise(g, "Identifier is not a block parameter.")
    ELSE [SetAnonymous(AnonLocal(g, scope), path, scope) EXCEPT
             !.bound = Put(@, path, [block |-> block, parameter |-> parameter]),
             !.type = Put(@, path, "block parameter")]

(* ContextBlock::add_parameter *)
AddParameter(g, name, path, block, scope) ==
    BlockParameter(Local(g, <<block>> \o scope, name), name, path,
                   Lookup(g.variable, block, Undefined),
                   <<name, <<block>> \o scope>>, scope)

\* Mutant of TakesParameters: to the left of the next block, too.
TakesParametersBeyond(parameters, i, j) == ~IsBlock(parameters[j])

(* Message::sort_parameters: the block at i looks for parameters to its    *)
(* left as far as the next block.                                          *)
TakesParameters(parameters, i, j) ==
    \A k \in j .. i - 1 : ~IsBlock(parameters[k])

RECURSIVE Attach(_, _, _, _, _, _)
Attach(g, parameters, path, scope, i, j) ==
    IF j = 0 THEN g
    ELSE Attach(IF /\ TakesParameters(parameters, i, j)
                   /\ IsValue(parameters[j])
                   /\ Type(g, Append(path, j)) = "unknown"
                THEN AddParameter(g, parameters[j].name, Append(path, j),
                                  Append(path, i), scope)
                ELSE g,
                parameters, path, scope, i, j - 1)

\* Mutant of Patched: the size leaves out the CONTEXT_END.
PatchedBefore(code, mark) ==
    LET ended == Append(code, [op |-> "CONTEXT_END"])
    IN  [ended EXCEPT ![mark].size = Len(code) - mark]

(* What CONTEXT_END does to the instruction of its block. *)
Patched(code, mark) ==
    LET ended == Append(code, [op |-> "CONTEXT_END"])
    IN  [ended EXCEPT ![mark].size = Len(ended) - mark]

RECURSIVE GenResult(_, _, _, _, _), GenBytecode(_, _, _, _, _),
          SortParameters(_, _, _, _, _, _), Statements(_, _, _, _, _, _)

(* A block that has been visited takes its parameters in stage 2.          *)
TakeParameters(g, parameters, path, scope, stage, i) ==
    IF stage = 2 /\ IsBlock(parameters[i])
    THEN Attach(g, parameters, path, scope, i, i - 1) ELSE g

SortParameters(g, parameters, path, scope, stage, i) ==
    IF i = 0 THEN g
    ELSE SortParameters(
             TakeParameters(
                 GenResult(g, parameters[i], Append(path, i), scope, stage),
                 parameters, path, scope, stage, i),
             parameters, path, scope, stage, i - 1)

Send(g, node, path, wanted) ==
    LET who == Index(g, Result(g, node.who, Append(path, 0)))
        to == IF wanted THEN Index(g, g.result[path]) ELSE 0
        parameters ==
            [i \in DOMAIN node.parameters |->
                Index(g, Result(g, node.parameters[i], Append(path, i)))]
    IN  Emit(g, [op |-> "MESSAGE", super |-> node.super,
                 method |-> node.method, who |-> who, wanted |-> wanted,
                 to |-> to, parameters |-> parameters],
             {who, to} \union Range(parameters))

Answered(g, node, path, scope, stage, wanted) ==
    LET h == IF wanted THEN NeedResult(g, path, scope) ELSE g
    IN  IF stage = 0 THEN Send(h, node, path, wanted) ELSE h

(* Message::gen_bytecode and gen_result: the object first, then the        *)
(* parameters from the last to the first.                                  *)
GenMessage(g, node, path, scope, stage, wanted) ==
    Answered(SortParameters(
                 GenResult(g, node.who, Append(path, 0), scope, stage),
                 node.parameters, path, scope, stage, Len(node.parameters)),
             node, path, scope, stage, wanted)

(* The loops of Method::gen_bytecode and of ContextBlock::gen_result: each *)
(* statement goes on with the temporaries it has used in earlier stages.   *)
KeepCount(g, path, block) == [g EXCEPT !.temps = Put(@, path, g.counter[block])]

Statement(g, node, path, scope, stage) ==
    KeepCount(GenBytecode(Counted(g, scope[1], Lookup(g.temps, path, 0)),
                          node, path, scope, stage),
              path, scope[1])

Statements(g, nodes, path, scope, stage, i) ==
    IF i > Len(nodes) THEN g
    ELSE Statements(Statement(g, nodes[i], Append(path, i), scope, stage),
                    nodes, path, scope, stage, i + 1)

(* ContextBlock::gen_result.  Its variable comes with stage 2. *)
Place(g, path, scope) ==
    [g EXCEPT !.variable = Put(@, path, Anonymous(g, scope))]

Begin(g, path, scope, stage) ==
    LET to == Index(g, Lookup(g.variable, path, Undefined))
    IN  CASE stage = 2 -> Place(AnonLocal(g, scope), path, scope)
          [] stage = 1 -> g
          [] stage = 0 -> Emit(g, [op |-> "BLOCK", to |-> to, size |-> 0,
                                   locals |-> Len(OwnLocals(g, path))], {to})

Finish(g, stage, mark) ==
    IF stage = 0 /\ g.thrown = {}
    THEN [g EXCEPT !.code = Patched(@, mark)]
    ELSE g

GenBlock(g, node, path, scope, stage) ==
    Finish(Statements(Begin(g, path, scope, stage),
                      node.nodes, path, <<path>> \o scope, stage, 1),
           stage, Len(g.code) + 1)

(* Assignment::gen_bytecode.  Its source is not visited in stage 2. *)
Target(path) == Append(path, 0)
Source(path) == Append(path, 1)

Aim(g, path) ==
    IF Type(g, Target(path)) = "local"
    THEN SetResult(g, Source(path), g.result[Target(path)])
    ELSE g

Destine(g, node, path, scope) ==
    Aim(NewLocal(GenIdentifier(g, node.destination, Target(path), scope, 1),
                 node.destination.name, Target(path), scope), path)

Store(g, node, path) ==
    LET from == Index(g, Result(g, node.source, Source(path)))
        to(op) == Emit(g, [op |-> op, index |-> g.index[Target(path)],
                           from |-> from], {from})
        type == Type(g, Target(path))
    IN  CASE type = "property" -> to("SET_PROP")
          [] type = "class property" -> to("SET_CLASS_PROP")
          [] type = "local" -> g
          [] OTHER -> Raise(g, "Illegal assignment")

GenAssignment(g, node, path, scope, stage) ==
    CASE stage = 2 -> g
      [] stage = 1 -> GenResult(Destine(g, node, path, scope),
                                node.source, Source(path), scope, 1)
      [] stage = 0 -> Store(GenResult(g, node.source, Source(path), scope, 0),
                            node, path)

(* An exception ends it all. *)
GenResult(g, node, path, scope, stage) ==
    CASE g.thrown # {} -> g
      [] node.kind = "identifier" -> GenIdentifier(g, node, path, scope, stage)
      [] node.kind = "constant" -> GenConstant(g, node, path, scope, stage)
      [] node.kind = "block" -> GenBlock(g, node, path, scope, stage)
      [] node.kind = "message" -> GenMessage(g, node, path, scope, stage, TRUE)

GenBytecode(g, node, path, scope, stage) ==
    CASE g.thrown # {} -> g
      [] node.kind = "message" -> GenMessage(g, node, path, scope, stage, FALSE)
      [] node.kind = "assignment" -> GenAssignment(g, node, path, scope, stage)

(* Method::gen_bytecode for the whole body, and the loop over the stages   *)
(* in grinder::Method::compile.                                            *)
Walk(g, nodes, stage) == Statements(g, nodes, << >>, << << >> >>, stage, 1)

End(g) == [g EXCEPT !.code = Append(@, [op |-> "CONTEXT_END"])]

Compile(method) ==
    End(Walk(Walk(Walk(NewMethod(method.parameters), method.nodes, 2),
                  method.nodes, 1), method.nodes, 0))
=============================================================================
