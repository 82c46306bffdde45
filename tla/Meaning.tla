------------------------------- MODULE Meaning -------------------------------
(***************************************************************************)
(* What a method body means, by names: the abstract specification of the   *)
(* compiler and its slots.  Every context has variables of its own; a name *)
(* is a property of the class, a variable of the innermost context around  *)
(* it that has one, or a class.  A variable belongs to the block in whose  *)
(* text it is assigned first, a dotted name left of a block to that block. *)
(* There are no temporaries and no indices: values are kept on a stack.    *)
(*                                                                         *)
(* The machine runs from message to message as that of Slots does.         *)
(***************************************************************************)
EXTENDS Naturals, Sequences, SequencesExt, FiniteSetsExt, Functions, TLC

CONSTANTS Properties, ClassProperties, Classes, Dotted

LOCAL Nothing == <<"null", 0>>
LOCAL Self(c) == <<"context", c>>
LOCAL Busy == [kind |-> "busy"]

-----------------------------------------------------------------------------
(* The steps of a text *)

Owned(name) == name \in Range(Properties) \union Range(ClassProperties)

(* The names that these statements assign first. *)
Assigned(nodes) ==
    {nodes[i].destination.name : i \in {k \in DOMAIN nodes : nodes[k].kind = "assignment"}}
Declared(nodes, visible) == {n \in Assigned(nodes) \ visible : ~Owned(n)}

(* The block whose parameter the identifier at j is, or 0. *)
BlockOf(parameters, j) ==
    LET blocks == {k \in j + 1 .. Len(parameters) : parameters[k].kind = "block"}
    IN  IF /\ parameters[j].kind = "identifier"
           /\ parameters[j].name \in Dotted
           /\ blocks # {}
        THEN Min(blocks) ELSE 0

ParametersOf(parameters, i) ==
    {parameters[j].name : j \in {k \in 1 .. i - 1 : BlockOf(parameters, k) = i}}

RECURSIVE Expression(_, _, _), Sending(_, _, _), Statements(_, _, _)

(* A message's object, its parameters from the last to the first, and the  *)
(* message, whose result goes to "into".                                   *)
Sending(node, visible, into) ==
    LET n == Len(node.parameters)
        parameter(j) ==
            LET block == BlockOf(node.parameters, j)
            IN  IF block # 0
                THEN <<[op |-> "parameter", name |-> node.parameters[j].name,
                        depth |-> block - 1 - j]>>
                ELSE Expression(node.parameters[j], visible,
                                ParametersOf(node.parameters, j))
    IN  Expression(node.who, visible, {})
        \o FlattenSeq([k \in 1 .. n |-> parameter(n + 1 - k)])
        \o <<[op |-> "send", method |-> node.method, super |-> node.super,
              count |-> n, into |-> into]>>

(* "visible" holds the names around the expression, "own" the parameters   *)
(* of a block.                                                             *)
Expression(node, visible, own) ==
    CASE node.kind = "identifier" -> <<[op |-> "name", name |-> node.name]>>
      [] node.kind = "constant" -> <<[op |-> "constant", value |-> node.value]>>
      [] node.kind = "message" -> Sending(node, visible, [to |-> "stack"])
      [] node.kind = "block" ->
           LET names == own \union Declared(node.nodes, visible \union own)
           IN  <<[op |-> "block", own |-> names,
                  code |-> Statements(node.nodes, visible \union own, 1)]>>

Statements(nodes, visible, i) ==
    IF i > Len(nodes) THEN <<[op |-> "end"]>>
    ELSE LET node == nodes[i]
             name == node.destination.name
             seen == visible \union Declared(SubSeq(nodes, 1, i), visible)
         IN  (CASE node.kind = "message" -> Sending(node, seen, [to |-> "nothing"])
                [] node.kind = "assignment" /\ node.source.kind = "message"
                      /\ ~Owned(name) ->
                     Sending(node.source, seen, [to |-> "name", name |-> name])
                [] OTHER -> Expression(node.source, seen, {})
                            \o <<[op |-> "put", name |-> name]>>)
             \o Statements(nodes, visible, i + 1)

-----------------------------------------------------------------------------
(* The machine r *)

(* The context around c that has the name, or 0. *)
RECURSIVE Home(_, _, _)
Home(r, c, name) ==
    IF c = 0 THEN 0
    ELSE IF name \in r.contexts[c].own THEN c
    ELSE Home(r, r.contexts[c].origin, name)

Value(r, c, name) ==
    LET home == Home(r, c, name)
    IN  CASE name \in DOMAIN r.properties -> r.properties[name]
          [] name = "context" -> Self(c)
          [] home # 0 -> r.contexts[home].variables[name]
          [] OTHER -> <<"class", name>>

Store(r, c, name, value) ==
    IF name \in DOMAIN r.properties
    THEN [r EXCEPT !.properties[name] = value]
    ELSE [r EXCEPT !.contexts[Home(r, c, name)].variables[name] = value]

(* A local variable is looked up when the message is sent, a property when *)
(* it is its turn.                                                         *)
Operand(r, c, name) ==
    IF name \notin DOMAIN r.properties /\ Home(r, c, name) # 0
    THEN [lazy |-> TRUE, name |-> name]
    ELSE [lazy |-> FALSE, value |-> Value(r, c, name)]

Looked(r, c, operand) ==
    IF operand.lazy THEN Value(r, c, operand.name) ELSE operand.value

Push(r, c, operand) == [r EXCEPT !.contexts[c].stack = Append(@, operand)]
PushValue(r, c, value) == Push(r, c, [lazy |-> FALSE, value |-> value])
NewContext(origin, step) ==
    [origin |-> origin, own |-> step.own, code |-> step.code, ip |-> 1,
     variables |-> [n \in step.own |-> Nothing], stack |-> << >>]

Step(r, c, step) ==
    LET stack == r.contexts[c].stack
    IN  CASE step.op = "name" -> Push(r, c, Operand(r, c, step.name))
          [] step.op = "constant" -> PushValue(r, c, <<"constant", step.value>>)
          [] step.op = "block" ->
               LET made == [r EXCEPT !.contexts = Append(@, NewContext(c, step))]
               IN  PushValue(made, c, Self(Len(made.contexts)))
          [] step.op = "parameter" ->
               LET block == stack[Len(stack) - step.depth].value[2]
                   made == [r EXCEPT !.parameters =
                               Append(@, [block |-> block, name |-> step.name])]
               IN  PushValue(made, c, <<"parameter", Len(made.parameters)>>)
          [] step.op = "put" ->
               Store([r EXCEPT !.contexts[c].stack = Front(@)], c, step.name,
                     Looked(r, c, Last(stack)))

(* The message takes its object and its parameters from the stack; the     *)
(* variable its result is for is null from now on.                         *)
Send(r, c, step) ==
    LET stack == r.contexts[c].stack
        rest == Len(stack) - step.count - 1
        sent == [r EXCEPT
                    !.contexts[c].stack = SubSeq(@, 1, rest),
                    !.event = [kind |-> "send", method |-> step.method,
                               super |-> step.super,
                               who |-> Looked(r, c, stack[rest + 1]),
                               parameters |-> [k \in 1 .. step.count |->
                                   Looked(r, c, stack[Len(stack) + 1 - k])]]]
    IN  IF step.into.to = "name" THEN Store(sent, c, step.into.name, Nothing) ELSE sent

(* One step of the running context. *)
Execute(r) ==
    LET c == Last(r.stack)
        step == r.contexts[c].code[r.contexts[c].ip]
    IN  CASE step.op = "send" -> Send(r, c, step)
          [] step.op = "end" -> [r EXCEPT !.event = [kind |-> "end", context |-> c],
                                          !.stack = Front(@)]
          [] OTHER -> [Step(r, c, step) EXCEPT !.contexts[c].ip = @ + 1]

(* The body, messaged with these values of its parameters and properties.  *)
Start(nodes, arguments, properties) ==
    LET given == {"self", "class", "null"} \union DOMAIN arguments
        own == given \union Declared(nodes, given \union {"context"})
        first == NewContext(0, [own |-> own,
                                code |-> Statements(nodes, given \union {"context"}, 1)])
    IN  [contexts |->
                    <<[first EXCEPT !.variables =
                          arguments @@ ("self" :> <<"self", 0>>)
                                    @@ ("class" :> <<"klass", 0>>) @@ @]>>,
         stack |-> <<1>>, parameters |-> << >>, properties |-> properties,
         event |-> Busy]

Answer(r, value) ==
    LET c == Last(r.stack)
        into == r.contexts[c].code[r.contexts[c].ip].into
        taken == CASE into.to = "name" -> Store(r, c, into.name, value)
                   [] into.to = "stack" -> PushValue(r, c, value)
                   [] into.to = "nothing" -> r
    IN  [taken EXCEPT !.contexts[c].ip = @ + 1, !.event = Busy]

SetParameter(r, k, value) ==
    [r EXCEPT !.contexts[r.parameters[k].block].variables[r.parameters[k].name] = value]

Call(r, b) ==
    [r EXCEPT !.stack = Append(@, b), !.contexts[b].ip = 1,
              !.contexts[b].stack = << >>, !.event = Busy]
=============================================================================
