-------------------------------- MODULE Slots --------------------------------
(***************************************************************************)
(* The contexts of one method and of its blocks, and the interpreter's     *)
(* instructions on their slots: Context and BlockContext of src/meat.cpp,  *)
(* the operands of src/execute.cpp.  A context's slots are its locals and  *)
(* four more; a block's slots come after those of the context that made it *)
(* and an index below their number is one of theirs.                       *)
(*                                                                         *)
(* Messages are answered by the environment: the machine m is busy until   *)
(* it sends one, or until the context it runs ends.  A value is a pair of its *)
(* kind and what tells it apart.  Two parts of m are not in the program:   *)
(* "owners" says, of every slot, whose variable was written there last,    *)
(* and "shared" is set when a slot is read for another context's variable. *)
(***************************************************************************)
EXTENDS Naturals, Sequences, SequencesExt, TLC

CONSTANT Byte               \* 256: slots are counted in a byte

Null == <<"null", 0>>
Context(c) == <<"context", c>>
Busy == [kind |-> "busy"]

\* Mutant of NumOfLocals: room for the slots every method has and no more.
NumOfLocalsBare(locals) == 4 % Byte

(* Context::Context *)
NumOfLocals(locals) == (locals + 4) % Byte

(* BlockContext::locals, and the number the compiler counts with. *)
RECURSIVE Count(_, _), Compiled(_, _)
Count(m, c) == IF c = 0 THEN 0
               ELSE (Count(m, m.contexts[c].origin)
                        + NumOfLocals(m.contexts[c].locals)) % Byte
Compiled(m, c) == IF c = 0 THEN 0
                  ELSE Compiled(m, m.contexts[c].origin) + m.contexts[c].locals

(* BlockContext::local: the slot that index i stands for in context c. *)
RECURSIVE Place(_, _, _), Owner(_, _, _)
Place(m, c, i) ==
    LET origin == m.contexts[c].origin
    IN  IF i < Count(m, origin) THEN Place(m, origin, i)
        ELSE <<c, i - Count(m, origin)>>

(* The context whose variable the compiler means by index i of context c. *)
Owner(m, c, i) ==
    LET origin == m.contexts[c].origin
    IN  IF i < Compiled(m, origin) THEN Owner(m, origin, i) ELSE c

(* Context::local throws for an index that is out of range. *)
InRange(m, place) == place[2] < NumOfLocals(m.contexts[place[1]].locals)

Read(m, c, i) ==
    LET place == Place(m, c, i)
    IN  IF place \in DOMAIN m.slots THEN m.slots[place] ELSE Null

(* The reading of the slots with these indices is noted. *)
Noting(m, c, indices) ==
    LET places == {<<Place(m, c, i), Owner(m, c, i)>> : i \in indices}
    IN  [m EXCEPT
            !.thrown = @ \/ \E p \in places : ~InRange(m, p[1]),
            !.shared = @ \/ \E p \in places :
                               p[1] \in DOMAIN m.owners /\ m.owners[p[1]] # p[2]]

Write(m, c, i, value) ==
    LET place == Place(m, c, i)
    IN  IF InRange(m, place)
        THEN [m EXCEPT !.slots = (place :> value) @@ @,
                       !.owners = (place :> Owner(m, c, i)) @@ @]
        ELSE [m EXCEPT !.thrown = TRUE]

Jump(m, c, ip) == [m EXCEPT !.contexts[c].ip = ip]
Ahead(m, c) == [m EXCEPT !.contexts[c].ip = @ + 1]

-----------------------------------------------------------------------------
(* The instructions of execute, on the running context c *)

(* MESSAGE, MESG_RESULT and those to super.  The object and the parameters *)
(* are read, then the slot of the result is set to null.                   *)
Send(m, c, i) ==
    LET sent == Noting(m, c, {i.who} \union {i.parameters[k] : k \in DOMAIN i.parameters})
        cleared == IF i.wanted THEN Write(sent, c, i.to, Null) ELSE sent
    IN  [Ahead(cleared, c) EXCEPT
            !.event = [kind |-> "send", who |-> Read(m, c, i.who),
                       method |-> i.method, super |-> i.super,
                       parameters |-> [k \in DOMAIN i.parameters |->
                                          Read(m, c, i.parameters[k])]],
            !.contexts[c].wanted = IF i.wanted THEN i.to ELSE 0]

(* BLOCK: a new context, and on behind its code. *)
MakeBlock(m, c, i) ==
    LET ip == m.contexts[c].ip
        made == [m EXCEPT !.contexts =
                    Append(@, [origin |-> c, locals |-> i.locals, start |-> ip + 1,
                               ip |-> ip + 1, wanted |-> 0])]
    IN  Jump(Write(made, c, i.to, Context(Len(made.contexts))), c, ip + i.size + 1)

(* CONTEXT_END, and the return to who had the context run. *)
ContextEnd(m, c) ==
    [m EXCEPT !.event = [kind |-> "end", context |-> c], !.stack = Front(@)]

(* ASSIGN_BLOCK_PARAM: BlockParameter::BlockParameter *)
MakeParameter(m, c, i) ==
    LET noted == Noting(m, c, {i.block})
        made == [noted EXCEPT !.parameters =
                    Append(@, [block |-> Read(m, c, i.block)[2],
                               index |-> i.parameter])]
    IN  Ahead(Write(made, c, i.to, <<"parameter", Len(made.parameters)>>), c)

Load(m, c, i, value) == Ahead(Write(m, c, i.to, value), c)
Assign(m, c, i) == Load(Noting(m, c, {i.from}), c, i, Read(m, c, i.from))
SetProperty(m, c, i) ==
    [Ahead(Noting(m, c, {i.from}), c) EXCEPT !.properties[i.index] = Read(m, c, i.from)]
SetClassProperty(m, c, i) ==
    [Ahead(Noting(m, c, {i.from}), c) EXCEPT
        !.classProperties[i.index] = Read(m, c, i.from)]

Instruction(m, c, i) ==
    CASE i.op = "BLOCK" -> MakeBlock(m, c, i)
      [] i.op = "ASSIGN" -> Assign(m, c, i)
      [] i.op = "ASSIGN_PROP" -> Load(m, c, i, m.properties[i.index])
      [] i.op = "ASSIGN_CLASS_PROP" ->
               Load(m, c, i, m.classProperties[i.index])
      [] i.op = "ASSIGN_CLASS" -> Load(m, c, i, <<"class", i.class>>)
      [] i.op = "ASSIGN_CONST" -> Load(m, c, i, <<"constant", i.value>>)
      [] i.op = "ASSIGN_BLOCK_PARAM" -> MakeParameter(m, c, i)
      [] i.op = "SET_PROP" -> SetProperty(m, c, i)
      [] i.op = "SET_CLASS_PROP" -> SetClassProperty(m, c, i)

(* One turn of the loop in execute, with the context that is running. *)
Execute(m, code) ==
    LET c == Last(m.stack)
        i == code[m.contexts[c].ip]
    IN  CASE i.op = "MESSAGE" -> Send(m, c, i)
          [] i.op = "CONTEXT_END" -> ContextEnd(m, c)
          [] OTHER -> Instruction(m, c, i)

-----------------------------------------------------------------------------
(* What the environment does to the machine *)

(* The interpreter enters the context, which finds itself in slot 2. *)
Enter(m, c) == [Write(m, c, 2, Context(c)) EXCEPT !.event = Busy]

(* A method is messaged: meat::message and Context::parameter. *)
Start(locals, arguments, properties, classProperties) ==
    LET slots == [i \in 0 .. 3 |-> <<<<"self", 0>>, <<"klass", 0>>, Context(1), Null>>[i + 1]]
                 @@ [i \in 4 .. 3 + Len(arguments) |-> arguments[i - 3]]
        places == {<<1, i>> : i \in DOMAIN slots}
    IN  Enter([contexts |-> <<[origin |-> 0, locals |-> locals, start |-> 1,
                               ip |-> 1, wanted |-> 0]>>,
               slots |-> [p \in places |-> slots[p[2]]],
               owners |-> [p \in places |-> 1],
               stack |-> <<1>>, parameters |-> << >>,
               properties |-> properties, classProperties |-> classProperties,
               event |-> Busy, thrown |-> FALSE, shared |-> FALSE],
              1)

(* The message is answered: Context::result. *)
Answer(m, value) ==
    LET c == Last(m.stack)
        wanted == m.contexts[c].wanted
    IN  Enter(IF wanted # 0 THEN Write(m, c, wanted, value) ELSE m, c)

(* BlockParameter::set_parameter *)
SetParameter(m, k, value) ==
    Write(m, m.parameters[k].block, m.parameters[k].index, value)

(* A block is run, from its start. *)
Call(m, b) ==
    Enter([m EXCEPT !.stack = Append(@, b),
                    !.contexts[b].ip = m.contexts[b].start], b)
=============================================================================
