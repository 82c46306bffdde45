----------------------------- MODULE MCCompiled -----------------------------
(***************************************************************************)
(* Methods with one parameter, a: some statements, a message with a block  *)
(* that has a parameter, and some statements more; methods that assign the *)
(* result of a message with a block, or a class; and methods with as many  *)
(* locals as a byte can count together with four more, and one above.      *)
(***************************************************************************)
EXTENDS Compiled

LOCAL a == Identifier("a")
LOCAL x == Identifier("x")
LOCAL y == Identifier("y")
LOCAL z == Identifier("z")
LOCAL p == Identifier("p")
LOCAL k == Identifier("k")
LOCAL i == Identifier(".i")
LOCAL j == Identifier(".j")
LOCAL context == Identifier("context")
LOCAL object == Identifier("Object")
LOCAL one == Constant("one")
LOCAL send(who) == Message(who, "m", << >>)
LOCAL sendWith(who, what) == Message(who, "m:", <<what>>)
LOCAL do(who, item, body) == Message(who, "do:with:", <<item, ContextBlock(body)>>)
LOCAL keep(who, body) == Message(who, "keep:", <<ContextBlock(body)>>)

MCProperties == <<"p">>
MCClassProperties == <<"k">>

Before ==
    {<<Assignment("x", one)>>,
     <<Assignment("p", a), Assignment("x", sendWith(p, a))>>,
     <<Assignment("p", object), Assignment("x", sendWith(p, object))>>,
     <<Assignment("x", k), sendWith(a, sendWith(x, send(a)))>>}

Bodies ==
    {<<sendWith(x, i)>>,
     <<Assignment("x", i)>>,
     <<Assignment("y", send(i)), Assignment("k", y), sendWith(a, y)>>,
     <<Assignment("p", i), sendWith(p, i)>>,
     <<Assignment("y", one), do(a, j, <<sendWith(y, j)>>), sendWith(y, i)>>,
     <<Assignment("y", x), Assignment("x", y)>>,
     <<sendWith(send(i), send(x)), send(context)>>,
     <<SuperMessage("m:", <<i>>), Assignment("x", sendWith(object, one))>>}

After ==
    {<< >>,
     <<Message(x, "m:with:", <<p, send(a)>>), send(context)>>,
     <<Assignment("z", one), sendWith(z, x)>>,
     <<keep(a, <<sendWith(x, a)>>), Assignment("x", a)>>,
     <<Message(a, "do:with:last:",
               <<i, ContextBlock(<<sendWith(i, x)>>), ContextBlock(<<send(x)>>)>>)>>,
     <<Message(a, "then:else:",
               <<ContextBlock(<<Assignment("y", a), sendWith(y, x)>>),
                 ContextBlock(<<sendWith(x, one)>>)>>)>>}

Method(nodes) == [parameters |-> <<"a">>, nodes |-> nodes]

MCBlocksAssigned ==
    {Method(<<Assignment("x", do(a, i, <<sendWith(a, i)>>)), sendWith(a, x)>>),
     Method(<<keep(a, <<Assignment("x", send(keep(a, <<send(a)>>)))>>)>>)}

MCClassesAssigned ==
    {Method(<<Assignment("x", object), send(x)>>),
     Method(<<Assignment("x", one), keep(a, <<Assignment("x", object)>>), sendWith(a, x)>>)}

(* A method with so many locals: self, class, context, null, x, and its    *)
(* parameters.                                                             *)
WithLocals(count) ==
    [parameters |-> [n \in 1 .. count - 5 |-> "a" \o ToString(n)],
     nodes |-> <<Assignment("x", Identifier("a" \o ToString(count - 5))), sendWith(x, x)>>]

MCCrowded == {WithLocals(Byte - 4)}

MCMethods ==
    {Method(b \o <<do(a, i, c)>> \o d) : b \in Before, c \in Bodies, d \in After}
        \union MCBlocksAssigned \union MCClassesAssigned \union MCCrowded
        \union {WithLocals(Byte - 5)}
=============================================================================
