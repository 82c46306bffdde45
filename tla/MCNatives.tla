----------------------------- MODULE MCNatives -----------------------------
(***************************************************************************)
(* Texts of up to three characters, one, two and three bytes wide, and     *)
(* collections of three items, of which two are equal and not the same.    *)
(***************************************************************************)
EXTENDS Natives

\* a and b, an e with an acute, and the sign for the euro
Alphabet == {97, 98, 233, 8364}
UTF8(c) ==
    IF c < 128 THEN <<c>>
    ELSE IF c < 2048 THEN <<192 + c \div 64, 128 + (c % 64)>>
    ELSE <<224 + c \div 4096, 128 + ((c \div 64) % 64), 128 + (c % 64)>>
TextOf(codes) == FlattenSeq([i \in DOMAIN codes |-> UTF8(codes[i])])
TextsUpTo(length) == {TextOf(codes) : codes \in BoundedSeq(Alphabet, length)}

MCGiven == TextsUpTo(3)
Values == TextsUpTo(1) \union {TextOf(<<97, 98>>), TextOf(<<98, 98>>), TextOf(<<233, 97>>)}
Withs == {<< >>, UTF8(98), TextOf(<<8364, 97>>)}
Indices == -1 .. 4

MCTextMessages ==
    {Call(m, 0, 0, << >>, << >>, "none") :
        m \in {"copy", "isEmpty", "asInteger", "asNumber", "length"}}
    \union {Call(m, 0, 0, v, << >>, "none") :
        m \in {"+", "<", "<=", "<>", "==", ">", ">=", "findFirst:", "findLast:"}, v \in Values}
    \union {Call("*", 0, c, << >>, << >>, "none") : c \in -1 .. 2}
    \union {Call("findFirst:at:", i, 0, v, << >>, "none") : i \in Indices, v \in Values}
    \union {Call("findLast:at:", i, 0, UTF8(97), << >>, "none") : i \in {1}}
    \union {Call("getCharAt:", i, 0, << >>, << >>, "none") : i \in Indices}
    \union {Call("getFrom:count:", i, c, << >>, << >>, "none") : i, c \in Indices}
    \union {Call("replaceFrom:count:with:", i, c, w, << >>, "none") :
        i, c \in Indices, w \in {TextOf(<<8364, 97>>)}}
    \union {Call("replaceAll:with:", 0, 0, v, w, "none") : v \in Values, w \in Withs}
    \union {Call("forEach:do:", 0, 0, << >>, << >>, l) : l \in {"nothing", "break"}}

Items == {"x", "y", "z"}
MCRank(i) == IF i = "z" THEN 2 ELSE 1
Places == 0 .. 5
Plain(methods) == {Call(m, 0, 0, << >>, << >>, "none") : m \in methods}
With(methods) == {Call(m, 0, 0, <<x>>, << >>, "none") : m \in methods, x \in Items}
At1(methods) == {Call(m, i, 0, << >>, << >>, "none") : m \in methods, i \in Places}
At2(methods) == {Call(m, i, j, << >>, << >>, "none") : m \in methods, i, j \in Places}
AtWith(methods) == {Call(m, i, 0, <<x>>, << >>, "none") : m \in methods, i \in Places, x \in Items}

ListMessages ==
    Plain({"copy", "entries", "isEmpty", "front", "last", "pop", "popFront", "clear", "sort"})
    \union With({"append:", "push:", "pushFront:", "remove:"})
    \union At1({"get:", "removeAt:"}) \union At2({"removeFrom:to:", "swap:with:"})
    \union AtWith({"at:insert:", "set:to:"})
    \union {Call("append:", 0, 0, <<"z", "x">>, << >>, "none")}
    \union {Call("forEach:do:", 0, 0, <<"y">>, << >>, l) : l \in {"nothing", "break", "push:", "pop"}}

SetMessages ==
    Plain({"copy", "entries", "isEmpty", "clear", "forEach:do:"})
    \union With({"insert:", "hasEntry:", "remove:"})
    \union {Call("swap:", 0, 0, <<"y", "z">>, << >>, "none")}

IndexMessages ==
    Plain({"copy", "entries", "isEmpty"})
    \union With({"has:", "get:", "remove:"})
    \union {Call("set:to:", 0, 0, <<k>>, <<v>>, "none") : k, v \in Items}

MCCollectionMessages == [List |-> ListMessages, Set |-> SetMessages, Index |-> IndexMessages]
=============================================================================
