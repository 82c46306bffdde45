------------------------------ MODULE MCGrammar ------------------------------
(***************************************************************************)
(* Texts that are written from programs in some layouts, and texts that    *)
(* are damaged: an atom is left out, or one is put in.                     *)
(***************************************************************************)
EXTENDS Grammar

LOCAL INSTANCE TLC

LOCAL id(name) == Identifier(<<name>>)
LOCAL x == id("x")
LOCAL y == id("y")
LOCAL one == Integer(1)
LOCAL text == Constant(<<"y">>)
LOCAL quoted == Constant(<<"x", "'", "{">>)
LOCAL send(who, name) == Message(who, FALSE, <<<<name>>>>, << >>)
LOCAL sendWith(who, name, what) == Message(who, FALSE, <<<<name, ":">>>>, <<what>>)
LOCAL sendBoth(who, a, b) ==
    Message(who, FALSE, <<<<"x", ":">>, <<"z", ":">>>>, <<a, b>>)
LOCAL block(nodes) == ContextBlock(nodes)
LOCAL set(name, value) == Assignment(<<name>>, value)

(* What a command or a block of one statement may be. *)
Commands1 == {send(x, "y"), sendWith(one, "z", text),
              sendWith(send(y, "z"), "y", send(x, "x"))}
Statements1 ==
    {set("x", c) : c \in Commands1 \union {y, one, text}}
      \union Commands1
      \union {Message(id("self"), TRUE, <<<<"z">>>>, << >>)}

Blocks1 == {block(<< >>), block(<<set("y", send(x, "z"))>>),
            block(<<sendWith(x, "y", block(<<set("z", one)>>))>>)}
Blocks2 == Blocks1 \union
    {block(<<set("y", one), sendBoth(y, send(x, "y"), block(<<send(y, "x"), set("x", y)>>))>>)}

Statements2 ==
    {sendWith(who, "z", b) : who \in {y, send(x, "y")}, b \in Blocks2}
      \union {sendBoth(x, a, b) : a \in {one} \union Blocks1, b \in {send(text, "y")} \union Blocks2}
      \union {set("x", sendWith(y, "z", b)) : b \in Blocks1}
      \union {set("z", quoted), sendWith(quoted, "z", quoted)}

Bodies == {<<set("x", one), t>> : t \in Statements1}
            \union {<<t, send(y, "x")>> : t \in Statements2}

-----------------------------------------------------------------------------
(* How a program is written *)

Flat == [between |-> <<" ">>, opens |-> << >>, ends |-> <<"\n">>]
Broken == [between |-> <<" ", "\\", "\n", " ">>, opens |-> <<" ", "\n", " ">>,
           ends |-> <<" ", "\n", "\n", " ", "#", " ", "remark", "\n", " ">>]
(* Each of the three in each of the two ways, and any two of them together. *)
Layouts == {Flat, [Broken EXCEPT !.between = Flat.between],
            [Broken EXCEPT !.opens = Flat.opens], [Broken EXCEPT !.ends = Flat.ends]}

Escaped(value) ==
    FlattenSeq([i \in DOMAIN value |->
                  IF value[i] = "'" THEN <<"\\", "'">> ELSE <<value[i]>>])

Joined(l) == [l EXCEPT !.between = Flat.between]
InCommand(l) == [l EXCEPT !.opens = << >>, !.ends = << >>]

RECURSIVE Written(_, _), WrittenAll(_, _)
(* A line that opens or closes a block is not continued. *)
Written(node, l) ==
    LET command(n, m) == <<"[">> \o Written(n, InCommand(m)) \o <<"]">>
        inner(n, m) == IF n.kind = "message" THEN command(n, m) ELSE Written(n, l)
        hasBlocks == \E i \in DOMAIN node.parameters :
                        "{" \in Range(Written(node.parameters[i], l))
        part(i, m) ==
            m.between \o node.method[i]
              \o (IF i \in DOMAIN node.parameters
                  THEN <<" ">> \o inner(node.parameters[i], m) ELSE << >>)
        message(m) ==
            (IF node.super THEN <<"super">> ELSE inner(node.who, m))
              \o FlattenSeq([i \in DOMAIN node.method |-> part(i, m)])
    IN  CASE node.kind = "identifier" -> node.name
          [] node.kind = "constant" ->
               <<"'">> \o Escaped(node.value) \o <<"'">>
          [] node.kind = "integer" -> <<ToString(node.number)>>
          [] node.kind = "block" ->
               <<"{">> \o l.opens
                 \o WrittenAll(node.nodes, IF l.opens = << >> THEN Joined(l) ELSE l) \o <<"}">>
          [] node.kind = "assignment" ->
               node.destination.name \o <<" ", "=", " ">> \o inner(node.source, l)
          [] node.kind = "message" ->
               message(IF hasBlocks THEN Joined(l) ELSE l)
WrittenAll(nodes, l) ==
    FlattenSeq([i \in DOMAIN nodes |-> Written(nodes[i], l) \o l.ends])

Input(grammar, t, damaged, meant) ==
    [grammar |-> grammar, text |-> t, closed |-> Closed(t), cut |-> VanishTwice(t),
     damaged |-> damaged, meant |-> meant]
Meant(b, l) == Input("method", WrittenAll(b, l), FALSE, b)

-----------------------------------------------------------------------------
(* Classes *)

ClassText(lines) ==
    FlattenSeq([i \in DOMAIN lines |-> lines[i] \o <<"\n">>])
LOCAL body == <<"x", " ", "y", "\n">>
LOCAL braced == <<"{">> \o body \o <<"}">>

Definitions ==
    {<<<<"property", " ", "x">>, Property(FALSE, <<"x">>)>>,
     <<<<"class", " ", "property", " ", "\\", "\n", "y">>, Property(TRUE, <<"y">>)>>,
     <<<<"constructor", " ">> \o braced, Constructor(body)>>,
     <<<<"method", " ", "x", " ">> \o braced, Method(FALSE, FALSE, <<<<"x">>>>, << >>, body)>>,
     <<<<"class", " ", "method", " ", "+", " ", "x">> \o <<" ">> \o braced,
       Method(TRUE, FALSE, <<<<"+">>>>, <<<<"x">>>>, body)>>,
     <<<<"function", " ", "x", ":", " ", "y", " ", "z", ":", " ", "x", " ">> \o braced,
       Method(FALSE, TRUE, <<<<"x", ":">>, <<"z", ":">>>>, <<<<"y">>, <<"x">>>>, body)>>}

ClassInputs ==
    {Input("class", ClassText(<<d[1], e[1], <<" ">>, f[1]>>), FALSE, <<d[2], e[2], f[2]>>) :
        <<d, e, f>> \in {t \in Definitions \X Definitions \X Definitions :
                            Cardinality({t[1], t[2], t[3]}) = 3}}

-----------------------------------------------------------------------------
(* Damage *)

Without(t, i) == SubSeq(t, 1, i - 1) \o From(t, i + 1)
With(t, i, atom) == SubSeq(t, 1, i - 1) \o <<atom>> \o From(t, i)
Damages(t) ==
    {Without(t, i) : i \in DOMAIN t}
      \union {With(t, i, atom) : i \in DOMAIN t, atom \in {"{", "}", "[", "]", "'", "\\", "\n", " ", "="}}

Sound ==
    {Written(s, [between |-> <<" ">>, opens |-> <<"\n">>, ends |-> <<"\n">>]) \o <<"\n">> :
        s \in {set("x", sendWith(one, "z", text)),
               sendWith(y, "z", block(<<set("x", y), send(y, "x")>>)),
               sendBoth(x, send(text, "y"), block(<<sendWith(x, "y", block(<< >>))>>))}}
      \union {<<"x", " ", "y", ":", "\\", "\n", "[", "y", "\\", "\n", "z", "]", "\n">>,
              <<"x", " ", "y", ":", " ", "{", "\n", "y", " ", "z", "\n", "}", "\n", "x", " ", "z", "\n">>,
              <<"y", " ", "=", " ", "\"", "\\", "\\", "x", "\"", "\n">>,
              <<"x", " ", "y", ":", " ", "'", "\\", "'", "\n", "x", " ", "z", "\n">>}
SoundClasses ==
    {ClassText(<<<<"property", " ", "x">>, <<"constructor", " ", "{", "\n", "}">>>>),
     ClassText(<<<<"method", " ", "x", ":", " ", "y", " ", "z", ":", " ", "x", " ", "{", "y", "}">>>>)}

Damaged ==
    {Input(g[1], d, TRUE, << >>) :
        <<g, d>> \in UNION {{<<g, d>> : d \in Damages(g[2])} :
            g \in {<<"method", t>> : t \in Sound} \union {<<"class", t>> : t \in SoundClasses}}}

-----------------------------------------------------------------------------
(* Lines of blanks and a backslash: one, two with a comment and an empty    *)
(* line between them, and two with a line of one backslash between them,    *)
(* put in where a line ends or a block begins.                              *)
Backslash == <<" ", "\\", "\n">>
Once == {Backslash, <<"\\", "\n">> \o Backslash, Backslash \o <<"\\", "\n">>}
Twice == {Backslash \o <<"#", "remark", "\n", "\n", " ">> \o Backslash,
          Backslash \o <<"\\", "\n">> \o Backslash}

Inserted(t, i, lines) ==
    SubSeq(t, 1, i) \o (IF t[i] = "{" THEN <<"\n">> ELSE << >>) \o lines \o From(t, i + 1)
Places(t) == Positions(t, {"\n", "{"})
With1(t, lines) == {Inserted(t, i, lines) : i \in Places(t)}
Backslashed(inserts) ==
    UNION {UNION {With1(t, lines) : lines \in inserts} : t \in Sound}
With2(t) ==
    UNION {With1(u, Backslash) : u \in With1(t, Backslash)}

MCBackslashes ==
    {Input("method", t, TRUE, << >>) :
        t \in Backslashed(Once \union Twice) \union UNION {With2(t) : t \in Sound}}

-----------------------------------------------------------------------------
(* Numbers: the digits that docs/Meat-Standard.tex lists, by the code point *)
(* of their zero, and how UTF-8 writes them.                                *)

ZeroPoints ==
    {48, 1632, 1776, 1984, 2406, 2534, 2662, 2790, 2918, 3046, 3174, 3302, 3430,
     3558, 3664, 3792, 3872, 4160, 4240, 6112, 6160, 6470, 6608, 6784, 6800, 6992,
     7088, 7232, 7248, 42528, 43216, 43264, 43472, 43504, 43600, 44016, 65296,
     66720, 69734, 69872, 69942, 70096, 70384, 70736, 70864, 71248, 71360, 71472,
     71904, 72784, 73040, 92768, 93008, 120782, 120792, 120802, 120812, 120822,
     125264}

Digits == ZeroPoints \X (0 .. 9)
Atom(digit) == ToString(digit[2] + IF digit[1] = 48 THEN 0 ELSE digit[1])
DigitAtoms == {Atom(digit) : digit \in Digits}
DigitOf == [atom \in DigitAtoms |->
              CHOOSE digit \in Digits : Atom(digit) = atom]

UTF8(point) ==
    LET tail(n) == 128 + ((point \div n) % 64)
    IN  CASE point < 128 -> <<point>>
          [] point \in 128 .. 2047 -> <<192 + point \div 64, tail(1)>>
          [] point \in 2048 .. 65535 -> <<224 + point \div 4096, tail(64), tail(1)>>
          [] point > 65535 -> <<240 + point \div 262144, tail(4096), tail(64), tail(1)>>

DigitBytes == [atom \in DigitAtoms |-> UTF8(DigitOf[atom][1] + DigitOf[atom][2])]
MCDigit == [atom \in DigitAtoms |-> DigitOf[atom][2]]
(* What is no digit and no sign is like any other letter. *)
MCBytes(atom) ==
    CASE atom \in DigitAtoms -> DigitBytes[atom]
      [] atom = "+" -> <<Plus>>
      [] atom = "-" -> <<Minus>>
      [] OTHER -> <<120>>

Numeric(zero, digits) == [i \in DOMAIN digits |-> Atom(<<zero, digits[i]>>)]
NumeralsOf(zero) ==
    {Numeric(zero, digits) : digits \in {<<0, 1, 2, 3>>, <<4, 5, 6>>, <<7, 8, 9>>, <<9, 8>>, <<9>>}}
      \union {<<"-">> \o Numeric(zero, <<1, 8>>), <<"+">> \o Numeric(zero, <<3>>),
              Numeric(zero, <<5>>) \o <<"3">>, <<"6">> \o Numeric(zero, <<2>>),
              Numeric(zero, <<1>>) \o <<"x">>, Numeric(zero, <<9>>) \o <<"-">>}
NumberTexts ==
    {<<"x", " ", "y", ":", " ">> \o numeral \o <<"\n">> :
        numeral \in UNION {NumeralsOf(zero) : zero \in ZeroPoints}
                     \union {<<"9", "8", "7", "6", "5", "4">>, <<"-", "3", "2", "7", "6", "9">>}}

MCWordAtoms ==
    {"x", "y", "z", ":", "+", "-", "=", "super", "remark", "class", "property",
     "method", "function", "constructor", "#", "\\", "]", "}"} \union DigitAtoms
MCOperators == {<<"+">>}
MCInputs == {Meant(b, l) : b \in Bodies, l \in Layouts} \union ClassInputs \union Damaged
              \union {Input("method", t, TRUE, << >>) : t \in NumberTexts} \union MCBackslashes
MCOpen == {Input("method", t, TRUE, << >>) : t \in Sound}
            \union {i \in Damaged : i.grammar = "method" /\ Count(i.text, "{") > Count(i.text, "}")}
=============================================================================
