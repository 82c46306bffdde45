---------------------------- MODULE MCInterpreter ---------------------------
(***************************************************************************)
(* Programs for the interpreter: main creates blocks a and h and runs a;   *)
(* a may create b and run it, itself or by calling the method m with it.   *)
(***************************************************************************)
EXTENDS AsWritten

MCMethods == {"main", "m"}
MCBlocks == {"a", "b", "h"}
MCOuter == [b \in MCBlocks |-> IF b = "b" THEN "a" ELSE "main"]

move == [op |-> "move"]
throw == [op |-> "throw"]
make(b) == [op |-> "block", code |-> b]
send(s, blocks) == [op |-> "send", sel |-> s, blocks |-> blocks]
call(b) == [op |-> "call", method |-> "m", block |-> b]
tell(s) == [op |-> "context", sel |-> s]

Tells == {tell("break"), tell("continue"), tell("return")}
Program(main, a, b, h, m) ==
  [c \in MCMethods \union MCBlocks |->
     CASE c = "main" -> main [] c = "a" -> a [] c = "b" -> b [] c = "h" -> h
       [] OTHER -> m]

(* Ways to run block a from main, with h as handler.                       *)
Handling == {send("executeOnBreak", <<"a", "h">>),
             send("executeOnContinue", <<"a", "h">>),
             send("executeOnBreakOnContinue", <<"a", "h", "h">>),
             send("tryCatch", <<"a", "h">>)}
Plain == {send("execute", <<"a">>), send("try", <<"a">>)}
Looping == {send("forEach", <<"a">>), send("forEachText", <<"a">>)}
(* Ways to run block b from a, or the parameter from m.                    *)
Nested(b) == {send(s, <<b>>) : s \in {"execute", "try", "forEach", "isTrue", "isFalse"}}

Mains(sends) == {<<make("a"), make("h"), s, move>> : s \in sends}
Twice(first, then) ==
  {<<make("a"), make("h"), s, t, move>> : s \in first, t \in then}

Ends == Tells \union {throw, move}
Simple == {<<e, move>> : e \in Ends}
Nesting == {<<make("b"), run, e>> : run \in Nested("b") \union {call("b")},
                                    e \in Ends}
MethodM == {<<run, e>> : run \in Nested("param"), e \in {move, tell("return")}}

Uses(p, sels) ==
  \E c \in DOMAIN p : \E i \in DOMAIN p[c] :
    p[c][i].op \in {"send", "context"} /\ p[c][i].sel \in sels
Calls(p) == \E i \in DOMAIN p["a"] : p["a"][i].op = "call"

NestedPrograms ==
  {p \in {Program(main, a, b, <<move>>, m) :
            main \in Mains(Plain \union Handling \union Looping), a \in Nesting,
            b \in Simple, m \in MethodM} :
     /\ ~(Uses(p, {"forEach", "forEachText"}) /\ Uses(p, {"return"}))
     /\ Calls(p) \/ p["m"] = <<send("execute", <<"param">>), move>>}

RepeatedPrograms ==
  {Program(main, a, <<move>>, h, <<move>>) :
     main \in Mains(Plain \union Handling) \union
              Twice(Plain \union Handling,
                    {send(s, <<"a">>) : s \in {"execute"}} \union
                    {s \in Handling : s.sel # "tryCatch"}),
     a \in Simple \union {<<move, move>>}, h \in Simple}

(* More programs, most of which the natives do not run as written: they    *)
(* still end, and their interpreters still find back.                      *)
StrayMains == {<<make("a"), make("h"), send(s, <<"a">>), move>> :
               s \in {"timesDo", "repeat", "isTrue", "isFalse", "forEach",
                      "forEachText", "try"}}
StrayPrograms ==
  {Program(main, a, b, <<move>>, <<send("execute", <<"param">>), move>>) :
     main \in StrayMains \union
              Twice({send("isTrue", <<"a">>), send("execute", <<"a">>)},
                    {send(s, <<"a">>) : s \in {"isTrue", "forEach", "repeat"}}),
     a \in Simple \union {<<make("b"), s, e>> :
                           s \in {send("execute", <<"b">>), call("b")},
                           e \in {move, throw, tell("return")}},
     b \in Simple}

MCPrograms == NestedPrograms \union RepeatedPrograms \union StrayPrograms

(* Whether main gives a block again to a method that does not reset it.    *)
GivesAgain(p) ==
  Len(p["main"]) = 5 /\ p["main"][4].sel \in {"isTrue", "forEach", "repeat"}

MCOrdinary(p) ==
  /\ ~Uses(p, {"timesDo", "repeat"})
  /\ Uses(p, {"forEach", "forEachText"}) => ~Uses(p, {"return"})
  /\ ~GivesAgain(p)

Everything(p) == TRUE

(* A loop over two items whose block returns.                              *)
ReturnPrograms ==
  {Program(<<make("a"), make("h"), send("forEach", <<"a">>), move>>,
           <<tell("return"), move>>, b, h, <<move>>) : b \in Simple, h \in Simple}
=============================================================================
