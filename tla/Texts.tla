------------------------------- MODULE Texts -------------------------------
(***************************************************************************)
(* The natives of Text (src/src/builtin.cpp) and the iterator over the     *)
(* characters of a UTF-8 string that they are written with                 *)
(* (src/src/utilities.cpp).  A text is the sequence of its bytes.          *)
(***************************************************************************)
EXTENDS Receiver

CONSTANTS TextMessages,   \* the messages a text is sent
          MaxBytes        \* how long a text can grow before memory ends

-----------------------------------------------------------------------------
(* utf8::iterator: index counts the bytes before the character it is at.   *)

(* What lies beyond the text cannot be told; taking nothing there for a    *)
(* continuation is enough, since a length that is decided there reaches    *)
(* beyond the end whatever is read.                                        *)
Continues(text, index) == index < Len(text) /\ text[index + 1] \in 128..191

(* The loop starts from the length the iterator has, which is that of the  *)
(* character before, and only lengthens it.                                *)
LengthAt(text, index, length) ==
    Min({l \in length .. length + Len(text) : ~ Continues(text, index + l)})

Begin(text) == [index |-> 0, length |-> LengthAt(text, 0, 1)]

(* Mutant of Increment: a step of one byte.                                *)
IncrementByByte(text, it) ==
    [index |-> Min({it.index + 1, Len(text)}), length |-> 1]

(* An iterator that is beyond the end stays there.                         *)
Increment(text, it) ==
    LET index == IF it.index < Len(text) THEN it.index + it.length ELSE it.index
    IN  [index  |-> index,
         length |-> IF index < Len(text) THEN LengthAt(text, index, it.length)
                    ELSE it.length]

AtEnd(text, it) == it.index = Len(text)
Current(text, it) ==
    SubSeq(text, it.index + 1, Min({it.index + it.length, Len(text)}))

-----------------------------------------------------------------------------
(* std::string: compare, find and replace.                                 *)

Compare(text, other) ==
    LET differ == {i \in 1 .. Min({Len(text), Len(other)}) : text[i] # other[i]}
    IN  IF differ = {} THEN Len(text) - Len(other)
        ELSE text[Min(differ)] - other[Min(differ)]

HasAt(text, value, index) ==
    SubSeq(text, index + 1, Min({index + Len(value), Len(text)})) = value

Found(text, value, from) ==
    LET places == {i \in from .. Len(text) - Len(value) : HasAt(text, value, i)}
    IN  IF places = {} THEN -1 ELSE Min(places)

Replaced(text, from, to, value) ==
    SubSeq(text, 1, from) \o value \o SubSeq(text, to + 1, Len(text))

-----------------------------------------------------------------------------
(* left is what a loop counts down, number what it counts up; start is     *)
(* where the part begins that is asked for; result is the text being made. *)
TextLocals(text, message) ==
    [it     |-> Begin(text),
     left   |-> message.index,
     number |-> IF message.method = "length" THEN 0 ELSE 1,
     start  |-> 0,
     result |-> text]

TextReceives ==
    \E message \in TextMessages :
        Receives("Text", message, TextLocals(self, message))

TextSteps(where) == class = "Text" /\ Working(where) /\ UNCHANGED self

here == local.it
Over == AtEnd(self, here)
(* The cap stands for an int that wraps: only loops without end reach it.  *)
Advanced == [local EXCEPT !.it = Increment(self, here),
                          !.number = Min({@ + 1, MaxBytes})]
AdvancedWith(left) == [Advanced EXCEPT !.left = left]

(* *, +, the comparisons, copy, isEmpty and what is not written yet:       *)
(* asInteger, asNumber, findLast: and findLast:at: return null.            *)
AnswersAtOnce ==
    LET sign == Compare(self, call.value) IN
    /\ TextSteps("entered")
    /\ \/ Is("*")  /\ Returns(0, FlattenSeq([i \in 1 .. call.count |-> self]))
       \/ Is("+")  /\ Returns(0, self \o call.value)
       \/ Is("<")  /\ Returns(Boolean(sign < 0), << >>)
       \/ Is("<=") /\ Returns(Boolean(sign <= 0), << >>)
       \/ Is("<>") /\ Returns(Boolean(sign # 0), << >>)
       \/ Is("==") /\ Returns(Boolean(sign = 0), << >>)
       \/ Is(">")  /\ Returns(Boolean(sign > 0), << >>)
       \/ Is(">=") /\ Returns(Boolean(sign >= 0), << >>)
       \/ Is("copy") /\ Returns(0, self)
       \/ Is("isEmpty") /\ Returns(Boolean(self = << >>), << >>)
       \/ /\ call.method \in {"asInteger", "asNumber", "findLast:", "findLast:at:"}
          /\ Returns(0, << >>)

(* findFirst:at:, getCharAt:, getFrom:count: and replaceFrom:count:with:   *)
(* go to the character with the number they are given.                     *)
AtIndex == {"findFirst:at:", "getCharAt:", "getFrom:count:", "replaceFrom:count:with:"}

ChecksIndex ==
    /\ TextSteps("entered") /\ call.method \in AtIndex
    /\ IF call.index <= 0 THEN Fails("exception") ELSE Goes("skip", local)

Skips ==
    /\ TextSteps("skip") /\ ~ Over /\ local.left > 1
    /\ Goes("skip", AdvancedWith(local.left - 1))

(* Mutant of Skipped: the end of the text is not looked for.               *)
SkippedAnywhere ==
    /\ TextSteps("skip") /\ (Over \/ local.left <= 1)
    /\ \/ Is("getCharAt:") /\ Returns(0, Current(self, here))
       \/ Is("findFirst:at:") /\ Goes("find", local)
       \/ /\ call.method \in {"getFrom:count:", "replaceFrom:count:with:"}
          /\ Goes("count", [local EXCEPT !.start = here.index, !.left = call.count])

Skipped ==
    /\ TextSteps("skip") /\ (Over \/ local.left <= 1)
    /\ \/ Over /\ Fails("exception")
       \/ ~ Over /\ Is("getCharAt:") /\ Returns(0, Current(self, here))
       \/ ~ Over /\ Is("findFirst:at:") /\ Goes("find", local)
       \/ /\ ~ Over /\ call.method \in {"getFrom:count:", "replaceFrom:count:with:"}
          /\ Goes("count", [local EXCEPT !.start = here.index, !.left = call.count])

(* replaceFrom:count:with: stops on the last of the characters, and adds   *)
(* the length of that one.                                                 *)
LastLeft == IF Is("getFrom:count:") THEN 0 ELSE 1

Counts ==
    /\ TextSteps("count") /\ ~ Over /\ local.left > LastLeft
    /\ Goes("count", AdvancedWith(local.left - 1))

(* utf8::substr and utf8::replace: a start beyond the end is not the end.  *)
Counted ==
    /\ TextSteps("count") /\ (Over \/ local.left <= LastLeft)
    /\ \/ local.start > Len(self) /\ Fails("out of range")
       \/ /\ local.start <= Len(self) /\ Is("getFrom:count:")
          /\ Returns(0, SubSeq(self, local.start + 1, Min({here.index, Len(self)})))
       \/ /\ local.start <= Len(self) /\ Is("replaceFrom:count:with:")
          /\ Returns(0, Replaced(self, local.start, here.index + here.length, call.value))

(* findFirst: and findFirst:at:                                            *)
StartsToFind ==
    /\ TextSteps("entered") /\ Is("findFirst:")
    /\ Goes("find", local)

Finds ==
    /\ TextSteps("find")
    /\ LET likely == Current(self, here) = Current(call.value, Begin(call.value))
       IN  \/ Over /\ Returns(0, << >>)
           \/ ~ Over /\ likely /\ here.index > Len(self) /\ Fails("out of range")
           \/ /\ ~ Over /\ likely /\ here.index <= Len(self)
              /\ HasAt(self, call.value, here.index)
              /\ Returns(local.number, << >>)
           \/ /\ ~ Over /\ ~ (likely /\ HasAt(self, call.value, here.index))
              /\ Goes("find", Advanced)

(* length and forEach:do:, which gives the block one character at a time.  *)
(* result gathers what it has been given.                                  *)
Iterates ==
    /\ TextSteps("entered") /\ call.method \in {"length", "forEach:do:"}
    /\ Goes("each", [local EXCEPT !.result = << >>])

Each ==
    /\ TextSteps("each")
    /\ \/ Over /\ Is("length") /\ Returns(local.number, << >>)
       \/ Over /\ Is("forEach:do:") /\ Returns(0, local.result)
       \/ ~ Over /\ Is("length") /\ Goes("each", Advanced)
       \/ /\ ~ Over /\ Is("forEach:do:") /\ call.loop = "break"
          /\ Returns(0, local.result \o Current(self, here))
       \/ /\ ~ Over /\ Is("forEach:do:") /\ call.loop # "break"
          /\ Goes("each", [Advanced EXCEPT !.result = @ \o Current(self, here)])

(* replaceAll:with: call.value is what is looked for, call.with replaces   *)
(* it; start is where the search goes on.  With nothing to look for it is  *)
(* found again and again.                                                  *)

(* Mutant of ReplacesAll: the search goes on inside what has been put in.  *)
ReplacesAllAgain ==
    /\ TextSteps("entered") /\ Is("replaceAll:with:")
    /\ LET place == Found(local.result, call.value, local.start)
           longer == Replaced(local.result, place, place + Len(call.value), call.with)
       IN  \/ place < 0 /\ Returns(0, local.result)
           \/ place >= 0 /\ Len(longer) > MaxBytes /\ Fails("memory exhausted")
           \/ /\ place >= 0 /\ Len(longer) <= MaxBytes
              /\ Goes("entered", [local EXCEPT !.start = place, !.result = longer])

ReplacesAll ==
    /\ TextSteps("entered") /\ Is("replaceAll:with:")
    /\ LET place == Found(local.result, call.value, local.start)
           longer == Replaced(local.result, place, place + Len(call.value), call.with)
       IN  \/ place < 0 /\ Returns(0, local.result)
           \/ place >= 0 /\ Len(longer) > MaxBytes /\ Fails("memory exhausted")
           \/ /\ place >= 0 /\ Len(longer) <= MaxBytes
              /\ Goes("entered", [local EXCEPT !.start = place + Len(call.with),
                                               !.result = longer])

TextStep ==
    \/ AnswersAtOnce \/ ChecksIndex \/ Skips \/ Skipped \/ Counts \/ Counted
    \/ StartsToFind \/ Finds \/ Iterates \/ Each \/ ReplacesAll
=============================================================================
