------------------------------ MODULE Natives ------------------------------
(***************************************************************************)
(* One text or collection that is messaged, and what its natives promise:  *)
(* those of Text are compared with the same questions asked of the         *)
(* sequence of its characters.                                             *)
(***************************************************************************)
EXTENDS Texts, Collections

CONSTANT Given     \* the texts that are messaged

Init ==
    \/ \E text \in Given : Idle("Text", text)
    \/ \E c \in {"List", "Set", "Index"} : Idle(c, << >>)

Next ==
    \/ TextReceives \/ TextStep
    \/ ListReceives \/ ListStep
    \/ SetReceives \/ SetStep
    \/ IndexReceives \/ IndexStep
    \/ NextMessage

Work == TextStep \/ ListStep \/ SetStep \/ IndexStep

(* The one thread of the program goes on with a native that it is in;      *)
(* nobody has to send a message.                                           *)
Spec == Init /\ [][Next]_receiver /\ WF_receiver(Work)

-----------------------------------------------------------------------------
(* Characters: a text is cut where a byte does not continue another.       *)

Begins(text) == {i \in DOMAIN text : text[i] \notin 128..191}

Characters(text) ==
    LET begins == SetToSortSeq(Begins(text), <)
        ends   == Append(Tail(begins), Len(text) + 1)
    IN  IF text = << >> THEN << >>
        ELSE [i \in DOMAIN begins |-> SubSeq(text, begins[i], ends[i] - 1)]

CodePoint(character) ==
    LET Bits(i) == character[i] - 128
    IN  CASE Len(character) = 1 -> character[1]
          [] Len(character) = 2 -> (character[1] - 192) * 64 + Bits(2)
          [] Len(character) = 3 ->
                (character[1] - 224) * 4096 + Bits(2) * 64 + Bits(3)

(* The texts that the iterator is good for.                                *)
NeverNarrows(text) ==
    LET cs == Characters(text)
    IN  \A i \in 1 .. Len(cs) - 1 : Len(cs[i]) <= Len(cs[i + 1])

Bytes(characters) == FlattenSeq(characters)

-----------------------------------------------------------------------------
(* What is asked, asked of the characters.                                 *)

Part(cs, first, last) == SubSeq(cs, first, Min({last, Len(cs)}))

PlacesOf(characters, value) ==
    {i \in DOMAIN characters :
        value # << >> /\ Part(characters, i, i + Len(value) - 1) = value}
FirstOf(places) == IF places = {} THEN 0 ELSE Min(places)

Earlier(characters, others) ==
    LET differ == {i \in DOMAIN characters \intersect DOMAIN others :
                      characters[i] # others[i]}
    IN  IF differ = {} THEN Len(characters) < Len(others)
        ELSE CodePoint(characters[Min(differ)]) < CodePoint(others[Min(differ)])

AllReplaced(characters, value, with) ==
    LET places == PlacesOf(characters, value)
        From[i \in 1 .. Len(characters) + Len(value) + 1] ==
            IF i > Len(characters) THEN << >>
            ELSE IF i \in places THEN with \o From[i + Len(value)]
            ELSE <<characters[i]>> \o From[i + 1]
    IN  From[1]

(* The answers to a message about the characters cs; the index is inside.  *)
Meant(cs, message) ==
    LET m     == message.method
        value == Characters(message.value)
        with  == Characters(message.with)
        index == message.index
        last  == index + message.count - 1
    IN  CASE m = "length" -> Answer(Len(cs), << >>)
          [] m = "isEmpty" -> Answer(Boolean(cs = << >>), << >>)
          [] m = "copy" -> Answer(0, Bytes(cs))
          [] m = "+" -> Answer(0, Bytes(cs \o value))
          [] m = "*" -> Answer(0, Bytes(FlattenSeq([i \in 1 .. message.count |-> cs])))
          [] m = "==" -> Answer(Boolean(cs = value), << >>)
          [] m = "<>" -> Answer(Boolean(cs # value), << >>)
          [] m = "<" -> Answer(Boolean(Earlier(cs, value)), << >>)
          [] m = ">" -> Answer(Boolean(Earlier(value, cs)), << >>)
          [] m = "<=" -> Answer(Boolean(~ Earlier(value, cs)), << >>)
          [] m = ">=" -> Answer(Boolean(~ Earlier(cs, value)), << >>)
          [] m = "findFirst:" -> Answer(FirstOf(PlacesOf(cs, value)), << >>)
          [] m = "findFirst:at:" ->
                Answer(FirstOf(PlacesOf(cs, value) \ (1 .. index - 1)), << >>)
          [] m = "getCharAt:" -> Answer(0, cs[index])
          [] m = "getFrom:count:" -> Answer(0, Bytes(Part(cs, index, last)))
          [] m = "replaceFrom:count:with:" ->
                Answer(0, Bytes(SubSeq(cs, 1, index - 1) \o value
                                \o SubSeq(cs, Max({last, index}) + 1, Len(cs))))
          [] m = "replaceAll:with:" -> Answer(0, Bytes(AllReplaced(cs, value, with)))
          [] m = "forEach:do:" ->
                Answer(0, Bytes(IF message.loop = "break" THEN Part(cs, 1, 1) ELSE cs))

(* Their code is yet to be written.                                        *)
NotWritten == {"asInteger", "asNumber", "findLast:", "findLast:at:"}
NothingToFind == Is("replaceAll:with:") /\ call.value = << >>

-----------------------------------------------------------------------------
(* Whatever the text, the iterator of its natives stands where a character *)
(* begins and what it gives the program is made of whole characters, also  *)
(* when it goes on with the length of the character before.                *)
WholeCharacters ==
    class = "Text" /\ AtWork /\ here.index < Len(self) =>
        /\ here.index + 1 \in Begins(self)
        /\ \/ here.index + here.length >= Len(self)
           \/ here.index + here.length + 1 \in Begins(self)

(* On a text whose characters never get narrower every native of Text but  *)
(* those that only answer null (NotWritten) answers what the same question *)
(* about the sequence of its characters has for an answer: the counts and  *)
(* indices are those of characters, the order is that of code points, and  *)
(* the exception comes for exactly the indices that no character has.      *)
(* That replaceFrom:count:with: replaces one character for a count of 0    *)
(* follows the code, and replaceAll:with: of an empty text is left out     *)
(* (NothingToFind).                                                        *)
AnswersOnCharacters ==
    LET cs == Characters(self) IN
    class = "Text" /\ phase \in Ends /\ NeverNarrows(self) /\ ~ NothingToFind =>
        IF call.method \in AtIndex /\ call.index \notin DOMAIN cs
        THEN phase = "exception"
        ELSE /\ phase = "returned"
             /\ call.method \notin NotWritten => answer = Meant(cs, call)

(* remove: takes no item but the one it is given and keeps the others in   *)
(* their order; when no two of them stand side by side none is left, and   *)
(* it is only undefined for a list that ends with one.                     *)
RemoveKeepsTheRest ==
    LET Others(list) == SelectSeq(list, LAMBDA i : i # item)
        apart == \A i \in 1 .. Len(before) - 1 : before[i] # item \/ before[i + 1] # item
    IN  class = "List" /\ Is("remove:") /\ phase \in Ends =>
            /\ Others(self) = Others(before)
            /\ apart => item \notin ToSet(self)
            /\ phase = "undefined" => before # << >> /\ Last(before) = item

(* Every native answers or throws in the end, on any collection and on the *)
(* texts whose characters never get narrower; only replaceAll:with: never  *)
(* comes to an end with nothing to look for.                               *)
EachCallEnds ==
    (AtWork /\ (class = "Text" => NeverNarrows(self)) /\ ~ NothingToFind) ~> ~ AtWork

(* The length of a text is the number of its characters: the text of the   *)
(* reference.  The code counts a character as part of a wider one that is  *)
(* in front of it.                                                         *)
LengthCountsCharacters ==
    class = "Text" /\ Is("length") /\ phase = "returned" =>
        answer.number = Len(Characters(self))
=============================================================================
