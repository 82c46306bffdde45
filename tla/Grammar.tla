------------------------------- MODULE Grammar -------------------------------
(***************************************************************************)
(* What is read from the tokens: Grammer::execute of lib/compiler.cpp and  *)
(* the two grammars of lib/library.cpp, the one of a class's definitions   *)
(* and the one of a method's body, which makes the syntax tree.            *)
(*                                                                         *)
(* The functions that are at work are in calls, the last one innermost:    *)
(* execute at the bottom, then message, assignment, block and method_def.  *)
(* Each of them is a sequence of actions, between which the tokenizer      *)
(* answers whether there is more.  A message and a block read from a       *)
(* pushed token return when the tokenizer has come back from its text.     *)
(*                                                                         *)
(* The bodies of methods are read by tokenizers of their own: the text of  *)
(* a body is another input.                                                *)
(***************************************************************************)
EXTENDS Tokenizer

CONSTANTS Inputs,     \* [grammar, text, closed: Closed(text),
                      \* cut: VanishTwice(text), damaged, meant]
          Operators,  \* the words that take one parameter without a colon
          Names,      \* the atoms that each reader of a text looks for
          Digit       \* what the atoms that are digits mean

ASSUME GrammarAssumption ==
    /\ Names \subseteq WordAtoms \ DOMAIN Digit
    /\ Digit \in [DOMAIN Digit -> 0 .. 9]

VARIABLES input,      \* what is being read
          calls

vars == <<tokenizer, input, calls>>

(* Each bracket is closed, none closes that was not open, and no quote is  *)
(* escaped.                                                                *)
Closed(text) ==
    /\ \A pair \in {<<"{", "}">>, <<"[", "]">>} :
          /\ Count(text, pair[1]) = Count(text, pair[2])
          /\ \A i \in DOMAIN text :
                Count(SubSeq(text, 1, i), pair[1]) >= Count(SubSeq(text, 1, i), pair[2])
    /\ \A i \in DOMAIN text \ {1} : text[i] \in {"'", "\""} => text[i - 1] # "\\"

(* The line, or what a brace leaves of it, that begins behind position b.  *)
Breaks(text) == {0} \union Positions(text, {"\n", "{", "}"})
Piece(text, b) ==
    LET ends == {e \in Breaks(text) : e > b} \union {Len(text) + 1}
    IN  SubSeq(text, b + 1, Min(ends) - 1)

(* Blanks and a backslash: get_next_line returns, and there is no token.   *)
Vanishes(piece) ==
    Continues(piece) /\ Cooked(piece) # << >> /\ Inked(Cooked(piece)) = {}
Passed(piece) == Comment(piece) \/ Cooked(piece) = << >>

(* Two such lines, with nothing but comments and empty lines between them. *)
VanishTwice(text) ==
    \E b, c \in Breaks(text) :
        /\ b < c /\ Vanishes(Piece(text, b)) /\ Vanishes(Piece(text, c))
        /\ \A d \in Breaks(text) : b < d /\ d < c => Passed(Piece(text, d))

-----------------------------------------------------------------------------
(* The tree, the names of methods as their words *)

Identifier(name) == [kind |-> "identifier", name |-> name]
Constant(value) == [kind |-> "constant", value |-> value]
Integer(number) == [kind |-> "integer", number |-> number]
ContextBlock(nodes) == [kind |-> "block", nodes |-> nodes]
Assignment(name, source) ==
    [kind |-> "assignment", destination |-> Identifier(name), source |-> source]
Message(who, super, method, parameters) ==
    [kind |-> "message", who |-> who, super |-> super, method |-> method,
     parameters |-> parameters]

(* What a class is made of *)

Property(static, name) == [kind |-> "property", static |-> static, name |-> name]
Method(static, native, name, parameters, body) ==
    [kind |-> "method", static |-> static, native |-> native, name |-> name,
     parameters |-> parameters, body |-> body]
Constructor(body) == [kind |-> "constructor", body |-> body]

-----------------------------------------------------------------------------
(* Functions at work *)

Value(token) ==
    CASE token.type = "WORD" -> Identifier(token.text)
      [] token.type = "INTEGER" -> Integer(token.number)
      [] token.type \in {"SUBST_STRING", "LITRL_STRING"} -> Constant(token.text)

Execute(grammar) == [kind |-> "execute", grammar |-> grammar, nodes |-> << >>]
InMessage(pushed) ==
    [kind |-> "message", pushed |-> pushed, object |-> << >>, super |-> FALSE,
     method |-> << >>, parameters |-> << >>, turn |-> "name"]
InAssignment(name) == [kind |-> "assignment", name |-> name, source |-> << >>]
InBlock == [kind |-> "block", nodes |-> << >>]
InProperty(static) == [kind |-> "property", static |-> static, named |-> FALSE]
InConstructor == [kind |-> "constructor"]
InMethod(static, native) ==
    [kind |-> "method", static |-> static, native |-> native, name |-> << >>,
     parameters |-> << >>, turn |-> "name"]
Returning(pushed, node) == [kind |-> "return", pushed |-> pushed, node |-> node]

Top == Last(calls)
Caller == calls[Len(calls) - 1]
Becomes(frame) == calls' = Append(Front(calls), frame)
Enter(frame) == calls' = Append(calls, frame)

(* The caller goes on with the node. *)
Takes(frame, node) ==
    CASE frame.kind \in {"execute", "block"} ->
           [frame EXCEPT !.nodes = Append(@, node)]
      [] frame.kind = "message" /\ frame.object = << >> ->
           [frame EXCEPT !.object = <<node>>]
      [] frame.kind = "message" /\ frame.object # << >> ->
           [frame EXCEPT !.parameters = Append(@, node), !.turn = "name"]
      [] frame.kind = "assignment" ->
           [frame EXCEPT !.source = <<node>>]

Refuse == Stop("refused") /\ UNCHANGED <<input, calls>>

(* permit where there may be no token: the front of the empty deque is     *)
(* read for the message of the exception.                                  *)
RefuseFront ==
    /\ Stop(IF reading.tokens = << >> THEN "undefined" ELSE "refused")
    /\ UNCHANGED <<input, calls>>

-----------------------------------------------------------------------------
(* Grammer::execute *)

Executing == Answered /\ Top.kind = "execute"

ExecuteEnds ==
    /\ Executing /\ reading.tokens = << >>
    /\ Stop("read")
    /\ UNCHANGED <<input, calls>>

(* The tokens are no complete command: execute asks for more once more. *)
ExecuteWaits ==
    /\ Executing /\ reading.tokens # << >> /\ ~complete
    /\ Ask
    /\ UNCHANGED <<input, calls>>

Commands == Executing /\ reading.tokens # << >> /\ complete

EmptyLine ==
    /\ Commands /\ Expect({"EOL"})
    /\ NextToken(1)
    /\ UNCHANGED <<input, calls>>

-----------------------------------------------------------------------------
(* Method::command, and the same choice in Method::block *)

InBody ==
    \/ Commands /\ Top.grammar = "method" /\ ~Expect({"EOL"})
    \/ Answered /\ Top.kind = "block" /\ reading.tokens # << >>

Assigns == Second(<<"=">>)

AssignmentBegins ==
    /\ InBody /\ Assigns
    /\ IF Expect({"WORD"}) /\ reading.tokens[2].type = "WORD"
       THEN /\ Enter(InAssignment(Token0.text))
            /\ NextToken(2)
            /\ UNCHANGED input
       ELSE Refuse

MessageBegins ==
    /\ InBody /\ ~Assigns
    /\ Enter(InMessage(FALSE))
    /\ Ask
    /\ UNCHANGED input

(* block ends with its text. *)
BlockEnds ==
    /\ Answered /\ Top.kind = "block" /\ reading.tokens = << >>
    /\ Becomes(Returning(TRUE, ContextBlock(Top.nodes)))
    /\ Ask
    /\ UNCHANGED input

-----------------------------------------------------------------------------
(* Method::assignment *)

Source == Answered /\ Top.kind = "assignment" /\ Top.source = << >>

AssignsValue ==
    /\ Source /\ Expect({"WORD"} \union Values)
    /\ Becomes([Top EXCEPT !.source = <<Value(Token0)>>])
    /\ NextToken(1)
    /\ UNCHANGED input

AssignsCommand ==
    /\ Source /\ Expect({"COMMAND"})
    /\ Enter(InMessage(TRUE))
    /\ Push
    /\ UNCHANGED input

AssignsNothing ==
    /\ Source /\ ~Expect({"WORD", "COMMAND"} \union Values)
    /\ Refuse

AssignmentEnds ==
    /\ Answered /\ Top.kind = "assignment" /\ Top.source # << >>
    /\ IF Expect({"EOL"})
       THEN /\ Becomes(Returning(FALSE, Assignment(Top.name, Top.source[1])))
            /\ LastToken
            /\ UNCHANGED input
       ELSE RefuseFront

-----------------------------------------------------------------------------
(* Method::message *)

Object == Answered /\ Top.kind = "message" /\ Top.object = << >>

MessagesValue ==
    /\ Object /\ Expect({"WORD"} \union Values)
    /\ LET super == ExpectWord(<<"super">>)
       IN  Becomes([Top EXCEPT
               !.super = super,
               !.object = <<IF super THEN Identifier(<<"self">>) ELSE Value(Token0)>>])
    /\ NextToken(1)
    /\ UNCHANGED input

MessagesCommand ==
    /\ Object /\ Expect({"COMMAND"})
    /\ Enter(InMessage(TRUE))
    /\ Push
    /\ UNCHANGED input

MessagesNothing ==
    /\ Object /\ ~Expect({"WORD", "COMMAND"} \union Values)
    /\ Refuse

Rest == Answered /\ Top.kind = "message" /\ Top.object # << >>

MethodName ==
    /\ Rest /\ Top.turn = "name" /\ Expect({"WORD"})
    /\ Becomes([Top EXCEPT !.method = Append(@, Token0.text), !.turn = "parameter"])
    /\ NextToken(1)
    /\ UNCHANGED input

Parameter ==
    /\ Rest /\ Top.turn = "parameter" /\ Expect({"WORD"} \union Values)
    /\ Becomes([Top EXCEPT
           !.parameters = Append(@, Value(Token0)),
           !.turn = "name"])
    /\ NextToken(1)
    /\ UNCHANGED input

CommandParameter ==
    /\ Rest /\ Top.turn = "parameter" /\ Expect({"COMMAND"})
    /\ Enter(InMessage(TRUE))
    /\ Push
    /\ UNCHANGED input

BlockParameter ==
    /\ Rest /\ Top.turn = "parameter" /\ Expect({"BLOCK"})
    /\ Enter(InBlock)
    /\ Push
    /\ UNCHANGED input

(* No word where the name should go on; the tokens may have come to an end *)
(* there, or a name later.                                                 *)
NoName ==
    /\ Rest
    /\ \/ Top.turn = "name" /\ ~Expect({"WORD", "EOL"})
       \/ reading.tokens = << >>
    /\ Refuse

MessageEnds ==
    /\ Rest /\ Expect({"EOL"})
    /\ Becomes(Returning(Top.pushed,
                         Message(Top.object[1], Top.super, Top.method, Top.parameters)))
    /\ LastToken
    /\ UNCHANGED input

(* A function returns; out of the pushed text, where there was one. *)
Return ==
    /\ Answered /\ Top.kind = "return"
    /\ calls' = Append(Front(Front(calls)), Takes(Caller, Top.node))
    /\ IF Top.pushed THEN Pop ELSE Ask
    /\ UNCHANGED input

-----------------------------------------------------------------------------
(* Class::command *)

InClass == Commands /\ Top.grammar = "class" /\ ~Expect({"EOL"})
Static == ExpectWord(<<"class">>)
(* The word that says what is defined, after class where it is there. *)
Defines(keyword) ==
    IF Static THEN Len(reading.tokens) >= 2 /\ reading.tokens[2] = Token("WORD", <<keyword>>)
    ELSE ExpectWord(<<keyword>>)
Keywords == IF Static THEN 2 ELSE 1

PropertyBegins ==
    /\ InClass /\ Defines("property")
    /\ Enter(InProperty(Static))
    /\ NextToken(Keywords)
    /\ UNCHANGED input

MethodBegins ==
    /\ InClass
    /\ \E keyword \in {"method", "function"} :
          /\ Defines(keyword)
          /\ Enter(InMethod(Static, keyword = "function"))
    /\ NextToken(Keywords)
    /\ UNCHANGED input

ConstructorBegins ==
    /\ InClass /\ ExpectWord(<<"constructor">>)
    /\ Enter(InConstructor)
    /\ NextToken(1)
    /\ UNCHANGED input

NoDefinition ==
    /\ InClass
    /\ \A keyword \in {"property", "method", "function"} : ~Defines(keyword)
    /\ ~ExpectWord(<<"constructor">>)
    /\ Refuse

(* What is defined again is defined anew; a property only once. *)
Same(item, other) ==
    CASE item.kind = "property" -> item = other
      [] item.kind = "constructor" -> other.kind = "constructor"
      [] item.kind = "method" ->
           /\ other.kind = "method" /\ other.static = item.static
           /\ FlattenSeq(other.name) = FlattenSeq(item.name)

Defined(nodes, item) ==
    Append(SelectSeq(nodes, LAMBDA other : ~Same(item, other)), item)

(* obj_property and cls_property *)
PropertyName ==
    /\ Answered /\ Top.kind = "property" /\ ~Top.named
    /\ IF Expect({"WORD"})
       THEN /\ calls' = Append(Append(Front(Front(calls)),
                   [Caller EXCEPT !.nodes = Defined(@, Property(Top.static, Token0.text))]),
                   [Top EXCEPT !.named = TRUE])
            /\ NextToken(1)
            /\ UNCHANGED input
       ELSE Refuse

PropertyEnds ==
    /\ Answered /\ Top.kind = "property" /\ Top.named
    /\ IF Expect({"EOL"})
       THEN calls' = Front(calls) /\ NextToken(1) /\ UNCHANGED input
       ELSE RefuseFront

Adds(item) ==
    /\ calls' = Append(Front(Front(calls)),
                       [Caller EXCEPT !.nodes = Defined(@, item)])
    /\ NextToken(1)
    /\ UNCHANGED input

ConstructorBody ==
    /\ Answered /\ Top.kind = "constructor"
    /\ IF Expect({"BLOCK"}) THEN Adds(Constructor(Token0.text)) ELSE Refuse

-----------------------------------------------------------------------------
(* Class::method_def *)

InMethodName == Answered /\ Top.kind = "method" /\ ~Expect({"BLOCK"})

NamePart ==
    /\ InMethodName /\ Expect({"WORD"}) /\ Top.turn = "name"
    /\ Becomes([Top EXCEPT !.name = Append(@, Token0.text), !.turn = "parameter"])
    /\ NextToken(1)
    /\ UNCHANGED input

ParameterName ==
    /\ InMethodName /\ Expect({"WORD"}) /\ Top.turn = "parameter"
    /\ Becomes([Top EXCEPT !.parameters = Append(@, Token0.text), !.turn = "name"])
    /\ NextToken(1)
    /\ UNCHANGED input

NoMethodName ==
    /\ InMethodName /\ ~Expect({"WORD"})
    /\ Refuse

EndsInColon(word) == word # << >> /\ Last(word) = ":"

ValidName(name, parameters) ==
    CASE Len(parameters) = 0 -> ~EndsInColon(Last(name))
      [] Len(parameters) = 1 ->
           FlattenSeq(name) \in Operators \/ EndsInColon(Last(name))
      [] Len(parameters) > 1 -> \A i \in DOMAIN name : EndsInColon(name[i])

(* Without a name, the character before the name is tested. *)
MethodBody ==
    /\ Answered /\ Top.kind = "method" /\ Expect({"BLOCK"})
    /\ \/ /\ Top.name = << >> \/ ValidName(Top.name, Top.parameters)
          /\ Adds(Method(Top.static, Top.native, Top.name, Top.parameters, Token0.text))
       \/ /\ Top.name = << >> \/ ~ValidName(Top.name, Top.parameters)
          /\ Refuse

-----------------------------------------------------------------------------
(* The behaviour *)

Init ==
    /\ input \in Inputs
    /\ Parse(input.text)
    /\ calls = <<Execute(input.grammar)>>

Grammer ==
    \/ ExecuteEnds \/ ExecuteWaits \/ EmptyLine
    \/ AssignmentBegins \/ MessageBegins \/ BlockEnds
    \/ AssignsValue \/ AssignsCommand \/ AssignsNothing \/ AssignmentEnds
    \/ MessagesValue \/ MessagesCommand \/ MessagesNothing
    \/ MethodName \/ Parameter \/ CommandParameter \/ BlockParameter \/ NoName
    \/ MessageEnds \/ Return
    \/ PropertyBegins \/ MethodBegins \/ ConstructorBegins \/ NoDefinition
    \/ PropertyName \/ PropertyEnds \/ ConstructorBody
    \/ NamePart \/ ParameterName \/ NoMethodName \/ MethodBody

Next == (Tokenize /\ UNCHANGED <<input, calls>>) \/ Grammer

(* One thread reads the text until it returns or throws. *)
Spec == Init /\ [][Next]_vars /\ WF_vars(Next)

-----------------------------------------------------------------------------
(* Properties *)

(* The members of the tokenizer are in range, and no call is lost. *)
TypeOK ==
    /\ phase \in {"idle", "lines", "line"} \union Outcomes
    /\ asked \in 0 .. 2
    /\ {cook_lines, cont_line, complete} \subseteq BOOLEAN
    /\ at \in 1 .. Len(line) + 1
    /\ Len(reading.tokens) \in 0 .. MaxTokens
    /\ calls # << >> /\ calls[1].kind = "execute"
    /\ Len(saved) = Cardinality({i \in DOMAIN calls :
                         \/ calls[i].kind = "block"
                         \/ calls[i].kind \in {"message", "return"} /\ calls[i].pushed})

(* What a text says is what is read from it, statement by statement, in    *)
(* whichever layout it is written: with lines continued, comments, empty   *)
(* lines, and blocks and commands in each other (Method::command to        *)
(* Method::block, Class::command to method_def).                           *)
ReadsBack ==
    ~input.damaged =>
        /\ phase \notin Outcomes \ {"read"}
        /\ IsPrefix(calls[1].nodes, input.meant)
        /\ phase = "read" => calls[1].nodes = input.meant

Weight(text) == Cardinality(Positions(text, Names))
WeightOfAll(texts) ==
    Cardinality(UNION {{i} \X Positions(texts[i], Names) : i \in DOMAIN texts})
WeightOfTokens(tokens) == WeightOfAll([i \in DOMAIN tokens |-> tokens[i].text])

RECURSIVE WeightOf(_)
(* The names in a node, in what is defined, and in a call at work. *)
WeightOf(node) ==
    LET sum(nodes) == FoldSeq(LAMBDA one, n : n + WeightOf(one), 0, nodes)
    IN  CASE node.kind = "identifier" -> Weight(node.name)
          [] node.kind = "constant" -> Weight(node.value)
          [] node.kind = "integer" -> 0
          [] node.kind = "property" -> IF "name" \in DOMAIN node THEN Weight(node.name) ELSE 0
          [] node.kind = "constructor" -> IF "body" \in DOMAIN node THEN Weight(node.body) ELSE 0
          [] node.kind \in {"block", "execute"} -> sum(node.nodes)
          [] node.kind = "return" -> WeightOf(node.node)
          [] node.kind = "assignment" ->
               IF "name" \in DOMAIN node THEN Weight(node.name) + sum(node.source)
               ELSE WeightOf(node.destination) + WeightOf(node.source)
          [] node.kind = "message" ->
               (IF "who" \in DOMAIN node THEN WeightOf(node.who) ELSE sum(node.object))
               + WeightOfAll(node.method) + sum(node.parameters)
          [] node.kind = "method" ->
               WeightOfAll(node.name) + WeightOfAll(node.parameters)
               + (IF "body" \in DOMAIN node THEN Weight(node.body) ELSE 0)

(* What is still to be read, here and in the texts around. *)
Pending(state) == WeightOfTokens(state.tokens) + Weight(state.text)
PendingLine == IF phase = "line" THEN Weight(From(line, at)) ELSE Weight(reading.remaining)
PendingAround ==
    FoldSeq(LAMBDA state, n : n + Pending(state) + Weight(state.remaining), 0, saved)

(* Nothing is lost and nothing is read twice: each name of the text is in  *)
(* the tree, in a call at work, in a token or in the text that is still to *)
(* be read, and in one of them only, however lines are kept, texts pushed  *)
(* and popped (parse_line's remaining, push and pop), also in a text that  *)
(* will be refused; but in a block, two lines of blanks and a backslash    *)
(* that follow each other take the rest of it away.                        *)
NamesKept ==
    phase \notin Outcomes \ {"read"} /\ ~input.cut =>
        FoldSeq(LAMBDA frame, n : n + WeightOf(frame), 0, calls)
          + Pending(reading) + PendingLine + PendingAround
        = Weight(input.text)

Numerals == DOMAIN Digit
Unsigned(word) ==
    IF word # << >> /\ word[1] \in {"+", "-"} THEN Tail(word) ELSE word
Numeral(word) == Unsigned(word) # << >> /\ Range(Unsigned(word)) \subseteq Numerals
(* What its digits mean, as the integers go round. *)
Meaning(word) ==
    LET size == FoldLeft(LAMBDA n, atom : (10 * n + Digit[atom]) % (2 * (IntMax + 1)),
                         0, Unsigned(word))
    IN  Int32(IF word[1] = "-" THEN -size ELSE size)

Nines == {Nine(zero) : zero \in Zeros}
(* is_integer does not know the nine of another script where something     *)
(* follows it; of the mathematical digits, the nine of the last alphabet.  *)
NineInside(word) == \E i \in 1 .. Len(word) - 1 : Bytes(word[i]) \in Nines

(* A word of digits, of whichever scripts, is the integer that the digits  *)
(* mean, and no other word is one, but for the nine that is not known      *)
(* (Token::Token, is_integer): the bytes that are tested for a script are  *)
(* those of its characters.                                                *)
NumbersRead ==
    \A i \in DOMAIN reading.tokens :
        LET token == reading.tokens[i]
        IN  /\ token.type = "WORD" => ~Numeral(token.text) \/ NineInside(token.text)
            /\ token.type = "INTEGER" =>
                  IF token.text = << >> THEN token.number = 0
                  ELSE /\ Numeral(token.text) /\ ~NineInside(token.text)
                       /\ token.number = Meaning(token.text)

AllRead ==
    /\ reading = [Stream(<< >>) EXCEPT !.eof = TRUE]
    /\ saved = << >>
    /\ Len(calls) = 1

(* The whole of a text is read: where its brackets close, execute does not *)
(* return before the end of the text, with something left over, whatever   *)
(* comments, empty and continued lines come in whatever order.  Not so     *)
(* where two lines that hold blanks and a backslash follow each other.     *)
ReadToItsEnd ==
    phase = "read" /\ input.closed /\ ~input.cut => AllRead

(* "Parse the code into tokens passing each command to Language::command"  *)
(* (compiler.h, line 286): when execute returns no name is left over.      *)
PassesEachCommand == phase = "read" /\ input.closed => Weight(reading.text) = 0


(* compiler.h:286: "Parse the code into tokens passing each command to     *)
(* Language::command".  execute returns, or refuses the text: it does not  *)
(* go on for ever.  On MCOpen's texts it does (README).                    *)
EveryTextEnds == <>(phase \in Outcomes)
=============================================================================
