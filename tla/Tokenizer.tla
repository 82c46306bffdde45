------------------------------ MODULE Tokenizer ------------------------------
(***************************************************************************)
(* The tokenizer of the grinder, lib/compiler.cpp.  Text is read by the    *)
(* line, and a line is cut into tokens.  What stands in brackets is one    *)
(* token: its text is read when the grammar pushes it, by the same         *)
(* tokenizer, which then returns to where it left.                         *)
(*                                                                         *)
(* A text is a sequence of atoms: a blank, the end of a line, a bracket, a *)
(* quote, or a member of WordAtoms, whole words included; Bytes says which *)
(* bytes an atom is, as far as numbers are concerned.  Positions in the    *)
(* text, the other line ends and numbers with a point are left out.  The   *)
(* members of Tokenizer are variables; those that push saves are in the    *)
(* record reading.  One action reads a line, one cuts off a token.         *)
(***************************************************************************)
EXTENDS Numbers, SequencesExt, FiniteSetsExt

CONSTANTS WordAtoms,  \* what words are made of
          Bytes(_),   \* an atom in UTF-8
          MaxTokens   \* the tokens that memory has room for

ASSUME TokenizerAssumption ==
    /\ \A atom \in WordAtoms : Bytes(atom) # << >>
    /\ MaxTokens \in Nat

VARIABLES reading,   \* [text, eof: the stream; tokens; remaining]
          saved,     \* states: what push has saved
          cook_lines, cont_line, complete,
          phase,     \* "idle"; in get_next_line "lines"; in parse_line "line";
                     \* and how it went when all has been read or refused
          line, at,  \* command and t_begin of parse_line
          asked      \* how many calls of is_more are due

Outcomes == {"read", "refused", "undefined", "memory exhausted"}

tokenizer == <<reading, saved, cook_lines, cont_line, complete, phase, line,
               at, asked>>

-----------------------------------------------------------------------------
(* Tokens *)

Token(type, text) == [type |-> type, text |-> text]

Quote(type) == IF type = "SUBST_STRING" THEN "\"" ELSE "'"

RECURSIVE Subst(_)
(* An escaped bracket, quote or backslash stands for itself. *)
Subst(text) ==
    IF text = << >> THEN << >>
    ELSE IF /\ Len(text) > 1
            /\ text[1] = "\\"
            /\ text[2] \in {"\"", "'", "\\", "[", "]", "?"}
         THEN <<text[2]>> \o Subst(Tail(Tail(text)))
         ELSE <<text[1]>> \o Subst(Tail(text))

WordToken(text) ==
    LET integer == IsInteger[FlattenSeq([i \in DOMAIN text |-> Bytes(text[i])])]
    IN  IF integer = << >> THEN Token("WORD", text)
        ELSE [type |-> "INTEGER", text |-> text, number |-> integer[1]]
StringToken(type, text) == Token(type, Subst(text))

Values == {"INTEGER", "SUBST_STRING", "LITRL_STRING"}

-----------------------------------------------------------------------------
(* Lines *)

Blanks == {" "}
Positions(text, atoms) == {i \in DOMAIN text : text[i] \in atoms}
From(text, i) == SubSeq(text, i, Len(text))
Count(text, atom) == Cardinality(Positions(text, {atom}))

LineEnds(text) == Positions(text, {"\n"})
(* get_line: up to the next line end, or the rest. *)
Line(text) == IF LineEnds(text) = {} THEN text
              ELSE SubSeq(text, 1, Min(LineEnds(text)) - 1)
After(text) == IF LineEnds(text) = {} THEN << >>
               ELSE From(text, Min(LineEnds(text)) + 1)

Inked(text) == {i \in DOMAIN text : text[i] \notin Blanks}
Comment(text) == Inked(text) # {} /\ text[Min(Inked(text))] = "#"
Trimmed(text) == IF Inked(text) = {} THEN << >>
                 ELSE SubSeq(text, 1, Max(Inked(text)))
Continues(text) == Trimmed(text) # << >> /\ Last(Trimmed(text)) = "\\"
Cooked(text) == IF Continues(text) THEN Front(Trimmed(text)) ELSE Trimmed(text)

-----------------------------------------------------------------------------
(* Where the token ends that begins at b *)

Within(text, b, e) == SubSeq(text, b + 1, e - 1)

\* Mutant of ClosingBracket: a command ends at the first closing bracket.
ClosingBracketFirst(text, b) ==
    {e \in b + 1 .. Len(text) : text[e] = "]"}

(* The bracket that closes, where it comes before the end of the line. *)
ClosingBracket(text, b) ==
    {e \in b + 1 .. Len(text) :
        /\ text[e] = "]"
        /\ Count(Within(text, b, e), "[") = Count(Within(text, b, e), "]")
        /\ "\n" \notin Range(Within(text, b, e))}

(* The brace that closes, on whichever line. *)
ClosingBrace(text, b) ==
    {e \in b + 1 .. Len(text) :
        /\ text[e] = "}"
        /\ Count(Within(text, b, e), "{") = Count(Within(text, b, e), "}")}

(* A quote ends a string unless a backslash stands before it. *)
ClosingQuote(text, b, quote) ==
    {e \in b + 1 .. Len(text) : text[e] = quote /\ text[e - 1] # "\\"}

(* The line end is passed over when an escaped quote stands before it. *)
EscapesLineEnd(text, b, quote) ==
    /\ Len(text) > b + 2
    /\ SubSeq(text, Len(text) - 2, Len(text) - 1) = <<"\\", quote>>

WordEnd(text, b) ==
    CHOOSE e \in b .. Len(text) :
        /\ text[e] \in {" ", "\n", "]"}
        /\ \A i \in b .. e - 1 : text[i] \notin {" ", "\n", "]"}

-----------------------------------------------------------------------------
(* get_next_line *)

Stop(how) ==
    /\ phase' = how
    /\ UNCHANGED <<reading, saved, cook_lines, cont_line, complete, line, at, asked>>

(* is_more where it does not need a line: there are tokens, or no text. *)
HasAnswer ==
    /\ phase = "idle" /\ asked > 0
    /\ reading.tokens # << >> \/ reading.eof
    /\ asked' = 0
    /\ UNCHANGED <<reading, saved, cook_lines, cont_line, complete, phase, line,
                   at>>

(* is_more calls get_next_line. *)
NeedsLine ==
    /\ phase = "idle" /\ asked > 0
    /\ reading.tokens = << >> /\ ~reading.eof
    /\ asked' = asked - 1
    /\ phase' = "lines"
    /\ UNCHANGED <<reading, saved, cook_lines, cont_line, complete, line, at>>

Unread == [reading EXCEPT !.text = After(reading.text),
                          !.eof = LineEnds(reading.text) = {}]


(* A line is parsed behind what has remained. *)
ParseLine(text) ==
    /\ line' = reading.remaining \o text \o <<"\n">>
    /\ at' = 1
    /\ complete' = TRUE
    /\ phase' = "line"

\* Mutant of SkipLine: get_next_line returns where it should go on.
SkipLineReturns ==
    /\ phase = "lines" /\ ~reading.eof /\ cook_lines
    /\ LET text == Line(reading.text)
       IN  /\ Comment(text) \/ Cooked(text) = << >>
           /\ cont_line' = IF Comment(text) THEN cont_line ELSE Continues(text)
    /\ reading' = Unread
    /\ phase' = "idle"
    /\ UNCHANGED <<saved, cook_lines, complete, line, at, asked>>

(* A comment is skipped, and an empty line. *)
SkipLine ==
    /\ phase = "lines" /\ ~reading.eof /\ cook_lines
    /\ LET text == Line(reading.text)
       IN  /\ Comment(text) \/ Cooked(text) = << >>
           /\ cont_line' = IF Comment(text) THEN cont_line ELSE Continues(text)
    /\ reading' = Unread
    /\ UNCHANGED <<saved, cook_lines, complete, phase, line, at, asked>>

CookLine ==
    /\ phase = "lines" /\ ~reading.eof /\ cook_lines
    /\ LET text == Line(reading.text)
       IN  /\ ~Comment(text) /\ Cooked(text) # << >>
           /\ ParseLine(Cooked(text))
           /\ cont_line' = Continues(text)
    /\ reading' = Unread
    /\ UNCHANGED <<saved, cook_lines, asked>>

(* A line inside a block is taken as it is. *)
RawLine ==
    /\ phase = "lines" /\ ~reading.eof /\ ~cook_lines
    /\ ParseLine(Line(reading.text))
    /\ reading' = Unread
    /\ UNCHANGED <<saved, cook_lines, cont_line, asked>>

NoMoreLines ==
    /\ phase = "lines" /\ reading.eof
    /\ phase' = "idle"
    /\ UNCHANGED <<reading, saved, cook_lines, cont_line, complete, line, at,
                   asked>>

-----------------------------------------------------------------------------
(* parse_line *)

More == ~ \A i \in at .. Len(line) : line[i] \in Blanks
Begin == CHOOSE i \in at .. Len(line) :
             line[i] \notin Blanks /\ \A j \in at .. i - 1 : line[j] \in Blanks

(* The token is recorded and the line goes on behind it. *)
PushBack(token, end) ==
    /\ reading' = [reading EXCEPT !.tokens = Append(@, token), !.remaining = << >>]
    /\ at' = end
    /\ UNCHANGED <<saved, cont_line, complete, phase, line, asked>>

\* Mutant of Incomplete: what stands before the block is kept with it.
IncompleteLine ==
    /\ reading' = [reading EXCEPT !.remaining = line]
    /\ complete' = FALSE
    /\ phase' = "lines"
    /\ UNCHANGED <<saved, cont_line, line, at, asked>>

(* The rest is kept until there is another line. *)
Incomplete ==
    /\ reading' = [reading EXCEPT !.remaining = From(line, Begin)]
    /\ complete' = FALSE
    /\ phase' = "lines"
    /\ UNCHANGED <<saved, cont_line, line, at, asked>>

NewLine ==
    /\ phase = "line" /\ More /\ line[Begin] = "\n"
    /\ UNCHANGED cook_lines
    /\ \/ /\ ~cont_line
          /\ PushBack(Token("EOL", <<"\n">>), Begin + 1)
       \/ /\ cont_line
          /\ cont_line' = FALSE
          /\ reading' = [reading EXCEPT !.remaining = << >>]
          /\ at' = Begin + 1
          /\ UNCHANGED <<saved, complete, phase, line, asked>>

Command ==
    /\ phase = "line" /\ More /\ line[Begin] = "["
    /\ UNCHANGED cook_lines
    /\ LET ends == ClosingBracket(line, Begin)
       IN  \/ /\ ends # {}
              /\ PushBack(Token("COMMAND", Within(line, Begin, Min(ends))), Min(ends) + 1)
           \/ /\ ends = {} /\ cont_line
              /\ reading' = [reading EXCEPT !.remaining = Front(From(line, Begin))]
              /\ complete' = FALSE
              /\ phase' = "lines"
              /\ UNCHANGED <<saved, cont_line, line, at, asked>>
           \/ /\ ends = {} /\ ~cont_line
              /\ Stop("refused")

(* Until a block is closed its lines are not cooked. *)
Block ==
    /\ phase = "line" /\ More /\ line[Begin] = "{"
    /\ LET ends == ClosingBrace(line, Begin)
       IN  \/ /\ ends # {}
              /\ cook_lines' = TRUE
              /\ PushBack(Token("BLOCK", Within(line, Begin, Min(ends))), Min(ends) + 1)
           \/ /\ ends = {}
              /\ cook_lines' = FALSE
              /\ Incomplete

String(type) ==
    /\ phase = "line" /\ More /\ line[Begin] = Quote(type)
    /\ UNCHANGED cook_lines
    /\ LET ends == ClosingQuote(line, Begin, Quote(type))
       IN  \/ /\ ends # {}
              /\ PushBack(StringToken(type, Within(line, Begin, Min(ends))), Min(ends) + 1)
           \/ /\ ends = {} /\ EscapesLineEnd(line, Begin, Quote(type))
              /\ reading' = [reading EXCEPT
                     !.tokens = Append(@, StringToken(type, From(line, Begin + 1)))]
              /\ complete' = FALSE
              /\ phase' = "lines"
              /\ UNCHANGED <<saved, cont_line, line, at, asked>>
           \/ /\ ends = {} /\ ~EscapesLineEnd(line, Begin, Quote(type))
              /\ Stop("refused")

(* At a closing bracket the word is empty and the line does not go on: the *)
(* tokens grow until there is no memory for them.                          *)
Word ==
    /\ phase = "line" /\ More
    /\ line[Begin] \notin {"\n", "[", "{", "\"", "'"}
    /\ UNCHANGED cook_lines
    /\ \/ /\ Len(reading.tokens) < MaxTokens
          /\ LET end == WordEnd(line, Begin)
             IN  PushBack(WordToken(SubSeq(line, Begin, end - 1)), end)
       \/ /\ Len(reading.tokens) >= MaxTokens
          /\ Stop("memory exhausted")

LineDone ==
    /\ phase = "line" /\ ~More
    /\ phase' = "idle"
    /\ UNCHANGED <<reading, saved, cook_lines, cont_line, complete, line, at,
                   asked>>

Tokenize ==
    \/ HasAnswer \/ NeedsLine \/ SkipLine \/ CookLine \/ RawLine \/ NoMoreLines
    \/ NewLine \/ Command \/ Block \/ Word \/ LineDone
    \/ \E type \in {"SUBST_STRING", "LITRL_STRING"} : String(type)

-----------------------------------------------------------------------------
(* What the grammar calls *)

(* All calls of is_more have been answered. *)
Answered == phase = "idle" /\ asked = 0
Token0 == IF reading.tokens = << >> THEN Token("none", << >>)
               ELSE Head(reading.tokens)
Expect(types) == Token0.type \in types
ExpectWord(text) == Token0 = Token("WORD", text)
(* tokens[1], where there is one, is the word or string text. *)
Second(text) == Len(reading.tokens) >= 2 /\ reading.tokens[2].text = text

Stays == UNCHANGED <<saved, cook_lines, cont_line, complete, phase, line, at>>

(* next, n times: it asks whether there is more when a token is gone, and   *)
(* the grammar asks again.                                                 *)
NextToken(n) ==
    /\ reading' = [reading EXCEPT !.tokens = SubSeq(@, n + 1, Len(@))]
    /\ asked' = 2
    /\ Stays

(* next, where the grammar does not ask before it returns. *)
LastToken ==
    /\ reading' = [reading EXCEPT !.tokens = Tail(@)]
    /\ asked' = 1
    /\ Stays

Ask ==
    /\ asked' = 1
    /\ UNCHANGED reading
    /\ Stays

Stream(text) == [text |-> text, eof |-> FALSE, tokens |-> << >>, remaining |-> << >>]

(* push: the front token's text is read next. *)
Push ==
    /\ saved' = Append(saved, [reading EXCEPT !.tokens = Tail(@)])
    /\ reading' = Stream(Token0.text)
    /\ asked' = 2
    /\ UNCHANGED <<cook_lines, cont_line, complete, phase, line, at>>

(* pop: back to the text around it. *)
Pop ==
    /\ reading' = Last(saved)
    /\ saved' = Front(saved)
    /\ asked' = 1
    /\ UNCHANGED <<cook_lines, cont_line, complete, phase, line, at>>

(* parse: what the tokenizer holds at the beginning. *)
Parse(text) ==
    /\ reading = Stream(text)
    /\ saved = << >>
    /\ cook_lines = TRUE
    /\ cont_line = FALSE
    /\ complete = FALSE
    /\ phase = "idle"
    /\ line = << >>
    /\ at = 1
    /\ asked = 2
==============================================================================
