------------------------------- MODULE Numbers -------------------------------
(***************************************************************************)
(* Which words are integers, and which integer: Utils::is_integer of       *)
(* lib/comp_utils.cpp with is_numeric and to_numeric.                      *)
(*                                                                         *)
(* A word is its bytes, in UTF-8.  The digits of a script are consecutive, *)
(* and a script stands here as its zero.  Both functions test the scripts  *)
(* one by one; at most one of the tests can succeed.                       *)
(***************************************************************************)
EXTENDS Integers, Sequences

CONSTANT IntMax  \* INT32_MAX

ASSUME NumbersAssumption == IntMax \in Nat \ {0}

-----------------------------------------------------------------------------
(* The zeros of the scripts, by the first byte *)

ZerosE0 == {224} \X {165, 167, 169, 171, 173, 175, 177, 179, 181, 183} \X {166}
             \union {<<224, 185, 144>>, <<224, 187, 144>>, <<224, 188, 160>>}
ZerosE1 == {<<225, 129, 128>>, <<225, 130, 144>>, <<225, 159, 160>>,
            <<225, 160, 144>>, <<225, 165, 134>>, <<225, 167, 144>>,
            <<225, 170, 128>>, <<225, 170, 144>>, <<225, 173, 144>>,
            <<225, 174, 176>>, <<225, 177, 128>>, <<225, 177, 144>>}
ZerosEA == {<<234, 152, 160>>, <<234, 163, 144>>, <<234, 164, 128>>,
            <<234, 167, 144>>, <<234, 167, 176>>, <<234, 169, 144>>,
            <<234, 175, 176>>}
(* Five alphabets of mathematical digits follow each other. *)
Mathematical == <<240, 157, 159, 142>>
ZerosF0 == {<<240, 144, 146, 160>>, <<240, 145, 129, 166>>,
            <<240, 145, 131, 176>>, <<240, 145, 132, 182>>,
            <<240, 145, 135, 144>>, <<240, 145, 139, 176>>,
            <<240, 145, 145, 144>>, <<240, 145, 147, 144>>,
            <<240, 145, 153, 144>>, <<240, 145, 155, 128>>,
            <<240, 145, 156, 176>>, <<240, 145, 163, 160>>,
            <<240, 145, 177, 144>>, <<240, 145, 181, 144>>,
            <<240, 150, 169, 160>>, <<240, 150, 173, 144>>,
            Mathematical, <<240, 158, 165, 144>>}
ZerosOther == {<<217, 160>>, <<219, 176>>, <<223, 128>>, <<239, 188, 144>>}

Zeros == ZerosE0 \union ZerosE1 \union ZerosEA \union ZerosF0 \union ZerosOther

ZerosOf(byte) ==
    CASE byte = 224 -> ZerosE0
      [] byte = 225 -> ZerosE1
      [] byte = 234 -> ZerosEA
      [] byte = 240 -> ZerosF0
      [] OTHER -> ZerosOther

(* The last digit of a script. *)
Nine(zero) ==
    [zero EXCEPT ![Len(zero)] = @ + IF zero = Mathematical THEN 49 ELSE 9]

-----------------------------------------------------------------------------
(* What stands at the beginning of the rest of a word *)

(* strcmp(value, other) < 0 *)
Before(value, other) ==
    \E i \in {j \in DOMAIN other : j <= Len(value) + 1} :
        /\ i > Len(value) \/ value[i] < other[i]
        /\ SubSeq(value, 1, i - 1) = SubSeq(other, 1, i - 1)

Ascii(rest) == rest[1] \in 48 .. 57

(* strcmp compares the whole of what is left of the word. *)
Script(rest) ==
    {zero \in ZerosOf(rest[1]) : ~Before(rest, zero) /\ ~Before(Nine(zero), rest)}

(* The bytes of the digit, or none. *)
IsNumeric(rest) ==
    IF Ascii(rest) THEN 1
    ELSE IF Script(rest) = {} THEN 0
         ELSE Len(CHOOSE zero \in Script(rest) : TRUE)

ThirdByte(rest, zero) == rest[3] - zero[3]
\* Mutant of FourthByte: all mathematical digits are counted from one zero.
FourthByteFromZero(rest, zero) == rest[4] - zero[4]
FourthByte(rest, zero) ==
    IF zero = Mathematical THEN (rest[4] - zero[4]) % 10 ELSE rest[4] - zero[4]

ToNumeric(rest) ==
    IF Ascii(rest) THEN rest[1] - 48
    ELSE LET zero == CHOOSE zero \in Script(rest) : TRUE
         IN  CASE Len(zero) = 2 -> rest[2] - zero[2]
               [] Len(zero) = 3 -> ThirdByte(rest, zero)
               [] Len(zero) = 4 -> FourthByte(rest, zero)

-----------------------------------------------------------------------------
(* is_integer *)

(* A sum that is too large comes out on the other side. *)
Int32(n) == ((n + IntMax + 1) % (2 * (IntMax + 1))) - (IntMax + 1)

Byte == 0 .. 255

(* The integer, alone in a sequence, or nothing. *)
IntegerFrom[rest \in Seq(Byte), res \in Int] ==
    IF rest = << >> THEN <<res>>
    ELSE LET inc == IsNumeric(rest)
         IN  IF inc = 0 THEN << >>
             ELSE IntegerFrom[SubSeq(rest, inc + 1, Len(rest)),
                              Int32(res * 10 + ToNumeric(rest))]

Minus == 45
Plus == 43

(* A sign alone is none; the word of no bytes is zero. *)
IsInteger[value \in Seq(Byte)] ==
    IF value # << >> /\ value[1] \in {Minus, Plus}
    THEN IF Len(value) = 1 THEN << >>
         ELSE LET integer == IntegerFrom[Tail(value), 0]
              IN  IF integer # << >> /\ value[1] = Minus THEN <<Int32(-integer[1])>>
                  ELSE integer
    ELSE IntegerFrom[value, 0]
=============================================================================
