------------------------------ MODULE AsWritten -----------------------------
(***************************************************************************)
(* The virtual machine against the meaning of its programs.                *)
(***************************************************************************)
EXTENDS Interpreter

CONSTANT
  Outer         (* Outer[b]: the code that block b is written in.          *)

ASSUME OuterAssumption == Outer \in [Blocks -> Codes]

Written == INSTANCE Structured

(* Whatever natives, traps and nested interpreters a program goes through, *)
(* it executes the instructions its text says, in that order, and lets out *)
(* an exception exactly when its text does.                                *)
RunsAsWritten ==
  Ordinary(prog) /\ stack = <<>> =>
    [trace |-> trace, failed |-> failed] = Written!Meaning(prog)
=============================================================================
