----------------------------- MODULE Structured -----------------------------
(***************************************************************************)
(* What a program means: the order of its instructions when blocks nest as *)
(* they are written.  There are no contexts, messengers, saved ips or done *)
(* flags here; a block is run by whoever runs it and comes back to him.    *)
(*                                                                         *)
(* break, continue and return stop the block they are messaged to and then *)
(* its origin, up to the block that was run with a trap for them; a method *)
(* is stopped by return alone.  What is stopped ends after the instruction *)
(* it is in.                                                               *)
(***************************************************************************)
EXTENDS Naturals, Sequences

CONSTANTS
  Methods, Blocks,  (* The names of the codes.                             *)
  Outer,            (* Outer[b]: the code that block b is written in.      *)
  Items             (* How often a loop runs its block.                    *)

(* The state of a run.  A code is active at most once, so it names the     *)
(* activation; codes that were stopped are stopped until they run again.   *)
Start ==
  [trace |-> <<>>, stopped |-> {}, thrown |-> FALSE,
   traps |-> [b \in Blocks |-> {}],
   param |-> [m \in Methods |-> ""]]

StoppedCodes(s) == {stop[1] : stop \in s.stopped}

RECURSIVE Home(_)
Home(c) == IF c \in Blocks THEN Home(Outer[c]) ELSE c

(* The codes a break, continue or return in c stops.                       *)
RECURSIVE Stops(_, _, _)
Stops(s, c, kind) ==
  IF c \in Blocks
    THEN {c} \union (IF kind \in s.traps[c] THEN {} ELSE Stops(s, Outer[c], kind))
    ELSE {x \in {c} : kind = "return"}

(* The traps a selector runs its block with, and the argument that then    *)
(* answers them.                                                           *)
HandledBy ==
  [sel \in {"executeOnBreak", "executeOnContinue", "executeOnBreakOnContinue"} |->
     CASE sel = "executeOnBreak"    -> [break |-> 2]
       [] sel = "executeOnContinue" -> [continue |-> 2]
       [] OTHER                     -> [break |-> 2, continue |-> 3]]

Conditionals == {"execute", "isTrue", "isFalse"}
Loops == {"forEach", "forEachText", "timesDo"}
LoopTraps(sel) == IF sel = "timesDo" THEN {} ELSE {"break"}

RECURSIVE Eval(_, _, _, _), Perform(_, _, _, _), Loop(_, _, _, _, _)

(* Code c of program p from instruction ip on.                             *)
Eval(p, s, c, ip) ==
  IF s.thrown \/ c \in StoppedCodes(s) THEN s
  ELSE LET noted == [s EXCEPT !.trace = Append(@, <<c, ip>>)]
       IN IF ip > Len(p[c]) THEN noted
          ELSE Eval(p, Perform(p, noted, c, p[c][ip]), c, ip + 1)

Forget(s, c) == {stop \in s.stopped : stop[1] # c}

RunBlock(p, s, b, traps) ==
  Eval(p, [s EXCEPT !.stopped = Forget(s, b), !.traps[b] = traps], b, 1)

RunMethod(p, s, m, b) ==
  Eval(p, [s EXCEPT !.stopped = Forget(s, m), !.param[m] = b], m, 1)

(* A loop runs its block until it breaks or returns, n times at most.      *)
Loop(p, s, b, traps, n) ==
  IF n = 0 THEN s
  ELSE LET r == RunBlock(p, s, b, traps)
       IN IF r.thrown \/ <<b, "break">> \in r.stopped \/ <<b, "return">> \in r.stopped
            THEN r
            ELSE Loop(p, r, b, traps, n - 1)

Perform(p, s, c, i) ==
  LET Named(name) == IF name = "param" THEN s.param[Home(c)] ELSE name
      b == Named(i.blocks[1])
  IN CASE i.op \in {"move", "block"} -> s
       [] i.op = "throw" -> [s EXCEPT !.thrown = TRUE]
       [] i.op = "context" ->
            [s EXCEPT !.stopped = @ \union (Stops(s, c, i.sel) \X {i.sel})]
       [] i.op = "call" -> RunMethod(p, s, i.method, Named(i.block))
       [] i.op = "send" /\ i.sel \in Conditionals -> RunBlock(p, s, b, {})
       [] i.op = "send" /\ i.sel \in Loops -> Loop(p, s, b, LoopTraps(i.sel), Items)
       [] i.op = "send" /\ i.sel \in DOMAIN HandledBy ->
            LET handled == HandledBy[i.sel]
                r == RunBlock(p, s, b, DOMAIN handled)
                Caught == {kind \in DOMAIN handled : <<b, kind>> \in r.stopped}
            IN IF r.thrown \/ Caught = {} THEN r
               ELSE LET kind == IF "break" \in Caught THEN "break" ELSE "continue"
                    IN RunBlock(p, r, Named(i.blocks[handled[kind]]), {})
       [] i.op = "send" /\ i.sel = "try" ->
            [RunBlock(p, s, b, {}) EXCEPT !.thrown = FALSE]
       [] i.op = "send" /\ i.sel = "tryCatch" ->
            LET r == RunBlock(p, s, b, {})
            IN IF r.thrown
                 THEN RunBlock(p, [r EXCEPT !.thrown = FALSE], Named(i.blocks[2]), {})
                 ELSE r

(* A program's meaning: the instructions it executes, in order, and        *)
(* whether an exception gets out of it.                                    *)
Meaning(p) ==
  LET r == Eval(p, Start, "main", 1) IN [trace |-> r.trace, failed |-> r.thrown]
=============================================================================
