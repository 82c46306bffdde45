------------------------------ MODULE Receiver ------------------------------
(***************************************************************************)
(* One object of a builtin class that is messaged again and again, and the *)
(* native method that answers it (src/builtin.cpp).  A native runs on the  *)
(* one thread until it returns or throws; those with a loop take a step    *)
(* for each turn of it.                                                    *)
(***************************************************************************)
EXTENDS Integers, SequencesExt, FiniteSetsExt

VARIABLES class,    \* "Text", "List", "Set" or "Index"
          self,     \* what it holds
          call,     \* the message
          phase,    \* where the native is; "idle", or how it went
          local,    \* its local variables: iterators and counters
          answer,   \* what it has returned
          before    \* what the object held when it was messaged (history)

receiver == <<class, self, call, phase, local, answer, before>>

(* index, count, value and with are the parameters that the method has;    *)
(* loop says what the block does that is executed for each item.           *)
Call(method, index, count, value, with, loop) ==
    [method |-> method, index |-> index, count |-> count, value |-> value,
     with |-> with, loop |-> loop]
NoCall == Call("none", 0, 0, << >>, << >>, "none")

Answer(number, content) == [number |-> number, content |-> content]
NoAnswer == Answer(0, << >>)

(* "exception" is an Exception; "out of range" and "memory exhausted" are  *)
(* exceptions of C++, which try:catch: catches and try:catch:do: does not. *)
Ends == {"returned", "exception", "out of range", "undefined", "memory exhausted"}
AtWork == phase \notin Ends \union {"idle"}
Working(where) == phase = where
Is(method) == call.method = method

(* How the native leaves; it may change the object as it does.             *)
Returns(number, content) ==
    /\ phase' = "returned"
    /\ answer' = Answer(number, content)
    /\ UNCHANGED <<class, call, local, before>>
Fails(how) ==
    /\ phase' = how
    /\ UNCHANGED <<class, call, local, answer, before>>
(* It goes on, at another place and with other values of its variables.    *)
Goes(where, locals) ==
    /\ phase' = where
    /\ local' = locals
    /\ UNCHANGED <<class, call, answer, before>>

Boolean(condition) == IF condition THEN 1 ELSE 0

(* The message arrives: the native starts with its own variables.          *)
Receives(c, message, locals) ==
    /\ phase = "idle" /\ class = c
    /\ call' = message /\ phase' = "entered"
    /\ local' = locals /\ before' = self
    /\ UNCHANGED <<class, self, answer>>

(* The answer is taken, and the object can be messaged again.  Nothing is  *)
(* known of the program after undefined behaviour.                         *)
NextMessage ==
    /\ phase \in Ends \ {"undefined"}
    /\ phase' = "idle" /\ call' = NoCall /\ answer' = NoAnswer
    /\ local' = << >> /\ before' = << >>
    /\ UNCHANGED <<class, self>>

Idle(c, content) ==
    /\ class = c /\ self = content
    /\ call = NoCall /\ phase = "idle" /\ answer = NoAnswer
    /\ local = << >> /\ before = << >>
=============================================================================
