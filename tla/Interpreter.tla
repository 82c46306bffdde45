---------------------------- MODULE Interpreter -----------------------------
(***************************************************************************)
(* The virtual machine: meat::execute, the contexts it runs, and the       *)
(* native methods that run block contexts.                                 *)
(*                                                                         *)
(* Contexts are linked by their messengers, the C++ stack by its calls: a  *)
(* native method calls execute again for a block, and that interpreter     *)
(* loop must find its way back to the native that called it.  Whether a    *)
(* context is done, where it resumes and which trap of a block is set are  *)
(* flags that the natives, the loop and the program's own break, continue  *)
(* and return messages all write.                                          *)
(*                                                                         *)
(* A program is a function from code names to instruction sequences.  The  *)
(* values it computes are left out; every executed instruction is noted.   *)
(***************************************************************************)
EXTENDS Naturals, Sequences, FiniteSets

CONSTANTS
  Methods,      (* The names of the methods' codes; "main" is one of them. *)
  Blocks,       (* The names of the blocks' codes.                         *)
  Programs,     (* The programs: functions from codes to instructions.     *)
  Ordinary(_),  (* Those that give no block twice to a method which does   *)
                (* not reset it, return from no loop, set no trap in a     *)
                (* block and use neither timesDo: nor repeat:, the things  *)
                (* native methods differ from their documents in.          *)
  Items         (* How many items a list has, and the Integer in timesDo:. *)

ASSUME CodesAssumption == "main" \in Methods /\ Methods \intersect Blocks = {}

Codes == Methods \union Blocks

(* What a name stands for: a block of the method or its parameter.         *)
Names == Blocks \union {"param"}

(* The native methods that run blocks, and how many they take.             *)
Selectors == {"execute", "executeOnBreak", "executeOnContinue",
              "executeOnBreakOnContinue", "isTrue", "isFalse", "forEach",
              "forEachText", "repeat", "timesDo", "try", "tryCatch"}
Takes(s) ==
  CASE s \in {"executeOnBreak", "executeOnContinue", "tryCatch"} -> 2
    [] s = "executeOnBreakOnContinue"                            -> 3
    [] OTHER                                                     -> 1

(* The instructions: data moves, a new block, a message to a native, to a  *)
(* method and to "context", and an exception.                              *)
Instructions ==
  [op : {"move", "throw"}] \union
  [op : {"block"}, code : Blocks] \union
  (UNION {[op : {"send"}, sel : {s}, blocks : [1 .. Takes(s) -> Names]] :
            s \in Selectors}) \union
  [op : {"call"}, method : Methods, block : Names] \union
  [op : {"context"}, sel : {"break", "continue", "return"}]

ASSUME ProgramsAssumption ==
  \A p \in Programs : p \in [Codes -> Seq(Instructions)] /\ Ordinary(p) \in BOOLEAN
ASSUME ItemsAssumption == Items \in Nat

VARIABLES
  prog,         (* The program.                                            *)
  ctx,          (* ctx[c]: the context object c; contexts are never reused.*)
  stack,        (* The calls on the C++ stack, innermost first.            *)
  trace,        (* History: the instructions executed, <<code, ip>> each.  *)
  failed        (* History: an exception was not caught.                   *)

vars == <<prog, ctx, stack, trace, failed>>

Null == 0

(***************************************************************************)
(* Contexts                                                                *)
(***************************************************************************)

(* A context object: messenger, origin (blocks), saved ip, done, the block *)
(* flags, and for methods local 2 (here) and the variables for blocks.  A  *)
(* native context has its arguments: the blocks it may run.                *)
NewContext(kind, code, messenger, origin, here, locals) ==
  [kind |-> kind, code |-> code, messenger |-> messenger, origin |-> origin,
   ip |-> 1, done |-> FALSE, called |-> {}, traps |-> {}, here |-> here,
   locals |-> locals]

Fresh == Len(ctx) + 1

(* The method context whose locals a block shares: BlockContext::local.    *)
Root(c) ==
  LET root[d \in DOMAIN ctx] ==
        IF ctx[d].kind = "block" THEN root[ctx[d].origin] ELSE d
  IN root[c]

(* BlockContext::reset; Context::reset does nothing.                       *)
Reset(r) ==
  IF r.kind = "block" THEN [r EXCEPT !.called = {}, !.traps = {}, !.ip = 1,
                                       !.done = FALSE]
                      ELSE r

(* The contexts a break, continue or return message reaches: the receiver  *)
(* and its origins, up to a block with the trap set.  Methods have no trap *)
(* and take only return.                                                   *)
Reached(c, sel) ==
  LET reached[d \in DOMAIN ctx] ==
        IF ctx[d].kind = "block"
          THEN {d} \union (IF sel \in ctx[d].traps THEN {}
                           ELSE reached[ctx[d].origin])
          ELSE {m \in {d} : sel = "return"}
  IN reached[c]

(* c_break, c_continue and finish on a context they reach.                 *)
Stop(r, sel) ==
  [r EXCEPT !.done = TRUE,
            !.called = IF sel = "return" THEN @ ELSE @ \union {sel}]

(***************************************************************************)
(* The C++ stack                                                           *)
(***************************************************************************)
Interpret(c, ip, phase) ==
  [fn |-> "interpret", ctx |-> c, ip |-> ip, phase |-> phase, left |-> 0]
Native(c, phase, left) ==
  [fn |-> "native", ctx |-> c, ip |-> 0, phase |-> phase, left |-> left]

top == Head(stack)
Running == stack # <<>> /\ top.fn = "interpret"
InNative(phase) == stack # <<>> /\ top.fn = "native" /\ top.phase = phase

(* The context the interpreter is in, and its next instruction.            *)
cur == top.ctx
code == prog[ctx[cur].code]
Fetching(op) ==
  /\ Running
  /\ top.phase = "fetch"
  /\ top.ip <= Len(code)
  /\ code[top.ip].op = op
instr == code[top.ip]

Note == trace' = Append(trace, <<ctx[cur].code, top.ip>>)

(* Mutant: the loop never looks.                                           *)
NeverChecks(done) == IF done THEN "fetch" ELSE "fetch"

(* What the loop does after an instruction: go on, or look for the next    *)
(* context that is not done.                                               *)
PhaseAfter(done) == IF done THEN "check" ELSE "fetch"

(***************************************************************************)
(* Instructions                                                            *)
(***************************************************************************)

(* Every bytecode that only moves data: the ip in the loop goes on, the    *)
(* one saved in the context does not.                                      *)
Move ==
  /\ Fetching("move")
  /\ stack' = <<Interpret(cur, top.ip + 1, PhaseAfter(ctx[cur].done))>> \o Tail(stack)
  /\ Note
  /\ UNCHANGED <<prog, ctx, failed>>

(* BLOCK: a new block context, messaged by and created in this context.    *)
MakeBlock ==
  /\ Fetching("block")
  /\ LET saved == [ctx EXCEPT ![cur].ip = top.ip + 1,
                              ![Root(cur)].locals[instr.code] = Fresh]
     IN ctx' = Append(saved, NewContext("block", instr.code, cur, cur, Null, <<>>))
  /\ stack' = <<Interpret(cur, top.ip + 1, PhaseAfter(ctx[cur].done))>> \o Tail(stack)
  /\ Note
  /\ UNCHANGED <<prog, failed>>

(* CONTEXT_END.                                                            *)
ContextEnd ==
  /\ Running
  /\ top.phase = "fetch"
  /\ top.ip = Len(code) + 1
  /\ ctx' = [ctx EXCEPT ![cur].done = TRUE]
  /\ stack' = <<Interpret(cur, top.ip, "check")>> \o Tail(stack)
  /\ Note
  /\ UNCHANGED <<prog, failed>>

(* Mutant: the index is one too low, where "context" is.                   *)
HeldBeside(name) == ctx[Root(cur)].here

(* The block a variable holds.                                             *)
Held(name) == ctx[Root(cur)].locals[name]

(* MESSAGE answered by a bytecode method, which gets a block as parameter. *)
CallMethod ==
  /\ Fetching("call")
  /\ ctx' = Append([ctx EXCEPT ![cur].ip = top.ip + 1],
                   NewContext("method", instr.method, cur, Null, Fresh,
                              [b \in Names |->
                                 IF b = "param" THEN Held(instr.block) ELSE Null]))
  /\ stack' = <<Interpret(Fresh, 1, "fetch")>> \o Tail(stack)
  /\ Note
  /\ UNCHANGED <<prog, failed>>

(* MESSAGE answered by a native method: its context becomes the loop's,    *)
(* and the native is called.  A variable that was never set is a null      *)
(* reference, and no program gives one to a native.                        *)
CallNative ==
  /\ Fetching("send")
  /\ \A i \in DOMAIN instr.blocks : Held(instr.blocks[i]) # Null
  /\ ctx' = Append([ctx EXCEPT ![cur].ip = top.ip + 1],
                   NewContext("native", instr.sel, cur, Null, Fresh,
                              [i \in 1 .. Len(instr.blocks) |-> Held(instr.blocks[i])]))
  /\ stack' = <<Native(Fresh, "enter", Items), Interpret(Fresh, top.ip, "call")>>
                \o Tail(stack)
  /\ Note
  /\ UNCHANGED <<prog, failed>>

(* break, continue or return messaged to "context", which is local 2.      *)
(* Context's own break and continue are methods that do nothing.           *)
MessageContext ==
  /\ Fetching("context")
  /\ LET reached == Reached(ctx[Root(cur)].here, instr.sel)
         stopped == [c \in DOMAIN ctx |-> IF c \in reached THEN Stop(ctx[c], instr.sel)
                                                           ELSE ctx[c]]
         saved == [stopped EXCEPT ![cur].ip = top.ip + 1]
     IN /\ ctx' = IF saved[cur].done THEN saved
                  ELSE [saved EXCEPT ![Root(cur)].here = cur]
        /\ stack' = <<Interpret(cur, top.ip + 1, PhaseAfter(stopped[cur].done))>>
                      \o Tail(stack)
  /\ Note
  /\ UNCHANGED <<prog, failed>>

(* Exception throw: every call down to the innermost native that is in its *)
(* try part is unwound.                                                    *)
Trying == {i \in DOMAIN stack : stack[i].fn = "native" /\ stack[i].phase = "try"}

Throw ==
  /\ Fetching("throw")
  /\ ctx' = [ctx EXCEPT ![cur].ip = top.ip + 1]
  /\ IF Trying = {}
       THEN stack' = <<>> /\ failed' = TRUE
       ELSE LET i == CHOOSE i \in Trying : \A j \in Trying : i <= j
            IN /\ stack' = <<[stack[i] EXCEPT !.phase = "caught"]>>
                             \o SubSeq(stack, i + 1, Len(stack))
               /\ UNCHANGED failed
  /\ Note
  /\ UNCHANGED prog

(***************************************************************************)
(* The end of the loop's body, for a context that is done.                 *)
(***************************************************************************)

(* Its messenger is Null or a native's context: this interpreter returns.  *)
(* The context is not reset.                                               *)
messenger == ctx[cur].messenger
Natives == {c \in DOMAIN ctx : ctx[c].kind = "native"}
Leaving == messenger \in {Null} \union Natives

(* Mutant: the old context is not cleaned up.                              *)
KeepsMessenger ==
  /\ Running /\ top.phase = "check"
  /\ Leaving
  /\ stack' = Tail(stack)
  /\ UNCHANGED <<prog, ctx, trace, failed>>

ReturnToCaller ==
  /\ Running /\ top.phase = "check"
  /\ Leaving
  /\ ctx' = [ctx EXCEPT ![cur].messenger = Null]
  /\ stack' = Tail(stack)
  /\ UNCHANGED <<prog, trace, failed>>

(* Mutant: back in the messenger, local 2 is left as it is.                *)
ReturnsUnnamed ==
  /\ Running /\ top.phase = "check"
  /\ ~Leaving
  /\ ctx' = [ctx EXCEPT ![cur] = Reset([@ EXCEPT !.messenger = Null])]
  /\ stack' = <<IF ctx[messenger].done THEN Interpret(messenger, top.ip, "check")
                ELSE Interpret(messenger, ctx[messenger].ip, "fetch")>> \o Tail(stack)
  /\ UNCHANGED <<prog, trace, failed>>

(* ... otherwise go back to the messenger, and look at it in turn.         *)
ReturnToMessenger ==
  /\ Running /\ top.phase = "check"
  /\ ~Leaving
  /\ LET back == [ctx EXCEPT ![cur] = Reset([@ EXCEPT !.messenger = Null])]
     IN IF ctx[messenger].done
          THEN /\ ctx' = back
               /\ stack' = <<Interpret(messenger, top.ip, "check")>> \o Tail(stack)
          ELSE /\ ctx' = [back EXCEPT ![Root(messenger)].here = messenger]
               /\ stack' = <<Interpret(messenger, ctx[messenger].ip, "fetch")>>
                             \o Tail(stack)
  /\ UNCHANGED <<prog, trace, failed>>

(***************************************************************************)
(* Natives                                                                 *)
(***************************************************************************)
sel == ctx[cur].code
block == ctx[cur].locals[1]

(* execute(b) from a native: local 2 is set, and the loop starts at the    *)
(* saved ip without looking whether b is done.  c is what the contexts are *)
(* by then.                                                                *)
Execute(c, b, frame) ==
  /\ ctx' = [c EXCEPT ![Root(b)].here = b]
  /\ stack' = <<Interpret(b, c[b].ip, "fetch"), frame>> \o Tail(stack)

Messaged(b) == [ctx EXCEPT ![b].messenger = cur]
Trapped(c, b, traps) == [c EXCEPT ![b].traps = @ \union traps]
ResetIn(c, b) == [c EXCEPT ![b] = Reset(@)]
At(phase) == Native(cur, phase, top.left)

(* The handlers of BlockContext's execute methods: which argument answers  *)
(* break, and which continue.                                              *)
Handler(s, kind) ==
  CASE s = "executeOnBreak" /\ kind = "break"               -> 2
    [] s = "executeOnContinue" /\ kind = "continue"         -> 2
    [] s = "executeOnBreakOnContinue" /\ kind = "break"     -> 2
    [] s = "executeOnBreakOnContinue" /\ kind = "continue"  -> 3
    [] OTHER                                                -> 0
Traps(s) == {kind \in {"break", "continue"} : Handler(s, kind) # 0}

Executes == {"execute", "executeOnBreak", "executeOnContinue",
             "executeOnBreakOnContinue"}

(* execute and its variants: set the traps and the messenger, reset, run.  *)
EnterExecute ==
  /\ InNative("enter") /\ sel \in Executes
  /\ Execute(ResetIn(Trapped(Messaged(block), block, Traps(sel)), block), block,
             At("ran"))
  /\ UNCHANGED <<prog, trace, failed>>

(* Then run the handler of what was called, by messaging it execute.       *)
Called == {kind \in {"break", "continue"} :
             /\ kind \in ctx[block].called
             /\ Handler(sel, kind) # 0
             /\ kind = "continue" => ~("break" \in ctx[block].called
                                         /\ Handler(sel, "break") # 0)}
CallHandler ==
  /\ InNative("ran") /\ sel \in Executes
  /\ \E kind \in Called :
       /\ ctx' = Append(ctx, NewContext("native", "execute", cur, Null, Fresh,
                                        <<ctx[cur].locals[Handler(sel, kind)]>>))
       /\ stack' = <<Native(Fresh, "enter", 0), At("last")>> \o Tail(stack)
  /\ UNCHANGED <<prog, trace, failed>>

(* Mutant: the native waits for a break or continue that may not come.     *)
AwaitsHandler == InNative("last")

(* A native that has nothing left to do returns to the loop, where its     *)
(* context is done, or to the native that called it.                       *)
Finishing ==
  \/ InNative("last")
  \/ InNative("ran") /\ sel \in Executes /\ Called = {}

NativeReturns(c) ==
  LET caller == stack[2]
  IN IF caller.fn = "interpret"
       THEN /\ ctx' = [c EXCEPT ![cur].done = TRUE]
            /\ stack' = <<[caller EXCEPT !.phase = "check"]>>
                          \o SubSeq(stack, 3, Len(stack))
       ELSE /\ ctx' = c
            /\ stack' = Tail(stack)

Finish ==
  /\ Finishing
  /\ NativeReturns(ctx)
  /\ UNCHANGED <<prog, trace, failed>>

(* isTrue: and isFalse: on the object that takes the block: no reset       *)
(* before, and only isFalse: resets after.                                 *)
EnterConditional ==
  /\ InNative("enter") /\ sel \in {"isTrue", "isFalse"}
  /\ Execute(Messaged(block), block, At("ran"))
  /\ UNCHANGED <<prog, trace, failed>>

LeaveConditional ==
  /\ InNative("ran") /\ sel \in {"isTrue", "isFalse"}
  /\ NativeReturns(IF sel = "isFalse" THEN ResetIn(ctx, block) ELSE ctx)
  /\ UNCHANGED <<prog, trace, failed>>

(* List's, Text's and Class's forEach:do: and Context's repeat:.  The      *)
(* messenger is set once, the traps for every item.                        *)
LoopTraps == IF sel = "repeat" THEN {"break", "continue"} ELSE {"break"}

EnterLoop ==
  /\ InNative("enter") /\ sel \in {"forEach", "forEachText", "repeat"}
  /\ IF sel # "repeat" /\ top.left = 0
       THEN ctx' = Messaged(block) /\ stack' = <<At("last")>> \o Tail(stack)
       ELSE Execute(Trapped(Messaged(block), block, LoopTraps), block, At("ran"))
  /\ UNCHANGED <<prog, trace, failed>>

(* A break ends the loop, and repeat: also ends when the block is done.    *)
LoopOver ==
  \/ "break" \in ctx[block].called
  \/ sel = "repeat" /\ ctx[block].done
  \/ sel # "repeat" /\ top.left = 1

NextItem ==
  /\ InNative("ran") /\ sel \in {"forEach", "forEachText", "repeat"}
  /\ ~LoopOver
  /\ Execute(Trapped(ResetIn(ctx, block), block, LoopTraps), block,
             Native(cur, "ran", IF sel = "repeat" THEN 0 ELSE top.left - 1))
  /\ UNCHANGED <<prog, trace, failed>>

(* List's forEach:do: leaves a block that broke as it is; the others reset.*)
LeaveLoop ==
  /\ InNative("ran") /\ sel \in {"forEach", "forEachText", "repeat"}
  /\ LoopOver
  /\ NativeReturns(IF sel = "forEach" /\ "break" \in ctx[block].called
                     THEN ctx ELSE ResetIn(ctx, block))
  /\ UNCHANGED <<prog, trace, failed>>

(* Integer's timesDo: sets neither messenger nor trap and never resets.    *)
TimesDo ==
  /\ \/ InNative("enter")
     \/ InNative("ran")
  /\ sel = "timesDo"
  /\ IF top.left = 0 THEN NativeReturns(ctx)
     ELSE Execute(ctx, block, Native(cur, "ran", top.left - 1))
  /\ UNCHANGED <<prog, trace, failed>>

(* Mutant of EnterTry: the block keeps the messenger it was created with.  *)
EnterTryUnmessaged ==
  /\ InNative("enter") /\ sel \in {"try", "tryCatch"}
  /\ Execute(ctx, block, At("try"))
  /\ UNCHANGED <<prog, trace, failed>>

(* Exception's try: and try:catch:.                                        *)
EnterTry ==
  /\ InNative("enter") /\ sel \in {"try", "tryCatch"}
  /\ Execute(Messaged(block), block, At("try"))
  /\ UNCHANGED <<prog, trace, failed>>

(* Nothing was thrown: the block is not reset.                             *)
LeaveTry ==
  /\ InNative("try")
  /\ NativeReturns(ctx)
  /\ UNCHANGED <<prog, trace, failed>>

(* Something was: try: resets the block, try:catch: runs the catch block   *)
(* first.                                                                  *)
CatchTry ==
  /\ InNative("caught") /\ sel = "try"
  /\ NativeReturns(ResetIn(ctx, block))
  /\ UNCHANGED <<prog, trace, failed>>

RunCatch ==
  /\ InNative("caught") /\ sel = "tryCatch"
  /\ LET handler == ctx[cur].locals[2]
     IN Execute(Messaged(handler), handler, At("catching"))
  /\ UNCHANGED <<prog, trace, failed>>

LeaveCatch ==
  /\ InNative("catching")
  /\ NativeReturns(ResetIn(ctx, block))
  /\ UNCHANGED <<prog, trace, failed>>

(***************************************************************************)
(* The specification                                                       *)
(***************************************************************************)
NoBlocks == [b \in Names |-> Null]

Init ==
  /\ prog \in Programs
  /\ ctx = <<NewContext("method", "main", Null, Null, 1, NoBlocks)>>
  /\ stack = <<Interpret(1, 1, "fetch")>>
  /\ trace = <<>>
  /\ failed = FALSE

Next ==
  \/ Move \/ MakeBlock \/ ContextEnd \/ CallMethod \/ CallNative
  \/ MessageContext \/ Throw
  \/ ReturnToCaller \/ ReturnToMessenger
  \/ EnterExecute \/ CallHandler \/ Finish
  \/ EnterConditional \/ LeaveConditional
  \/ EnterLoop \/ NextItem \/ LeaveLoop
  \/ TimesDo
  \/ EnterTry \/ LeaveTry \/ CatchTry \/ RunCatch \/ LeaveCatch

Spec == Init /\ [][Next]_vars

(* One thread runs the machine, and nothing else can stop it.              *)
FairSpec == Spec /\ WF_vars(Next)

(***************************************************************************)
(* Properties                                                              *)
(***************************************************************************)
Contexts == DOMAIN ctx

(* The types of the machine's state: contexts refer to contexts that       *)
(* exist, and the C++ stack holds interpreters and natives.                *)
TypeOK ==
  /\ \A c \in Contexts :
       /\ ctx[c].kind \in {"method", "block", "native"}
       /\ ctx[c].messenger \in Contexts \union {Null}
       /\ ctx[c].origin \in Contexts \union {Null}
       /\ ctx[c].here \in Contexts \union {Null}
       /\ ctx[c].ip \in Nat \ {0}
       /\ ctx[c].done \in BOOLEAN
       /\ ctx[c].called \subseteq {"break", "continue"}
       /\ ctx[c].traps \subseteq {"break", "continue"}
  /\ \A i \in DOMAIN stack :
       /\ stack[i].fn \in {"interpret", "native"}
       /\ stack[i].ctx \in Contexts
       /\ stack[i].left \in 0 .. Items
  /\ failed \in BOOLEAN

(* The block a native runs: its first argument, or the catch block.        *)
RunBy(call) ==
  ctx[call.ctx].locals[IF call.phase = "catching" THEN 2 ELSE 1]

(* The blocks under way: those that natives have called interpreters for.  *)
UnderWay ==
  {RunBy(stack[i]) : i \in {j \in DOMAIN stack : j > 1 /\ stack[j - 1].fn = "interpret"}}

(* A native that is called is given no block that is under way: blocks     *)
(* have one ip, one messenger and one done flag each.  And it is not       *)
(* timesDo:, which does not become the messenger of its block.             *)
Nests ==
  InNative("enter") =>
    /\ sel # "timesDo"
    /\ \A k \in DOMAIN ctx[cur].locals : ctx[cur].locals[k] \notin UnderWay

(* Ordinary programs nest: the natives get the blocks their text names,    *)
(* made by the run of the method that gives them.                          *)
OrdinaryNests == Ordinary(prog) => Nests

(* execute's inner loop finds its way: following the messengers of the     *)
(* contexts an interpreter runs leads to the native that called this       *)
(* interpreter and to no other, or to Null, on which it returns too.       *)
WalkBack(c) ==
  LET walk[k \in 0 .. Len(ctx)] ==
        IF k = 0 THEN c
        ELSE LET b == walk[k - 1]
             IN IF b = Null \/ b \in Natives THEN b ELSE ctx[b].messenger
  IN walk[Len(ctx)]

WayBack ==
  \A i \in {j \in DOMAIN stack : stack[j].fn = "interpret"} :
    LET c == stack[i].ctx
        from == IF c \in Natives THEN ctx[c].messenger ELSE c
        below == IF i = Len(stack) THEN Null ELSE stack[i + 1].ctx
    IN WalkBack(from) \in {below, Null}

(* "context" means the context that is running, also in a block, whose     *)
(* local 2 is its method's: every way into and back to a context sets it.  *)
ContextIsCurrent ==
  Running /\ top.phase = "fetch" => ctx[Root(cur)].here = cur

(* Once a method has returned, so have its blocks: none of them executes   *)
(* anything while the natives the method called wind up.                   *)
ReturnedNeverRuns ==
  Ordinary(prog) /\ Running /\ top.phase = "fetch" => ~ctx[Root(cur)].done

(* A finished block keeps no caller: "This ensures when a block context is *)
(* kept that only necessary contexts are kept."  One that an exception     *)
(* unwound does keep it, so programs that threw are left out.              *)
Threw ==
  \E i \in DOMAIN trace :
    LET at == trace[i] IN /\ at[2] <= Len(prog[at[1]])
                          /\ prog[at[1]][at[2]].op = "throw"

CallersReleased ==
  stack = <<>> /\ ~Threw =>
    \A c \in Contexts : ctx[c].kind = "block" => ctx[c].messenger \notin Natives

(* A program that has no endless loop comes to its end: no interpreter     *)
(* waits for a context that will not be done, and none runs in circles.    *)
Termination == <>(stack = <<>>)
=============================================================================
