-------------------------- MODULE InterpreterProofs -------------------------
(***************************************************************************)
(* Theorems about Interpreter, for any programs: "context" is the context  *)
(* that is running; and if natives are not given blocks that are under     *)
(* way, then every nested interpreter finds its way back to the native     *)
(* that called it, and finished blocks keep no caller.                     *)
(*                                                                         *)
(* The invariants are stated of contexts cx and of calls cl, numbered from *)
(* the outmost, 1, to the innermost, n.                                    *)
(***************************************************************************)
EXTENDS Interpreter, WellOrder

(***************************************************************************)
(* Calls, from the outmost                                                 *)
(***************************************************************************)
Phases == {"fetch", "check", "call", "enter", "ran", "try", "caught", "catching",
           "last"}

Call == [fn : {"interpret", "native"}, ctx : Nat, ip : Nat, phase : Phases,
         left : 0 .. Items]

Calls(s) == [d \in 1 .. Len(s) |-> s[Len(s) + 1 - d]]

(* t has n calls, the innermost is x and the others are those of s.        *)
CutTo(s, t, n, x) ==
  /\ t \in Seq(Call)
  /\ Len(t) = n
  /\ Calls(t)[n] = x
  /\ \A d \in 1 .. n - 1 : Calls(t)[d] = Calls(s)[d]

(* t has y in place of the innermost call of s, and one more, x.           *)
PushedOn(s, t, x, y) ==
  /\ t \in Seq(Call)
  /\ Len(t) = Len(s) + 1
  /\ Calls(t)[Len(s) + 1] = x
  /\ Calls(t)[Len(s)] = y
  /\ \A d \in 1 .. Len(s) - 1 : Calls(t)[d] = Calls(s)[d]

(* Numbering the calls from the outmost.                                   *)
LEMMA CallsFacts ==
  ASSUME NEW s \in Seq(Call)
  PROVE  /\ Len(s) \in Nat
         /\ \A d \in 1 .. Len(s) : Calls(s)[d] = s[Len(s) + 1 - d] /\ Calls(s)[d] \in Call
         /\ s # <<>> => /\ Len(s) >= 1
                        /\ Head(s) = Calls(s)[Len(s)]
                        /\ Head(s) \in Call
BY DEF Calls

(* What throw and a returning native leave of the stack.                   *)
LEMMA CutStack ==
  ASSUME NEW s \in Seq(Call), NEW i \in 1 .. Len(s), NEW x \in Call
  PROVE  CutTo(s, <<x>> \o SubSeq(s, i + 1, Len(s)), Len(s) + 1 - i, x)
<1> DEFINE u == SubSeq(s, i + 1, Len(s))
           t == <<x>> \o u
           n == Len(s) + 1 - i
<1>1. /\ u \in Seq(Call)
      /\ Len(u) = Len(s) - i
      /\ \A k \in 1 .. Len(s) - i : u[k] = s[i + k]
  OBVIOUS
<1>2. /\ t \in Seq(Call)
      /\ Len(t) = n
      /\ t[1] = x
      /\ \A k \in 1 .. Len(s) - i : t[k + 1] = s[i + k]
  <2>1. <<x>> \in Seq(Call) /\ Len(<<x>>) = 1 /\ Len(s) \in Nat
    OBVIOUS
  <2> HIDE DEF u
  <2> QED BY <1>1, <2>1
<1>3. Len(s) \in Nat /\ n \in 1 .. Len(s)
  OBVIOUS
<1> HIDE DEF t
<1>4. Calls(t)[n] = x
  BY <1>2, <1>3 DEF Calls
<1>5. ASSUME NEW d \in 1 .. n - 1
      PROVE  Calls(t)[d] = Calls(s)[d]
  <2>1. Calls(t)[d] = t[n + 1 - d] /\ n - d \in 1 .. Len(s) - i
    BY <1>2, <1>3 DEF Calls
  <2>2. t[(n - d) + 1] = s[i + (n - d)]
    BY <1>2, <2>1
  <2>3. n + 1 - d = (n - d) + 1 /\ i + (n - d) = Len(s) + 1 - d /\ d \in 1 .. Len(s)
    BY <1>3
  <2> HIDE DEF n
  <2>4. Calls(t)[d] = s[Len(s) + 1 - d]
    BY <2>1, <2>2, <2>3
  <2> QED BY <2>3, <2>4 DEF Calls
<1>6. CutTo(s, t, n, x)
  BY <1>2, <1>4, <1>5 DEF CutTo
<1> QED BY <1>6 DEF t

(* The innermost call goes on as another one.                              *)
LEMMA ReplaceTop ==
  ASSUME NEW s \in Seq(Call), s # <<>>, NEW x \in Call
  PROVE  CutTo(s, <<x>> \o Tail(s), Len(s), x)
<1>1. Tail(s) = SubSeq(s, 1 + 1, Len(s)) /\ 1 \in 1 .. Len(s) /\ Len(s) + 1 - 1 = Len(s)
  OBVIOUS
<1> QED BY <1>1, CutStack

(* The innermost call goes on as another one and makes a call.             *)
LEMMA PushCall ==
  ASSUME NEW s \in Seq(Call), s # <<>>, NEW x \in Call, NEW y \in Call
  PROVE  PushedOn(s, <<x, y>> \o Tail(s), x, y)
<1> DEFINE t == <<x, y>> \o Tail(s)
<1>1. /\ Tail(s) \in Seq(Call)
      /\ Len(s) \in Nat /\ Len(s) >= 1
      /\ Len(Tail(s)) = Len(s) - 1
      /\ \A k \in 1 .. Len(s) - 1 : Tail(s)[k] = s[k + 1]
  OBVIOUS
<1>2. /\ t \in Seq(Call)
      /\ Len(t) = Len(s) + 1
      /\ t[1] = x /\ t[2] = y
      /\ \A k \in 1 .. Len(s) - 1 : t[k + 2] = s[k + 1]
  <2>1. <<x, y>> \in Seq(Call) /\ Len(<<x, y>>) = 2
    OBVIOUS
  <2> QED BY <1>1, <2>1
<1> HIDE DEF t
<1>3. Calls(t)[Len(s) + 1] = x /\ Calls(t)[Len(s)] = y
  BY <1>1, <1>2 DEF Calls
<1>4. ASSUME NEW d \in 1 .. Len(s) - 1
      PROVE  Calls(t)[d] = Calls(s)[d]
  <2>1. Calls(t)[d] = t[Len(s) + 2 - d] /\ Len(s) - d \in 1 .. Len(s) - 1
    BY <1>1, <1>2 DEF Calls
  <2>2. t[(Len(s) - d) + 2] = s[(Len(s) - d) + 1]
    BY <1>2, <2>1
  <2>3. Len(s) + 2 - d = (Len(s) - d) + 2 /\ (Len(s) - d) + 1 = Len(s) + 1 - d
    BY <1>1
  <2> QED BY <2>1, <2>2, <2>3 DEF Calls
<1>5. PushedOn(s, t, x, y)
  BY <1>2, <1>3, <1>4 DEF PushedOn
<1> QED BY <1>5 DEF t

(* The innermost call returns.                                             *)
LEMMA PopCall ==
  ASSUME NEW s \in Seq(Call), s # <<>>
  PROVE  /\ Tail(s) \in Seq(Call)
         /\ Len(Tail(s)) = Len(s) - 1
         /\ \A d \in 1 .. Len(s) - 1 : Calls(Tail(s))[d] = Calls(s)[d]
<1>1. /\ Tail(s) \in Seq(Call)
      /\ Len(s) \in Nat /\ Len(s) >= 1
      /\ Len(Tail(s)) = Len(s) - 1
      /\ \A k \in 1 .. Len(s) - 1 : Tail(s)[k] = s[k + 1]
  OBVIOUS
<1>2. ASSUME NEW d \in 1 .. Len(s) - 1
      PROVE  Calls(Tail(s))[d] = Calls(s)[d]
  <2>1. Calls(Tail(s))[d] = Tail(s)[Len(s) - d] /\ Len(s) - d \in 1 .. Len(s) - 1
    BY <1>1 DEF Calls
  <2>2. Tail(s)[Len(s) - d] = s[(Len(s) - d) + 1]
    BY <1>1, <2>1
  <2>3. (Len(s) - d) + 1 = Len(s) + 1 - d
    BY <1>1
  <2> QED BY <2>1, <2>2, <2>3 DEF Calls
<1> QED BY <1>1, <1>2

(***************************************************************************)
(* Contexts                                                                *)
(***************************************************************************)
Context ==
  [kind : {"method", "block", "native"}, code : Codes \union Selectors,
   messenger : Nat, origin : Nat, ip : Nat \ {0}, done : BOOLEAN,
   called : SUBSET {"break", "continue"}, traps : SUBSET {"break", "continue"},
   here : Nat, locals : [Names -> Nat] \union Seq(Nat)]

IsBlock(cx, c) == c \in 1 .. Len(cx) /\ cx[c].kind = "block"

(* A method's variables hold blocks or nothing, a block was made by a      *)
(* method or block that is older, and a native has blocks for arguments.   *)
ContextOK(cx, c) ==
  /\ cx[c].messenger \in 0 .. Len(cx)
  /\ cx[c].here \in 0 .. Len(cx)
  /\ cx[c].kind # "block" => cx[c].origin = Null
  /\ cx[c].kind = "method" =>
       /\ cx[c].code \in Methods
       /\ cx[c].locals \in [Names -> Nat]
       /\ \A x \in Names : cx[c].locals[x] = Null \/ IsBlock(cx, cx[c].locals[x])
  /\ cx[c].kind = "block" =>
       /\ cx[c].code \in Blocks
       /\ cx[c].origin \in 1 .. c - 1
       /\ cx[cx[c].origin].kind # "native"
  /\ cx[c].kind = "native" =>
       /\ cx[c].code \in Selectors
       /\ cx[c].locals \in [1 .. Takes(cx[c].code) -> Nat]
       /\ \A k \in 1 .. Takes(cx[c].code) : IsBlock(cx, cx[c].locals[k])

ContextsOK(cx) ==
  /\ cx \in Seq(Context)
  /\ Len(cx) >= 1
  /\ cx[1].kind = "method"
  /\ \A c \in 1 .. Len(cx) : ContextOK(cx, c)

(* What no step changes of a context.                                      *)
Kept(cx, cx2) ==
  /\ Len(cx) <= Len(cx2)
  /\ \A c \in 1 .. Len(cx) :
       /\ cx2[c].kind = cx[c].kind
       /\ cx2[c].code = cx[c].code
       /\ cx2[c].origin = cx[c].origin
       /\ cx[c].kind = "native" => cx2[c].locals = cx[c].locals

(* What the provers need of one context.                                   *)
LEMMA ContextFacts ==
  ASSUME NEW cx, ContextsOK(cx), NEW c \in 1 .. Len(cx)
  PROVE  /\ Len(cx) \in Nat /\ DOMAIN cx = 1 .. Len(cx)
         /\ c \in Nat /\ c # Null
         /\ cx[c] \in Context
         /\ cx[c].kind \in {"method", "block", "native"}
         /\ ContextOK(cx, c)
<1>1. cx \in Seq(Context) /\ ContextOK(cx, c) /\ Len(cx) \in Nat
  BY DEF ContextsOK
<1>2. cx[c] \in Context /\ DOMAIN cx = 1 .. Len(cx) /\ c \in Nat /\ c # Null
  BY <1>1 DEF Null
<1>3. cx[c].kind \in {"method", "block", "native"}
  BY ONLY <1>2 DEF Context
<1> QED BY ONLY <1>1, <1>2, <1>3

(***************************************************************************)
(* The method of a block                                                   *)
(***************************************************************************)
IsRoots(cx, root) ==
  root = [d \in DOMAIN cx |->
            IF cx[d].kind = "block" THEN root[cx[d].origin] ELSE d]

RootsOf(cx) == CHOOSE root : IsRoots(cx, root)

(* Root is well defined, since blocks are younger than their origins.      *)
LEMMA RootsExist ==
  ASSUME NEW cx, ContextsOK(cx)
  PROVE  IsRoots(cx, RootsOf(cx))
<1> DEFINE N == Len(cx)
           down == [n \in 1 .. N |-> IF cx[n].kind = "block" THEN cx[n].origin ELSE 0]
           step == [n \in 1 .. N |-> [v \in Nat |-> IF cx[n].kind = "block" THEN v ELSE n]]
<1>1. N \in Nat /\ DOMAIN cx = 1 .. N
  BY DEF ContextsOK
<1>2. \A n \in 1 .. N : cx[n].kind = "block" => cx[n].origin \in 1 .. n - 1
  BY DEF ContextsOK, ContextOK
<1>3. down \in [1 .. N -> Nat] /\ \A n \in 1 .. N : down[n] < n
  BY <1>1, <1>2
<1>4. step \in [1 .. N -> [Nat -> Nat]]
  BY <1>1
<1>5. \A n \in 1 .. N : \A v \in Nat : step[n][v] = IF cx[n].kind = "block" THEN v ELSE n
  BY <1>1
<1>6. \A n \in 1 .. N : cx[n].kind = "block" => down[n] = cx[n].origin
  BY <1>1
<1> HIDE DEF down, step
<1>7. PICK f \in [0 .. N -> Nat] : Computes(f, N, 0, down, step)
  BY <1>1, <1>3, <1>4, ChainRecursion
<1> DEFINE root == [d \in 1 .. N |-> f[d]]
<1>8. ASSUME NEW d \in 1 .. N
      PROVE  f[d] = IF cx[d].kind = "block" THEN root[cx[d].origin] ELSE d
  <2>1. down[d] \in 0 .. N /\ f[down[d]] \in Nat
    BY <1>1, <1>3, <1>7
  <2>2. f[d] = step[d][f[down[d]]]
    BY <1>7 DEF Computes
  <2>3. f[d] = IF cx[d].kind = "block" THEN f[down[d]] ELSE d
    BY <1>5, <2>1, <2>2
  <2> QED BY <1>1, <1>2, <1>6, <2>3
<1>9. IsRoots(cx, root)
  BY <1>1, <1>8 DEF IsRoots
<1> QED BY <1>9 DEF RootsOf

(* The root of a method or block is a method.                              *)
LEMMA RootsAreMethods ==
  ASSUME NEW cx, ContextsOK(cx), NEW c \in 1 .. Len(cx)
  PROVE  /\ cx[c].kind # "block" => RootsOf(cx)[c] = c
         /\ cx[c].kind = "block" => RootsOf(cx)[c] = RootsOf(cx)[cx[c].origin]
         /\ RootsOf(cx)[c] \in 1 .. Len(cx)
         /\ cx[c].kind # "native" => cx[RootsOf(cx)[c]].kind = "method"
<1> DEFINE r == RootsOf(cx)
           Fails == {d \in 1 .. Len(cx) : ~ (r[d] \in 1 .. Len(cx) /\ (cx[d].kind # "native" => cx[r[d]].kind = "method"))}
<1>1. Len(cx) \in Nat /\ DOMAIN cx = 1 .. Len(cx)
  BY DEF ContextsOK
<1>2. \A d \in 1 .. Len(cx) : r[d] = IF cx[d].kind = "block" THEN r[cx[d].origin] ELSE d
  BY <1>1, RootsExist DEF IsRoots
<1>3. \A d \in 1 .. Len(cx) : /\ cx[d].kind = "block" => /\ cx[d].origin \in 1 .. d - 1
                                                         /\ cx[cx[d].origin].kind # "native"
                              /\ cx[d].kind \in {"method", "block", "native"}
  BY ContextFacts DEF ContextOK
<1> HIDE DEF r
<1>4. Fails = {}
  <2>1. SUFFICES ASSUME Fails # {}
                 PROVE  FALSE
    OBVIOUS
  <2>2. Fails \in SUBSET Nat
    BY <1>1
  <2>3. PICK d \in Fails : \A e \in Fails : d <= e
    <3> HIDE DEF Fails
    <3> QED BY <2>1, <2>2, LeastNat
  <2>4. d \in 1 .. Len(cx) /\ d \in Nat
    BY <1>1, <2>3
  <2>5. CASE cx[d].kind = "block"
    <3>1. cx[d].origin \in 1 .. Len(cx) /\ cx[d].origin \notin Fails
      BY <1>1, <1>3, <2>3, <2>4, <2>5
    <3> QED BY <1>2, <1>3, <2>3, <2>4, <2>5, <3>1
  <2>6. CASE cx[d].kind # "block"
    BY <1>2, <1>3, <2>3, <2>4, <2>6
  <2> QED BY <2>5, <2>6
<1>5. c \notin Fails
  BY <1>4
<1> QED BY <1>2, <1>5 DEF r

(* Steps keep the roots of the contexts there were.                        *)
LEMMA RootsKept ==
  ASSUME NEW cx, NEW cx2, ContextsOK(cx), ContextsOK(cx2), Kept(cx, cx2),
         NEW c \in 1 .. Len(cx)
  PROVE  RootsOf(cx2)[c] = RootsOf(cx)[c]
<1> DEFINE r == RootsOf(cx)
           r2 == RootsOf(cx2)
           Fails == {d \in 1 .. Len(cx) : r2[d] # r[d]}
<1>1. Len(cx) \in Nat /\ Len(cx2) \in Nat /\ Len(cx) <= Len(cx2)
  BY DEF ContextsOK, Kept
<1>2. \A d \in 1 .. Len(cx) : r[d] = IF cx[d].kind = "block" THEN r[cx[d].origin] ELSE d
  BY RootsExist DEF IsRoots, ContextsOK
<1>3. \A d \in 1 .. Len(cx2) : r2[d] = IF cx2[d].kind = "block" THEN r2[cx2[d].origin] ELSE d
  BY RootsExist DEF IsRoots, ContextsOK
<1>4. \A d \in 1 .. Len(cx) : cx[d].kind = "block" => cx[d].origin \in 1 .. d - 1
  BY DEF ContextsOK, ContextOK
<1>5. \A d \in 1 .. Len(cx) : cx2[d].kind = cx[d].kind /\ cx2[d].origin = cx[d].origin
  BY DEF Kept
<1> HIDE DEF r, r2
<1>6. Fails = {}
  <2>1. SUFFICES ASSUME Fails # {}
                 PROVE  FALSE
    OBVIOUS
  <2>2. Fails \in SUBSET Nat
    BY <1>1
  <2>3. PICK d \in Fails : \A e \in Fails : d <= e
    <3> HIDE DEF Fails
    <3> QED BY <2>1, <2>2, LeastNat
  <2>4. d \in 1 .. Len(cx) /\ d \in 1 .. Len(cx2) /\ r2[d] # r[d]
    BY <1>1, <2>3
  <2>5. cx[d].kind = "block" => cx[d].origin \in 1 .. Len(cx) /\ cx[d].origin \notin Fails
    BY <1>1, <1>4, <2>3, <2>4
  <2> QED BY <1>2, <1>3, <1>5, <2>4, <2>5
<1> QED BY <1>6 DEF r, r2

(***************************************************************************)
(* The shape of the C++ stack                                              *)
(***************************************************************************)
Runs == {"ran", "try", "catching"}

(* An interpreter and a native by themselves.  A native that has run a     *)
(* block with items left counts them down.                                 *)
InterpretOK(cx, x) ==
  /\ x.phase \in {"fetch", "check", "call"}
  /\ x.ip # 0
  /\ x.phase = "fetch" => cx[x.ctx].kind # "native"

NativeOK(cx, x) ==
  /\ cx[x.ctx].kind = "native"
  /\ x.phase \in Runs \union {"enter", "caught", "last"}
  /\ x.phase \in {"try", "caught", "catching"} => cx[x.ctx].code \in {"try", "tryCatch"}
  /\ x.phase = "catching" => cx[x.ctx].code = "tryCatch"
  /\ x.phase = "enter" /\ cx[x.ctx].code # "execute" => x.left = Items
  /\ x.phase = "ran" /\ cx[x.ctx].code \in {"forEach", "forEachText"} => x.left # 0

CallOK(cx, x) ==
  /\ x \in Call
  /\ x.ctx \in 1 .. Len(cx)
  /\ x.fn = "interpret" => InterpretOK(cx, x)
  /\ x.fn = "native" => NativeOK(cx, x)

(* Among its neighbours: an interpreter, but for the outmost, was called   *)
(* by a native that waits for it, a native by the interpreter in whose     *)
(* context it is or by a native that has nothing else to do.               *)
NestedOK(cl, n, d) ==
  /\ cl[d].fn = "interpret" =>
       /\ cl[d].phase = "call" <=> d < n
       /\ d > 1 => cl[d - 1].fn = "native"
  /\ cl[d].fn = "native" =>
       /\ d > 1
       /\ cl[d - 1].fn = "interpret" => cl[d - 1].ctx = cl[d].ctx
       /\ cl[d - 1].fn = "native" => cl[d - 1].phase = "last"
       /\ d < n => /\ cl[d].phase \in Runs \union {"last"}
                   /\ cl[d + 1].fn = "interpret" <=> cl[d].phase \in Runs

ShapeOK(cx, cl, n) == \A d \in 1 .. n : CallOK(cx, cl[d]) /\ NestedOK(cl, n, d)

(* A call is as good in contexts that were kept.                           *)
LEMMA CallKept ==
  ASSUME NEW cx, NEW cx2, ContextsOK(cx), ContextsOK(cx2), Kept(cx, cx2),
         NEW x, CallOK(cx, x)
  PROVE  CallOK(cx2, x)
<1>1. Len(cx) \in Nat /\ Len(cx2) \in Nat /\ Len(cx) <= Len(cx2) /\ x.ctx \in 1 .. Len(cx)
  BY DEF ContextsOK, Kept, CallOK
<1>2. cx2[x.ctx].kind = cx[x.ctx].kind /\ cx2[x.ctx].code = cx[x.ctx].code
  BY <1>1 DEF Kept
<1> QED BY <1>1, <1>2 DEF CallOK, InterpretOK, NativeOK

(* Calls whose neighbours stay have their place.                           *)
LEMMA BelowStays ==
  ASSUME NEW cx, NEW cl, NEW n \in Nat, ShapeOK(cx, cl, n),
         NEW cl2, NEW n2 \in Nat, NEW e \in Nat, e <= n, e <= n2,
         \A d \in 1 .. e - 1 : cl2[d] = cl[d],
         cl2[e].fn = cl[e].fn,
         NEW d \in 1 .. e - 1
  PROVE  NestedOK(cl2, n2, d)
<1>1. NestedOK(cl, n, d) /\ d \in 1 .. n
  BY DEF ShapeOK
<1>2. cl2[d] = cl[d] /\ cl2[d + 1].fn = cl[d + 1].fn /\ (d > 1 => cl2[d - 1] = cl[d - 1])
  OBVIOUS
<1>3. d < n /\ d < n2
  OBVIOUS
<1> QED BY <1>1, <1>2, <1>3 DEF NestedOK

(* Calls that end, and a change of the one that is then the innermost.     *)
LEMMA CutShape ==
  ASSUME NEW cx, NEW cx2, ContextsOK(cx), ContextsOK(cx2), Kept(cx, cx2),
         NEW cl, NEW n \in Nat, ShapeOK(cx, cl, n),
         NEW cl2, NEW e \in 0 .. n,
         \A d \in 1 .. e - 1 : cl2[d] = cl[d],
         e > 0 => /\ cl2[e].fn = cl[e].fn
                  /\ CallOK(cx2, cl2[e])
                  /\ cl2[e].fn = "interpret" => cl2[e].phase # "call"
                  /\ cl2[e].fn = "native" => cl2[e].ctx = cl[e].ctx
  PROVE  ShapeOK(cx2, cl2, e)
<1> SUFFICES ASSUME NEW d \in 1 .. e
             PROVE  CallOK(cx2, cl2[d]) /\ NestedOK(cl2, e, d)
  BY DEF ShapeOK
<1>1. CASE d < e
  <2>1. d \in 1 .. e - 1 /\ d \in 1 .. n /\ cl2[d] = cl[d] /\ e <= n /\ e <= e
        /\ cl2[e].fn = cl[e].fn
    BY <1>1
  <2>2. CallOK(cx, cl[d])
    BY <2>1 DEF ShapeOK
  <2>3. CallOK(cx2, cl2[d])
    BY <2>1, <2>2, CallKept
  <2>4. NestedOK(cl2, e, d)
    BY <2>1, BelowStays
  <2> QED BY <2>3, <2>4
<1>2. CASE d = e
  <2>1. NestedOK(cl, n, e) /\ e > 0 /\ e \in 1 .. n
    BY <1>2 DEF ShapeOK
  <2>2. e > 1 => cl2[e - 1] = cl[e - 1]
    BY <2>1
  <2>3. NestedOK(cl2, e, e)
    BY <2>1, <2>2 DEF NestedOK
  <2> QED BY <1>2, <2>1, <2>3
<1> QED BY <1>1, <1>2

(* A call more, and a change of the one it is made from.                   *)
LEMMA PushShape ==
  ASSUME NEW cx, NEW cx2, ContextsOK(cx), ContextsOK(cx2), Kept(cx, cx2),
         NEW cl, NEW n \in Nat, ShapeOK(cx, cl, n), n > 0,
         NEW cl2,
         \A d \in 1 .. n - 1 : cl2[d] = cl[d],
         cl2[n].fn = cl[n].fn,
         CallOK(cx2, cl2[n]), CallOK(cx2, cl2[n + 1]),
         cl2[n].fn = "native" => cl2[n].ctx = cl[n].ctx,
         \/ /\ cl2[n + 1].fn = "interpret" /\ cl2[n + 1].phase # "call"
            /\ cl2[n].fn = "native" /\ cl2[n].phase \in Runs
         \/ /\ cl2[n + 1].fn = "native" /\ cl2[n].fn = "interpret"
            /\ cl2[n].phase = "call" /\ cl2[n].ctx = cl2[n + 1].ctx
         \/ /\ cl2[n + 1].fn = "native" /\ cl2[n].fn = "native"
            /\ cl2[n].phase = "last"
  PROVE  ShapeOK(cx2, cl2, n + 1)
<1> SUFFICES ASSUME NEW d \in 1 .. n + 1
             PROVE  CallOK(cx2, cl2[d]) /\ NestedOK(cl2, n + 1, d)
  BY DEF ShapeOK
<1>1. CASE d < n
  <2>1. d \in 1 .. n - 1 /\ d \in 1 .. n /\ cl2[d] = cl[d] /\ n <= n /\ n <= n + 1
        /\ n + 1 \in Nat
    BY <1>1
  <2>2. CallOK(cx, cl[d])
    BY <2>1 DEF ShapeOK
  <2>3. CallOK(cx2, cl2[d])
    BY <2>1, <2>2, CallKept
  <2>4. NestedOK(cl2, n + 1, d)
    BY <2>1, BelowStays
  <2> QED BY <2>3, <2>4
<1>2. CASE d = n
  <2>1. NestedOK(cl, n, n)
    BY <1>2 DEF ShapeOK
  <2>2. n > 1 => cl2[n - 1] = cl[n - 1]
    OBVIOUS
  <2>3. "interpret" # "native" /\ "last" \notin Runs
    BY DEF Runs
  <2>4. NestedOK(cl2, n + 1, n)
    BY <2>1, <2>2, <2>3 DEF NestedOK
  <2> QED BY <1>2, <2>4
<1>3. CASE d = n + 1
  <2>1. (n + 1) - 1 = n /\ n + 1 > 1 /\ ~(n + 1 < n + 1)
    OBVIOUS
  <2>2. NestedOK(cl2, n + 1, n + 1)
    BY <2>1 DEF NestedOK
  <2> QED BY <1>3, <2>2
<1> QED BY <1>1, <1>2, <1>3

(***************************************************************************)
(* The chains of messengers                                                *)
(***************************************************************************)

(* The block a call of a native runs, and the context an interpreter       *)
(* begins with.                                                            *)
RunByIn(cx, x) == cx[x.ctx].locals[IF x.phase = "catching" THEN 2 ELSE 1]
Base(cx, cl, d) == IF d = 1 THEN 1 ELSE RunByIn(cx, cl[d - 1])

(* f[c] is the interpreter that c is in, 0 for none.  Its contexts are a   *)
(* growing chain of messengers, from the one it began with to the one it   *)
(* is in; only that may be a native's.                                     *)
Member(cx, cl, f, c) ==
  /\ cl[f[c]].fn = "interpret"
  /\ c <= cl[f[c]].ctx
  /\ cx[c].kind = "native" => c = cl[f[c]].ctx
  /\ c # Base(cx, cl, f[c]) =>
       /\ cx[c].kind # "block"
       /\ cx[c].messenger \in 1 .. c - 1
       /\ f[cx[c].messenger] = f[c]
       /\ \A x \in 1 .. Len(cx) : f[x] = f[c] => x <= cx[c].messenger \/ x >= c

Framed(cx, cl, n, f) ==
  /\ f \in [1 .. Len(cx) -> 0 .. n]
  /\ \A c \in 1 .. Len(cx) : f[c] # 0 => Member(cx, cl, f, c)
  /\ \A d \in 1 .. n : cl[d].fn = "interpret" =>
       f[cl[d].ctx] = d /\ f[Base(cx, cl, d)] = d

(* Every native takes a block.                                             *)
LEMMA TakesOne ==
  ASSUME NEW s
  PROVE  /\ Takes(s) \in Nat /\ Takes(s) >= 1
         /\ s = "tryCatch" => Takes(s) = 2
         /\ s = "execute" => Takes(s) = 1
BY DEF Takes

(* What a native runs is one of its arguments, and a block.                *)
LEMMA RunByFacts ==
  ASSUME NEW cx, ContextsOK(cx), NEW x, CallOK(cx, x), x.fn = "native"
  PROVE  /\ cx[x.ctx].kind = "native"
         /\ IsBlock(cx, RunByIn(cx, x))
         /\ \E k \in 1 .. Takes(cx[x.ctx].code) : RunByIn(cx, x) = cx[x.ctx].locals[k]
<1>1. x.ctx \in 1 .. Len(cx) /\ cx[x.ctx].kind = "native" /\ ContextOK(cx, x.ctx)
  BY ContextFacts DEF CallOK, NativeOK
<1> DEFINE k == IF x.phase = "catching" THEN 2 ELSE 1
<1>2. k \in 1 .. Takes(cx[x.ctx].code)
  BY TakesOne DEF CallOK, NativeOK
<1>3. IsBlock(cx, cx[x.ctx].locals[k])
  BY <1>1, <1>2 DEF ContextOK
<1> QED BY <1>1, <1>2, <1>3 DEF RunByIn

(* A native's arguments do not change, so neither does what it runs.       *)
LEMMA RunByKept ==
  ASSUME NEW cx, NEW cx2, ContextsOK(cx), Kept(cx, cx2),
         NEW x, CallOK(cx, x), x.fn = "native"
  PROVE  RunByIn(cx2, x) = RunByIn(cx, x)
<1>1. x.ctx \in 1 .. Len(cx) /\ cx[x.ctx].kind = "native"
  BY DEF CallOK, NativeOK
<1> QED BY <1>1 DEF RunByIn, Kept

(* An interpreter begins with main or with a block.                        *)
LEMMA BaseFacts ==
  ASSUME NEW cx, ContextsOK(cx), NEW cl, NEW n \in Nat, ShapeOK(cx, cl, n),
         NEW d \in 1 .. n, cl[d].fn = "interpret"
  PROVE  /\ Base(cx, cl, d) \in 1 .. Len(cx)
         /\ d = 1 => Base(cx, cl, d) = 1
         /\ d > 1 => /\ cx[Base(cx, cl, d)].kind = "block"
                     /\ cl[d - 1].fn = "native"
                     /\ Base(cx, cl, d) = RunByIn(cx, cl[d - 1])
<1>1. CASE d = 1
  BY <1>1 DEF Base, ContextsOK
<1>2. CASE d > 1
  <2>1. cl[d - 1].fn = "native" /\ CallOK(cx, cl[d - 1])
    BY <1>2 DEF ShapeOK, NestedOK
  <2>2. IsBlock(cx, RunByIn(cx, cl[d - 1]))
    BY <2>1, RunByFacts
  <2> QED BY <1>2, <2>1, <2>2 DEF Base, IsBlock
<1> QED BY <1>1, <1>2

(* Where an interpreter begins does not change below the calls that stay.  *)
LEMMA BaseKept ==
  ASSUME NEW cx, NEW cx2, ContextsOK(cx), Kept(cx, cx2),
         NEW cl, NEW n \in Nat, ShapeOK(cx, cl, n), NEW cl2,
         NEW d \in 1 .. n, cl[d].fn = "interpret",
         d > 1 => cl2[d - 1] = cl[d - 1]
  PROVE  Base(cx2, cl2, d) = Base(cx, cl, d)
<1>1. CASE d = 1
  BY <1>1 DEF Base
<1>2. CASE d > 1
  <2>1. cl[d - 1].fn = "native" /\ CallOK(cx, cl[d - 1])
    BY <1>2 DEF ShapeOK, NestedOK
  <2>2. RunByIn(cx2, cl[d - 1]) = RunByIn(cx, cl[d - 1])
    BY <2>1, RunByKept
  <2> QED BY <1>2, <2>2 DEF Base
<1> QED BY <1>1, <1>2

(* A block in an interpreter is the one it began with.                     *)
LEMMA BlocksAreBases ==
  ASSUME NEW cx, ContextsOK(cx), NEW cl, NEW n \in Nat, ShapeOK(cx, cl, n),
         NEW f, Framed(cx, cl, n, f),
         NEW b \in 1 .. Len(cx), cx[b].kind = "block", f[b] # 0
  PROVE  f[b] \in 2 .. n /\ cl[f[b]].fn = "interpret" /\ b = Base(cx, cl, f[b])
<1>1. f[b] \in 1 .. n /\ Member(cx, cl, f, b)
  BY DEF Framed
<1>2. cl[f[b]].fn = "interpret" /\ b = Base(cx, cl, f[b])
  BY <1>1 DEF Member
<1>3. f[b] # 1
  BY <1>2 DEF Base, ContextsOK
<1> QED BY <1>1, <1>2, <1>3

(* Calls that end, and calls of natives.                                   *)
LEMMA CutFramed ==
  ASSUME NEW cx, NEW cx2, ContextsOK(cx), ContextsOK(cx2), Kept(cx, cx2),
         NEW cl, NEW n \in Nat, ShapeOK(cx, cl, n), NEW f, Framed(cx, cl, n, f),
         NEW cl2, NEW e \in 0 .. n, NEW n2 \in Nat, e <= n2,
         \A d \in 1 .. e - 1 : cl2[d] = cl[d],
         e > 0 => cl2[e].fn = cl[e].fn /\ cl2[e].ctx = cl[e].ctx,
         \A d \in e + 1 .. n2 : cl2[d].fn # "interpret",
         \A c \in 1 .. Len(cx) : f[c] \in 1 .. e => cx2[c].messenger = cx[c].messenger
  PROVE  \E g : Framed(cx2, cl2, n2, g)
<1> DEFINE g == [c \in 1 .. Len(cx2) |->
                   IF c \in 1 .. Len(cx) /\ f[c] <= e THEN f[c] ELSE 0]
<1>1. /\ Len(cx) \in Nat /\ Len(cx2) \in Nat /\ Len(cx) <= Len(cx2)
      /\ f \in [1 .. Len(cx) -> 0 .. n]
  BY DEF ContextsOK, Kept, Framed
<1>2. g \in [1 .. Len(cx2) -> 0 .. n2]
  BY <1>1
<1>3. \A c \in 1 .. Len(cx2) : g[c] # 0 => /\ c \in 1 .. Len(cx) /\ g[c] = f[c]
                                          /\ f[c] \in 1 .. e
  BY <1>1
<1>4. \A c \in 1 .. Len(cx) : f[c] \in 1 .. e => g[c] = f[c] /\ c \in 1 .. Len(cx2)
  BY <1>1
<1> HIDE DEF g
<1>5. \A d \in 1 .. e : /\ cl2[d].fn = cl[d].fn /\ cl2[d].ctx = cl[d].ctx
                        /\ d > 1 => cl2[d - 1] = cl[d - 1]
  <2> TAKE d \in 1 .. e
  <2>1. CASE d = e
    BY <2>1
  <2>2. CASE d < e
    BY <2>2
  <2> QED BY <2>1, <2>2
<1>6. \A d \in 1 .. e : cl[d].fn = "interpret" => Base(cx2, cl2, d) = Base(cx, cl, d)
  BY <1>5, BaseKept
<1>7. ASSUME NEW c \in 1 .. Len(cx2), g[c] # 0
      PROVE  Member(cx2, cl2, g, c)
  <2>1. c \in 1 .. Len(cx) /\ g[c] = f[c] /\ f[c] \in 1 .. e
    BY <1>3, <1>7
  <2>2. Member(cx, cl, f, c)
    BY <2>1 DEF Framed
  <2>3. /\ cl2[f[c]].fn = cl[f[c]].fn /\ cl2[f[c]].ctx = cl[f[c]].ctx
        /\ Base(cx2, cl2, f[c]) = Base(cx, cl, f[c])
    BY <1>5, <1>6, <2>1, <2>2 DEF Member
  <2>4. cx2[c].kind = cx[c].kind /\ cx2[c].messenger = cx[c].messenger
    BY <2>1 DEF Kept
  <2>5. ASSUME c # Base(cx, cl, f[c])
        PROVE  /\ cx[c].kind # "block"
               /\ cx[c].messenger \in 1 .. c - 1
               /\ g[cx[c].messenger] = f[c]
               /\ \A x \in 1 .. Len(cx2) : g[x] = f[c] => x <= cx[c].messenger \/ x >= c
    <3>1. /\ cx[c].kind # "block"
          /\ cx[c].messenger \in 1 .. c - 1
          /\ f[cx[c].messenger] = f[c]
          /\ \A x \in 1 .. Len(cx) : f[x] = f[c] => x <= cx[c].messenger \/ x >= c
      BY <2>2, <2>5 DEF Member
    <3>2. g[cx[c].messenger] = f[c]
      BY <1>1, <1>4, <2>1, <3>1
    <3>3. \A x \in 1 .. Len(cx2) : g[x] = f[c] => x \in 1 .. Len(cx) /\ f[x] = f[c]
      BY <1>3, <2>1
    <3> QED BY <3>1, <3>2, <3>3
  <2> QED BY <2>1, <2>2, <2>3, <2>4, <2>5 DEF Member
<1>8. ASSUME NEW d \in 1 .. n2, cl2[d].fn = "interpret"
      PROVE  g[cl2[d].ctx] = d /\ g[Base(cx2, cl2, d)] = d
  <2>1. d \in 1 .. e /\ d \in 1 .. n
    BY <1>8
  <2>2. cl2[d].ctx = cl[d].ctx /\ cl[d].fn = "interpret"
        /\ Base(cx2, cl2, d) = Base(cx, cl, d)
    BY <1>5, <1>6, <1>8, <2>1
  <2>3. f[cl[d].ctx] = d /\ f[Base(cx, cl, d)] = d
    BY <2>1, <2>2 DEF Framed
  <2>4. cl[d].ctx \in 1 .. Len(cx) /\ Base(cx, cl, d) \in 1 .. Len(cx)
    BY <2>1, <2>2, BaseFacts DEF ShapeOK, CallOK
  <2> QED BY <1>4, <2>1, <2>2, <2>3, <2>4
<1> QED BY <1>2, <1>7, <1>8 DEF Framed

(* Of natives that have begun: none is timesDo:, and none was given a      *)
(* block that an interpreter below began with.                             *)
GivenAt(cx, cl, d) ==
  /\ cx[cl[d].ctx].code # "timesDo"
  /\ \A k \in 1 .. Takes(cx[cl[d].ctx].code) : \A e \in 2 .. d - 1 :
       cl[e].fn = "interpret" => cx[cl[d].ctx].locals[k] # Base(cx, cl, e)

GivenOK(cx, cl, n) ==
  \A d \in 1 .. n : cl[d].fn = "native" /\ cl[d].phase # "enter" => GivenAt(cx, cl, d)

(* The messenger of a block that is run is the native that runs it.        *)
MessengersOK(cx, cl, n) ==
  /\ cx[1].messenger = Null
  /\ \A d \in 1 .. n : cl[d].fn = "native" /\ cl[d].phase \in Runs =>
       cx[RunByIn(cx, cl[d])].messenger \in {cl[d].ctx, Null}

(* What a native is given is in no interpreter and run by no native below. *)
LEMMA GivenIsFree ==
  ASSUME NEW cx, ContextsOK(cx), NEW cl, NEW n \in Nat, ShapeOK(cx, cl, n),
         NEW f, Framed(cx, cl, n, f), n > 0, cl[n].fn = "native",
         GivenAt(cx, cl, n), NEW k \in 1 .. Takes(cx[cl[n].ctx].code)
  PROVE  /\ IsBlock(cx, cx[cl[n].ctx].locals[k])
         /\ f[cx[cl[n].ctx].locals[k]] = 0
         /\ \A d \in 1 .. n - 1 : cl[d].fn = "native" /\ cl[d].phase \in Runs =>
              RunByIn(cx, cl[d]) # cx[cl[n].ctx].locals[k]
<1> DEFINE b == cx[cl[n].ctx].locals[k]
<1>1. cl[n].ctx \in 1 .. Len(cx) /\ cx[cl[n].ctx].kind = "native"
  BY DEF ShapeOK, CallOK, NativeOK
<1>2. IsBlock(cx, b)
  BY <1>1, ContextFacts DEF ContextOK
<1>3. \A e \in 2 .. n - 1 : cl[e].fn = "interpret" => b # Base(cx, cl, e)
  BY DEF GivenAt
<1>4. f[b] = 0
  <2>1. SUFFICES ASSUME f[b] # 0
                 PROVE  FALSE
    OBVIOUS
  <2>2. b \in 1 .. Len(cx) /\ cx[b].kind = "block"
    BY <1>2 DEF IsBlock
  <2> HIDE DEF b
  <2>3. f[b] \in 2 .. n /\ cl[f[b]].fn = "interpret" /\ b = Base(cx, cl, f[b])
    BY <2>1, <2>2, BlocksAreBases
  <2>4. f[b] # n
    BY <2>3
  <2>5. f[b] \in 2 .. n - 1
    BY <2>3, <2>4
  <2> QED BY <1>3, <2>3, <2>5
<1>5. ASSUME NEW d \in 1 .. n - 1, cl[d].fn = "native", cl[d].phase \in Runs
      PROVE  RunByIn(cx, cl[d]) # b
  <2>1. cl[d + 1].fn = "interpret" /\ d + 1 \in 1 .. n
    BY <1>5 DEF ShapeOK, NestedOK
  <2>2. d + 1 # n
    BY <2>1
  <2>3. d + 1 \in 2 .. n - 1 /\ Base(cx, cl, d + 1) = RunByIn(cx, cl[d])
    BY <2>1, <2>2 DEF Base
  <2> QED BY <1>3, <2>1, <2>3
<1> QED BY <1>2, <1>4, <1>5

(* Calls that stay were given what they were given.                        *)
LEMMA GivenUpto ==
  ASSUME NEW cx, NEW cx2, ContextsOK(cx), ContextsOK(cx2), Kept(cx, cx2),
         NEW cl, NEW n \in Nat, ShapeOK(cx, cl, n), GivenOK(cx, cl, n),
         NEW cl2, NEW e \in 0 .. n, NEW n2 \in Nat, e <= n2,
         \A d \in 1 .. e - 1 : cl2[d] = cl[d],
         e > 0 => /\ cl2[e].fn = cl[e].fn
                  /\ cl2[e].fn = "native" => cl2[e].ctx = cl[e].ctx
                  /\ cl2[e].fn = "native" /\ cl2[e].phase # "enter" => GivenAt(cx, cl, e),
         \A d \in e + 1 .. n2 : cl2[d].fn = "native" => cl2[d].phase = "enter"
  PROVE  GivenOK(cx2, cl2, n2)
<1> SUFFICES ASSUME NEW d \in 1 .. n2, cl2[d].fn = "native", cl2[d].phase # "enter"
             PROVE  GivenAt(cx2, cl2, d)
  BY DEF GivenOK
<1>1. d \in 1 .. e /\ d \in 1 .. n
  OBVIOUS
<1>2. cl[d].fn = "native" /\ cl2[d].ctx = cl[d].ctx /\ GivenAt(cx, cl, d)
  <2>1. CASE d = e
    BY <1>1, <2>1
  <2>2. CASE d < e
    BY <1>1, <2>2 DEF GivenOK
  <2> QED BY <1>1, <2>1, <2>2
<1>3. cl[d].ctx \in 1 .. Len(cx) /\ cx[cl[d].ctx].kind = "native"
  BY <1>1, <1>2 DEF ShapeOK, CallOK, NativeOK
<1>4. cx2[cl[d].ctx].code = cx[cl[d].ctx].code /\ cx2[cl[d].ctx].locals = cx[cl[d].ctx].locals
  BY <1>3 DEF Kept
<1>5. ASSUME NEW k \in 1 .. Takes(cx[cl[d].ctx].code), NEW i \in 2 .. d - 1,
             cl2[i].fn = "interpret"
      PROVE  cx[cl[d].ctx].locals[k] # Base(cx2, cl2, i)
  <2>1. i \in 1 .. n /\ cl2[i] = cl[i] /\ cl2[i - 1] = cl[i - 1]
    BY <1>1
  <2>2. Base(cx2, cl2, i) = Base(cx, cl, i)
    BY <1>5, <2>1, BaseKept
  <2> QED BY <1>2, <1>5, <2>1, <2>2 DEF GivenAt
<1> QED BY <1>2, <1>4, <1>5 DEF GivenAt

(* Calls that stay have the messengers they had.                           *)
LEMMA MessengersUpto ==
  ASSUME NEW cx, NEW cx2, ContextsOK(cx), ContextsOK(cx2), Kept(cx, cx2),
         NEW cl, NEW n \in Nat, ShapeOK(cx, cl, n), MessengersOK(cx, cl, n),
         NEW cl2, NEW e \in 0 .. n, NEW n2 \in Nat, e <= n2,
         cx2[1].messenger = Null,
         \A d \in 1 .. e - 1 : cl2[d] = cl[d],
         \A d \in 1 .. e - 1 : cl[d].fn = "native" /\ cl[d].phase \in Runs =>
           cx2[RunByIn(cx, cl[d])].messenger \in {cx[RunByIn(cx, cl[d])].messenger, Null},
         e > 0 => (cl2[e].fn = "native" /\ cl2[e].phase \in Runs =>
           cx2[RunByIn(cx2, cl2[e])].messenger \in {cl2[e].ctx, Null}),
         \A d \in e + 1 .. n2 : cl2[d].fn = "native" => cl2[d].phase \notin Runs
  PROVE  MessengersOK(cx2, cl2, n2)
<1> SUFFICES ASSUME NEW d \in 1 .. n2, cl2[d].fn = "native", cl2[d].phase \in Runs
             PROVE  cx2[RunByIn(cx2, cl2[d])].messenger \in {cl2[d].ctx, Null}
  BY DEF MessengersOK
<1>1. d \in 1 .. e
  OBVIOUS
<1>2. CASE d = e
  BY <1>1, <1>2
<1>3. CASE d < e
  <2>1. d \in 1 .. e - 1 /\ d \in 1 .. n /\ cl2[d] = cl[d]
    BY <1>1, <1>3
  <2>2. CallOK(cx, cl[d])
    BY <2>1 DEF ShapeOK
  <2>3. RunByIn(cx2, cl[d]) = RunByIn(cx, cl[d])
    BY <2>1, <2>2, RunByKept
  <2>4. cx[RunByIn(cx, cl[d])].messenger \in {cl[d].ctx, Null}
    BY <2>1 DEF MessengersOK
  <2>5. cx2[RunByIn(cx, cl[d])].messenger \in {cx[RunByIn(cx, cl[d])].messenger, Null}
    BY <2>1
  <2> QED BY <2>1, <2>3, <2>4, <2>5
<1> QED BY <1>1, <1>2, <1>3

(* The innermost interpreter goes into a context that was just made.       *)
LEMMA CallFramed ==
  ASSUME NEW cx, NEW cx2, ContextsOK(cx), ContextsOK(cx2), Kept(cx, cx2),
         NEW cl, NEW n \in Nat, ShapeOK(cx, cl, n), NEW f, Framed(cx, cl, n, f),
         n > 0, cl[n].fn = "interpret", cx[cl[n].ctx].kind # "native",
         Len(cx2) = Len(cx) + 1,
         \A c \in 1 .. Len(cx) : cx2[c].messenger = cx[c].messenger,
         cx2[Len(cx) + 1].messenger = cl[n].ctx, cx2[Len(cx) + 1].kind # "block",
         NEW cl2, NEW n2 \in {n, n + 1},
         \A d \in 1 .. n - 1 : cl2[d] = cl[d],
         cl2[n].fn = "interpret", cl2[n].ctx = Len(cx) + 1,
         n2 = n + 1 => cl2[n + 1].fn # "interpret"
  PROVE  \E g : Framed(cx2, cl2, n2, g)
<1> DEFINE h == Len(cx) + 1
           g == [c \in 1 .. h |-> IF c = h THEN n ELSE f[c]]
<1>1. /\ Len(cx) \in Nat /\ h \in Nat /\ h \notin 1 .. Len(cx)
      /\ \A c \in 1 .. Len(cx) : c < h /\ c \in 1 .. h
      /\ \A c \in 1 .. h : c # h => c \in 1 .. Len(cx)
      /\ f \in [1 .. Len(cx) -> 0 .. n]
  BY DEF ContextsOK, Framed
<1>2. g \in [1 .. h -> 0 .. n2]
  BY <1>1
<1>3. g[h] = n /\ \A c \in 1 .. Len(cx) : g[c] = f[c]
  BY <1>1
<1> HIDE DEF g
<1>4. \A d \in 1 .. n : cl[d].fn = "interpret" => Base(cx2, cl2, d) = Base(cx, cl, d)
  <2> TAKE d \in 1 .. n
  <2>1. d > 1 => cl2[d - 1] = cl[d - 1]
    OBVIOUS
  <2> QED BY <2>1, BaseKept
<1>5. cl[n].ctx \in 1 .. Len(cx) /\ f[cl[n].ctx] = n
  BY DEF ShapeOK, CallOK, Framed
<1>6. Base(cx, cl, n) \in 1 .. Len(cx) /\ f[Base(cx, cl, n)] = n
  BY BaseFacts DEF Framed
<1>7. \A x \in 1 .. Len(cx) : f[x] = n => x <= cl[n].ctx
  BY DEF Framed, Member
<1>8. ASSUME NEW c \in 1 .. h, g[c] # 0
      PROVE  Member(cx2, cl2, g, c)
  <2>1. CASE c = h
    <3>1. cx2[c].messenger \in 1 .. c - 1 /\ g[cx2[c].messenger] = n
      BY <1>1, <1>3, <1>5, <2>1
    <3>2. \A x \in 1 .. h : g[x] = n => x <= cx2[c].messenger \/ x >= c
      <4> TAKE x \in 1 .. h
      <4>1. CASE x = h
        BY <1>1, <2>1, <4>1
      <4>2. CASE x # h
        BY <1>1, <1>3, <1>7, <2>1, <4>2
      <4> QED BY <4>1, <4>2
    <3>3. g[c] = n /\ c <= cl2[n].ctx /\ c = cl2[n].ctx /\ cx2[c].kind # "block"
      BY <1>1, <1>3, <2>1
    <3> QED BY <3>1, <3>2, <3>3 DEF Member
  <2>2. CASE c # h
    <3>1. c \in 1 .. Len(cx) /\ g[c] = f[c] /\ f[c] \in 1 .. n /\ Member(cx, cl, f, c)
      <4>1. c \in 1 .. Len(cx) /\ g[c] = f[c] /\ f[c] # 0
        BY <1>1, <1>3, <1>8, <2>2
      <4>2. f[c] \in 1 .. n
        BY <1>1, <4>1
      <4> QED BY <4>1, <4>2 DEF Framed
    <3>2. /\ cx2[c].kind = cx[c].kind /\ cx2[c].messenger = cx[c].messenger
          /\ Base(cx2, cl2, f[c]) = Base(cx, cl, f[c])
      BY <1>4, <3>1 DEF Kept, Member
    <3>3. /\ cl2[f[c]].fn = "interpret"
          /\ c <= cl2[f[c]].ctx
          /\ cx[c].kind = "native" => c = cl2[f[c]].ctx
      <4>1. CASE f[c] = n
        BY <1>1, <3>1, <4>1 DEF Member
      <4>2. CASE f[c] # n
        <5>1. cl2[f[c]] = cl[f[c]]
          BY <3>1, <4>2
        <5> QED BY <3>1, <5>1 DEF Member
      <4> QED BY <4>1, <4>2
    <3>4. ASSUME c # Base(cx, cl, f[c])
          PROVE  /\ cx[c].kind # "block"
                 /\ cx[c].messenger \in 1 .. c - 1
                 /\ g[cx[c].messenger] = f[c]
                 /\ \A x \in 1 .. h : g[x] = f[c] => x <= cx[c].messenger \/ x >= c
      <4>1. /\ cx[c].kind # "block"
            /\ cx[c].messenger \in 1 .. c - 1
            /\ f[cx[c].messenger] = f[c]
            /\ \A x \in 1 .. Len(cx) : f[x] = f[c] => x <= cx[c].messenger \/ x >= c
        BY <3>1, <3>4 DEF Member
      <4>2. g[cx[c].messenger] = f[c]
        BY <1>1, <1>3, <3>1, <4>1
      <4>3. \A x \in 1 .. h : g[x] = f[c] => x = h \/ (x \in 1 .. Len(cx) /\ f[x] = f[c])
        BY <1>1, <1>3
      <4>4. h >= c
        BY <1>1, <3>1
      <4> QED BY <4>1, <4>2, <4>3, <4>4
    <3> QED BY <3>1, <3>2, <3>3, <3>4 DEF Member
  <2> QED BY <2>1, <2>2
<1>9. ASSUME NEW d \in 1 .. n2, cl2[d].fn = "interpret"
      PROVE  g[cl2[d].ctx] = d /\ g[Base(cx2, cl2, d)] = d
  <2>1. d \in 1 .. n
    BY <1>9
  <2>2. CASE d = n
    BY <1>1, <1>3, <1>4, <1>6, <2>1, <2>2
  <2>3. CASE d # n
    <3>1. cl2[d] = cl[d] /\ f[cl[d].ctx] = d /\ f[Base(cx, cl, d)] = d
      BY <1>9, <2>1, <2>3 DEF Framed
    <3>2. cl[d].ctx \in 1 .. Len(cx) /\ Base(cx, cl, d) \in 1 .. Len(cx)
      <4>1. ContextsOK(cx) /\ n \in Nat /\ ShapeOK(cx, cl, n) /\ cl[d].fn = "interpret"
        BY <1>9, <3>1
      <4>2. CallOK(cx, cl[d])
        BY ONLY <2>1, <4>1 DEF ShapeOK
      <4>3. Base(cx, cl, d) \in 1 .. Len(cx)
        BY ONLY <2>1, <4>1, BaseFacts
      <4> QED BY ONLY <4>2, <4>3 DEF CallOK
    <3> QED BY <1>3, <1>4, <1>9, <2>1, <3>1, <3>2
  <2> QED BY <2>2, <2>3
<1>10. 1 .. h = 1 .. Len(cx2)
  OBVIOUS
<1> QED BY <1>2, <1>8, <1>9, <1>10 DEF Framed

(* The innermost interpreter goes back to the messenger, which is in it.   *)
LEMMA BackStays ==
  ASSUME NEW cx, ContextsOK(cx), NEW cl, NEW n \in Nat, ShapeOK(cx, cl, n),
         NEW f, Framed(cx, cl, n, f), MessengersOK(cx, cl, n),
         n > 0, cl[n].fn = "interpret",
         cx[cl[n].ctx].messenger # Null,
         cx[cx[cl[n].ctx].messenger].kind # "native"
  PROVE  /\ cl[n].ctx # Base(cx, cl, n)
         /\ cx[cl[n].ctx].kind # "block"
         /\ cx[cl[n].ctx].messenger \in 1 .. cl[n].ctx - 1
         /\ f[cx[cl[n].ctx].messenger] = n
         /\ \A x \in 1 .. Len(cx) : f[x] = n =>
              x <= cx[cl[n].ctx].messenger \/ x = cl[n].ctx
<1>1. cl[n].ctx \in 1 .. Len(cx) /\ f[cl[n].ctx] = n
  BY DEF ShapeOK, CallOK, Framed
<1>2. cl[n].ctx # Base(cx, cl, n)
  <2>1. CASE n = 1
    BY <2>1 DEF Base, MessengersOK
  <2>2. CASE n > 1
    <3>1. /\ Base(cx, cl, n) = RunByIn(cx, cl[n - 1])
          /\ cl[n - 1].fn = "native" /\ n - 1 \in 1 .. n
      BY <2>2, BaseFacts
    <3>2. cl[n - 1].phase \in Runs
      <4>1. NestedOK(cl, n, n - 1) /\ (n - 1) + 1 = n /\ n - 1 < n
        BY <3>1 DEF ShapeOK
      <4> QED BY <3>1, <4>1 DEF NestedOK
    <3>3. cx[Base(cx, cl, n)].messenger \in {cl[n - 1].ctx, Null}
      BY <3>1, <3>2 DEF MessengersOK
    <3>4. cx[cl[n - 1].ctx].kind = "native"
      BY <3>1 DEF ShapeOK, CallOK, NativeOK
    <3> QED BY <3>3, <3>4
  <2> QED BY <2>1, <2>2
<1>3. Member(cx, cl, f, cl[n].ctx)
  BY <1>1 DEF Framed
<1>4. \A x \in 1 .. Len(cx) : f[x] = n => x <= cl[n].ctx
  BY DEF Framed, Member
<1>5. Len(cx) \in Nat
  BY DEF ContextsOK
<1>6. \A x \in 1 .. Len(cx) : f[x] = n => x <= cx[cl[n].ctx].messenger \/ x >= cl[n].ctx
  BY <1>1, <1>2, <1>3 DEF Member
<1> QED BY <1>1, <1>2, <1>3, <1>4, <1>5, <1>6 DEF Member

(* The chains when an interpreter goes back to its messenger, and its      *)
(* context leaves them.                                                    *)
LEMMA BackFramed ==
  ASSUME NEW cx, NEW cx2, ContextsOK(cx), ContextsOK(cx2), Kept(cx, cx2),
         NEW cl, NEW n \in Nat, ShapeOK(cx, cl, n), NEW f, Framed(cx, cl, n, f),
         MessengersOK(cx, cl, n),
         n > 0, cl[n].fn = "interpret",
         cx[cl[n].ctx].messenger # Null,
         cx[cx[cl[n].ctx].messenger].kind # "native",
         Len(cx2) = Len(cx),
         \A c \in 1 .. Len(cx) : c # cl[n].ctx => cx2[c].messenger = cx[c].messenger,
         NEW cl2,
         \A d \in 1 .. n - 1 : cl2[d] = cl[d],
         cl2[n].fn = "interpret", cl2[n].ctx = cx[cl[n].ctx].messenger
  PROVE  \E g : Framed(cx2, cl2, n, g)
<1> DEFINE h == cl[n].ctx
           m == cx[h].messenger
           g == [c \in 1 .. Len(cx) |-> IF c = h THEN 0 ELSE f[c]]
<1>1. /\ Len(cx) \in Nat /\ f \in [1 .. Len(cx) -> 0 .. n]
      /\ h \in 1 .. Len(cx) /\ f[h] = n
  BY DEF ContextsOK, Framed, ShapeOK, CallOK
<1>2. /\ h # Base(cx, cl, n)
      /\ m \in 1 .. h - 1
      /\ f[m] = n
      /\ \A x \in 1 .. Len(cx) : f[x] = n => x <= m \/ x = h
  BY BackStays
<1>3. g \in [1 .. Len(cx) -> 0 .. n]
  BY <1>1
<1>4. \A c \in 1 .. Len(cx) : g[c] = IF c = h THEN 0 ELSE f[c]
  OBVIOUS
<1>5. cl2[n].ctx = m
  OBVIOUS
<1> HIDE DEF g, m
<1>6. \A d \in 1 .. n : cl[d].fn = "interpret" => Base(cx2, cl2, d) = Base(cx, cl, d)
  <2> TAKE d \in 1 .. n
  <2>1. d > 1 => cl2[d - 1] = cl[d - 1]
    OBVIOUS
  <2> QED BY <2>1, BaseKept
<1>7. ASSUME NEW c \in 1 .. Len(cx), g[c] # 0
      PROVE  Member(cx2, cl2, g, c)
  <2>1. c # h /\ g[c] = f[c] /\ f[c] \in 1 .. n
    BY <1>1, <1>4, <1>7
  <2>2. Member(cx, cl, f, c)
    BY <2>1 DEF Framed
  <2>3. /\ cx2[c].kind = cx[c].kind /\ cx2[c].messenger = cx[c].messenger
        /\ Base(cx2, cl2, f[c]) = Base(cx, cl, f[c])
    BY <1>6, <2>1, <2>2 DEF Kept, Member
  <2>4. /\ cl2[f[c]].fn = "interpret"
        /\ c <= cl2[f[c]].ctx
        /\ cx[c].kind = "native" => c = cl2[f[c]].ctx
    <3>1. CASE f[c] = n
      BY <1>2, <1>5, <2>1, <2>2, <3>1 DEF Member
    <3>2. CASE f[c] # n
      <4>1. cl2[f[c]] = cl[f[c]]
        BY <2>1, <3>2
      <4> QED BY <2>2, <4>1 DEF Member
    <3> QED BY <3>1, <3>2
  <2>5. ASSUME c # Base(cx, cl, f[c])
        PROVE  /\ cx[c].kind # "block"
               /\ cx[c].messenger \in 1 .. c - 1
               /\ g[cx[c].messenger] = f[c]
               /\ \A x \in 1 .. Len(cx) : g[x] = f[c] => x <= cx[c].messenger \/ x >= c
    <3>1. /\ cx[c].kind # "block"
          /\ cx[c].messenger \in 1 .. c - 1
          /\ f[cx[c].messenger] = f[c]
          /\ \A x \in 1 .. Len(cx) : f[x] = f[c] => x <= cx[c].messenger \/ x >= c
      BY <2>2, <2>5 DEF Member
    <3>2. cx[c].messenger \in 1 .. Len(cx) /\ cx[c].messenger # h
      <4>1. cx[c].messenger \in 1 .. Len(cx) /\ cx[c].messenger < c
        BY <1>1, <3>1
      <4>2. CASE f[c] = n
        <5>1. c <= m /\ m < h
          BY <1>1, <1>2, <2>1, <4>2
        <5> QED BY <1>1, <1>2, <4>1, <5>1
      <4>3. CASE f[c] # n
        BY <1>1, <3>1, <4>1, <4>3
      <4> QED BY <4>2, <4>3
    <3>3. \A x \in 1 .. Len(cx) : g[x] = f[c] => f[x] = f[c]
      BY <1>4, <2>1
    <3> QED BY <1>4, <3>1, <3>2, <3>3
  <2> QED BY <2>1, <2>2, <2>3, <2>4, <2>5 DEF Member
<1>8. ASSUME NEW d \in 1 .. n, cl2[d].fn = "interpret"
      PROVE  g[cl2[d].ctx] = d /\ g[Base(cx2, cl2, d)] = d
  <2>1. CASE d = n
    <3>1. m \in 1 .. Len(cx) /\ m # h /\ g[m] = n
      BY <1>1, <1>2, <1>4
    <3>2. Base(cx, cl, n) \in 1 .. Len(cx) /\ f[Base(cx, cl, n)] = n
      BY BaseFacts DEF Framed
    <3> QED BY <1>2, <1>4, <1>5, <1>6, <2>1, <3>1, <3>2
  <2>2. CASE d # n
    <3>1. cl2[d] = cl[d] /\ f[cl[d].ctx] = d /\ f[Base(cx, cl, d)] = d
      BY <1>8, <2>2 DEF Framed
    <3>2. cl[d].ctx \in 1 .. Len(cx) /\ Base(cx, cl, d) \in 1 .. Len(cx)
      BY <1>8, <3>1, BaseFacts DEF ShapeOK, CallOK
    <3>3. cl[d].ctx # h /\ Base(cx, cl, d) # h
      BY <1>1, <2>2, <3>1
    <3> QED BY <1>4, <1>6, <1>8, <3>1, <3>2, <3>3
  <2> QED BY <2>1, <2>2
<1> QED BY <1>3, <1>7, <1>8 DEF Framed

(* The innermost call, a native's, runs the block b.                       *)
CallsBlock(cx, cl, n, cx2, cl2, n2, b) ==
  /\ n \in Nat /\ n > 0 /\ cl[n].fn = "native"
  /\ b \in 1 .. Len(cx) /\ cx[b].kind # "native" /\ Len(cx2) = Len(cx)
  /\ \A c \in 1 .. Len(cx) : c # b => cx2[c].messenger = cx[c].messenger
  /\ \A d \in 1 .. n - 1 : cl2[d] = cl[d]
  /\ cl2[n].fn = "native" /\ RunByIn(cx2, cl2[n]) = b
  /\ n2 = n + 1 /\ cl2[n2].fn = "interpret" /\ cl2[n2].ctx = b

(* A native calls an interpreter for a block that is in none.              *)
LEMMA RunFramed ==
  ASSUME NEW cx, NEW cx2, ContextsOK(cx), ContextsOK(cx2), Kept(cx, cx2),
         NEW cl, NEW n, ShapeOK(cx, cl, n), NEW f, Framed(cx, cl, n, f),
         NEW b, f[b] = 0, NEW cl2, NEW n2, CallsBlock(cx, cl, n, cx2, cl2, n2, b)
  PROVE  \E g : Framed(cx2, cl2, n2, g)
<1>0. /\ n \in Nat /\ n > 0 /\ cl[n].fn = "native"
      /\ b \in 1 .. Len(cx) /\ cx[b].kind # "native" /\ Len(cx2) = Len(cx)
      /\ \A c \in 1 .. Len(cx) : c # b => cx2[c].messenger = cx[c].messenger
      /\ \A d \in 1 .. n - 1 : cl2[d] = cl[d]
      /\ cl2[n].fn = "native" /\ RunByIn(cx2, cl2[n]) = b
      /\ n2 = n + 1 /\ cl2[n2].fn = "interpret" /\ cl2[n2].ctx = b
  BY DEF CallsBlock
<1> USE <1>0
<1> DEFINE g == [c \in 1 .. Len(cx) |-> IF c = b THEN n + 1 ELSE f[c]]
<1>1. /\ Len(cx) \in Nat /\ f \in [1 .. Len(cx) -> 0 .. n]
  BY DEF ContextsOK, Framed
<1>2. g \in [1 .. Len(cx) -> 0 .. n + 1]
  BY <1>1
<1>3. \A c \in 1 .. Len(cx) : g[c] = IF c = b THEN n + 1 ELSE f[c]
  OBVIOUS
<1> HIDE DEF g
<1>4. \A d \in 1 .. n : cl[d].fn = "interpret" => Base(cx2, cl2, d) = Base(cx, cl, d)
  <2> TAKE d \in 1 .. n
  <2>1. d > 1 => cl2[d - 1] = cl[d - 1]
    OBVIOUS
  <2> QED BY <2>1, BaseKept
<1>5. Base(cx2, cl2, n + 1) = b
  <2>1. n + 1 # 1 /\ (n + 1) - 1 = n
    OBVIOUS
  <2> QED BY <2>1 DEF Base
<1>6. ASSUME NEW c \in 1 .. Len(cx), g[c] # 0
      PROVE  Member(cx2, cl2, g, c)
  <2>1. CASE c = b
    <3>1. g[c] = n + 1 /\ cx2[c].kind # "native"
      BY <1>3, <2>1 DEF Kept
    <3> QED BY <1>5, <2>1, <3>1 DEF Member
  <2>2. CASE c # b
    <3>1. g[c] = f[c] /\ f[c] \in 1 .. n
      BY <1>1, <1>3, <1>6, <2>2
    <3>2. Member(cx, cl, f, c)
      BY <3>1 DEF Framed
    <3>3. /\ cx2[c].kind = cx[c].kind /\ cx2[c].messenger = cx[c].messenger
          /\ Base(cx2, cl2, f[c]) = Base(cx, cl, f[c])
      BY <1>4, <2>2, <3>1, <3>2 DEF Kept, Member
    <3>4. f[c] # n /\ cl2[f[c]] = cl[f[c]]
      BY <3>1, <3>2 DEF Member
    <3>5. ASSUME c # Base(cx, cl, f[c])
          PROVE  /\ cx[c].kind # "block"
                 /\ cx[c].messenger \in 1 .. c - 1
                 /\ g[cx[c].messenger] = f[c]
                 /\ \A x \in 1 .. Len(cx) : g[x] = f[c] => x <= cx[c].messenger \/ x >= c
      <4>1. /\ cx[c].kind # "block"
            /\ cx[c].messenger \in 1 .. c - 1
            /\ f[cx[c].messenger] = f[c]
            /\ \A x \in 1 .. Len(cx) : f[x] = f[c] => x <= cx[c].messenger \/ x >= c
        BY <3>2, <3>5 DEF Member
      <4>2. cx[c].messenger \in 1 .. Len(cx) /\ cx[c].messenger # b
        BY <1>1, <3>1, <4>1
      <4>3. \A x \in 1 .. Len(cx) : g[x] = f[c] => f[x] = f[c]
        BY <1>3, <3>1
      <4> QED BY <1>3, <4>1, <4>2, <4>3
    <3> QED BY <3>1, <3>2, <3>3, <3>4, <3>5 DEF Member
  <2> QED BY <2>1, <2>2
<1>7. ASSUME NEW d \in 1 .. n + 1, cl2[d].fn = "interpret"
      PROVE  g[cl2[d].ctx] = d /\ g[Base(cx2, cl2, d)] = d
  <2>1. CASE d = n + 1
    BY <1>3, <1>5, <2>1
  <2>2. CASE d # n + 1
    <3>1. d # n /\ d \in 1 .. n /\ d \in 1 .. n - 1
      BY <1>7, <2>2
    <3>2. cl2[d] = cl[d] /\ cl[d].fn = "interpret"
      BY <1>7, <3>1
    <3>3. cl2[d] = cl[d] /\ f[cl[d].ctx] = d /\ f[Base(cx, cl, d)] = d
      BY <3>1, <3>2 DEF Framed
    <3>4. cl[d].ctx \in 1 .. Len(cx) /\ Base(cx, cl, d) \in 1 .. Len(cx)
      BY <3>1, <3>2, BaseFacts DEF ShapeOK, CallOK
    <3>5. cl[d].ctx # b /\ Base(cx, cl, d) # b
      BY <3>1, <3>3
    <3> QED BY <1>3, <1>4, <1>7, <3>1, <3>3, <3>4, <3>5
  <2> QED BY <2>1, <2>2
<1>8. Framed(cx2, cl2, n + 1, g)
  <2>1. 1 .. Len(cx) = 1 .. Len(cx2)
    OBVIOUS
  <2> QED BY <1>2, <1>6, <1>7, <2>1, Zenon DEF Framed
<1> QED BY <1>8

(***************************************************************************)
(* The walk back                                                           *)
(***************************************************************************)
NativesIn(cx) == {c \in DOMAIN cx : cx[c].kind = "native"}

IsWalk(cx, c, walk) ==
  walk = [k \in 0 .. Len(cx) |->
            IF k = 0 THEN c
            ELSE LET b == walk[k - 1]
                 IN IF b = Null \/ b \in NativesIn(cx) THEN b ELSE cx[b].messenger]

WalkOf(cx, c) == CHOOSE walk : IsWalk(cx, c, walk)

(* WalkBack is well defined.                                               *)
LEMMA WalkExists ==
  ASSUME NEW cx, ContextsOK(cx), NEW c \in 0 .. Len(cx)
  PROVE  IsWalk(cx, c, WalkOf(cx, c))
<1> DEFINE N == Len(cx)
           V == 0 .. N
           Next1(v) == IF v = Null \/ v \in NativesIn(cx) THEN v ELSE cx[v].messenger
           down == [n \in 1 .. N |-> n - 1]
           step == [n \in 1 .. N |-> [v \in V |-> Next1(v)]]
<1>1. N \in Nat
  BY DEF ContextsOK
<1>2. \A v \in V : Next1(v) \in V
  BY <1>1 DEF ContextsOK, ContextOK, Null
<1> HIDE DEF Next1
<1>3. down \in [1 .. N -> Nat] /\ \A n \in 1 .. N : down[n] < n /\ down[n] = n - 1
  BY <1>1
<1>4. step \in [1 .. N -> [V -> V]]
  BY <1>2
<1>5. \A n \in 1 .. N : \A v \in V : step[n][v] = Next1(v)
  OBVIOUS
<1> HIDE DEF down, step
<1>6. PICK w \in [0 .. N -> V] : Computes(w, N, c, down, step)
  BY <1>1, <1>3, <1>4, ChainRecursion
<1>7. ASSUME NEW k \in 0 .. N
      PROVE  w[k] = IF k = 0 THEN c ELSE Next1(w[k - 1])
  <2>1. CASE k = 0
    BY <1>6, <2>1 DEF Computes
  <2>2. CASE k # 0
    <3>1. k \in 1 .. N /\ k - 1 \in 0 .. N /\ down[k] = k - 1
      BY <1>1, <1>3, <2>2
    <3>2. w[k] = step[k][w[k - 1]] /\ w[k - 1] \in V
      BY <1>6, <3>1 DEF Computes
    <3> QED BY <1>5, <2>2, <3>1, <3>2
  <2> QED BY <2>1, <2>2
<1>8. w = [k \in 0 .. N |-> IF k = 0 THEN c ELSE Next1(w[k - 1])]
  BY <1>6, <1>7
<1>9. IsWalk(cx, c, w)
  BY <1>8 DEF IsWalk, Next1
<1> QED BY <1>9 DEF WalkOf

(* From within an interpreter the walk ends below it.                      *)
LEMMA WalkLeaves ==
  ASSUME NEW cx, ContextsOK(cx), NEW cl, NEW n \in Nat, ShapeOK(cx, cl, n),
         NEW f, Framed(cx, cl, n, f), MessengersOK(cx, cl, n),
         NEW d \in 1 .. n, cl[d].fn = "interpret",
         NEW c \in 1 .. Len(cx), f[c] = d, cx[c].kind # "native"
  PROVE  WalkOf(cx, c)[Len(cx)] \in {Null} \union {x \in {cl[d - 1].ctx} : d > 1}
<1> DEFINE N == Len(cx)
           w == WalkOf(cx, c)
           Out == {Null} \union {x \in {cl[d - 1].ctx} : d > 1}
           In(v, k) == v \in 1 .. N /\ f[v] = d /\ cx[v].kind # "native" /\ v + k <= N
           Fails == {k \in 0 .. N : ~(w[k] \in Out \/ In(w[k], k))}
<1>1. N \in Nat /\ DOMAIN cx = 1 .. N /\ c \in 0 .. N
  BY DEF ContextsOK
<1>2. /\ w[0] = c
      /\ \A k \in 1 .. N : w[k] = IF w[k - 1] = Null \/ w[k - 1] \in NativesIn(cx)
                                    THEN w[k - 1] ELSE cx[w[k - 1]].messenger
  <2>1. w = [k \in 0 .. N |->
            IF k = 0 THEN c
            ELSE IF w[k - 1] = Null \/ w[k - 1] \in NativesIn(cx) THEN w[k - 1] ELSE cx[w[k - 1]].messenger]
    BY <1>1, WalkExists DEF IsWalk
  <2> HIDE DEF w
  <2>2. 0 \in 0 .. N /\ \A k \in 1 .. N : k \in 0 .. N /\ k # 0
    BY <1>1
  <2>3. w[0] = IF 0 = 0 THEN c
            ELSE IF w[0 - 1] = Null \/ w[0 - 1] \in NativesIn(cx) THEN w[0 - 1] ELSE cx[w[0 - 1]].messenger
    BY ONLY <2>1, <2>2
  <2>4. ASSUME NEW k \in 1 .. N
        PROVE  w[k] = IF w[k - 1] = Null \/ w[k - 1] \in NativesIn(cx)
                                    THEN w[k - 1] ELSE cx[w[k - 1]].messenger
    BY ONLY <2>1, <2>2
  <2> QED BY <2>3, <2>4
<1>3. \A x \in Out : x = Null \/ x \in NativesIn(cx)
  <2>1. d > 1 => cl[d - 1].fn = "native" /\ CallOK(cx, cl[d - 1])
    BY DEF ShapeOK, NestedOK
  <2> QED BY <1>1, <2>1 DEF CallOK, NativeOK, NativesIn
<1>4. cx[Base(cx, cl, d)].messenger \in Out
  <2>1. CASE d = 1
    BY <2>1 DEF Base, MessengersOK
  <2>2. CASE d > 1
    <3>1. /\ Base(cx, cl, d) = RunByIn(cx, cl[d - 1])
          /\ cl[d - 1].fn = "native" /\ d - 1 \in 1 .. n
      BY <2>2, BaseFacts
    <3>2. cl[d - 1].phase \in Runs
      <4>1. NestedOK(cl, n, d - 1) /\ (d - 1) + 1 = d /\ d - 1 < n
        BY <3>1 DEF ShapeOK
      <4> QED BY <3>1, <4>1 DEF NestedOK
    <3> QED BY <2>2, <3>1, <3>2 DEF MessengersOK
  <2> QED BY <2>1, <2>2
<1>5. ASSUME NEW v \in 1 .. N, f[v] = d, cx[v].kind # "native"
      PROVE  \/ cx[v].messenger \in Out
             \/ /\ cx[v].messenger \in 1 .. v - 1 /\ f[cx[v].messenger] = d
                /\ cx[cx[v].messenger].kind # "native"
  <2>1. Member(cx, cl, f, v)
    BY <1>5 DEF Framed
  <2>2. CASE v = Base(cx, cl, d)
    BY <1>4, <2>2
  <2>3. CASE v # Base(cx, cl, d)
    <3>1. cx[v].messenger \in 1 .. v - 1 /\ f[cx[v].messenger] = d /\ v <= cl[d].ctx
      BY <1>5, <2>1, <2>3 DEF Member
    <3>2. cx[v].messenger \in 1 .. N /\ cx[v].messenger < v
      BY <1>1, <3>1
    <3>3. Member(cx, cl, f, cx[v].messenger)
      BY <3>1, <3>2 DEF Framed
    <3>4. cl[d].ctx \in 1 .. N
      BY DEF ShapeOK, CallOK
    <3>5. cx[v].messenger # cl[d].ctx
      BY <1>1, <3>1, <3>2, <3>4
    <3> QED BY <3>1, <3>3, <3>5 DEF Member
  <2> QED BY <2>2, <2>3
<1> HIDE DEF w, Out
<1>6. Fails = {}
  <2>1. SUFFICES ASSUME Fails # {}
                 PROVE  FALSE
    OBVIOUS
  <2>2. Fails \in SUBSET Nat
    BY <1>1
  <2>3. PICK k \in Fails : \A j \in Fails : k <= j
    <3> HIDE DEF Fails
    <3> QED BY <2>1, <2>2, LeastNat
  <2>4. k \in 0 .. N /\ k \in Nat
    BY <1>1, <2>3
  <2>5. k # 0
    BY <1>1, <1>2, <2>3
  <2>6. k \in 1 .. N /\ k - 1 \in 0 .. N /\ k - 1 \notin Fails
    BY <1>1, <2>3, <2>4, <2>5
  <2>7. CASE w[k - 1] \in Out
    BY <1>2, <1>3, <2>3, <2>6, <2>7
  <2>8. CASE In(w[k - 1], k - 1)
    <3>1. w[k - 1] \in 1 .. N /\ w[k - 1] # Null /\ w[k - 1] \notin NativesIn(cx)
      BY <1>1, <2>8 DEF NativesIn, Null
    <3>2. w[k] = cx[w[k - 1]].messenger
      BY <1>2, <2>6, <3>1
    <3>3. CASE w[k] \in Out
      BY <2>3, <3>3
    <3>4. CASE /\ w[k] \in 1 .. w[k - 1] - 1 /\ f[w[k]] = d
               /\ cx[w[k]].kind # "native"
      <4>1. w[k - 1] + (k - 1) <= N /\ w[k - 1] \in Nat
        BY <1>1, <2>8
      <4>2. w[k] \in 1 .. N /\ w[k] + k <= N
        BY <1>1, <2>4, <3>1, <3>4, <4>1
      <4> QED BY <2>3, <3>4, <4>2
    <3> QED BY <1>5, <2>8, <3>2, <3>3, <3>4
  <2> QED BY <2>6, <2>7, <2>8
<1>7. N \in 0 .. N /\ N \notin Fails
  BY <1>1, <1>6
<1>8. ~In(w[N], N)
  BY <1>1
<1>9. w[N] \in Out
  BY <1>7, <1>8
<1> QED BY <1>9 DEF w, Out

LinkedOK(cx, cl, n) ==
  /\ \E f : Framed(cx, cl, n, f)
  /\ GivenOK(cx, cl, n)
  /\ MessengersOK(cx, cl, n)

(* The inductive invariant is what WayBack follows from.                   *)
LEMMA LinkedFindsBack ==
  ASSUME ContextsOK(ctx), stack \in Seq(Call),
         ShapeOK(ctx, Calls(stack), Len(stack)),
         LinkedOK(ctx, Calls(stack), Len(stack))
  PROVE  WayBack
<1> DEFINE cl == Calls(stack)
           n == Len(stack)
<1>1. n \in Nat /\ DOMAIN stack = 1 .. n /\ DOMAIN ctx = 1 .. Len(ctx) /\ Len(ctx) \in Nat
  BY DEF ContextsOK
<1>2. PICK f : Framed(ctx, cl, n, f)
  BY DEF LinkedOK
<1>3. MessengersOK(ctx, cl, n)
  BY DEF LinkedOK
<1>4. SUFFICES ASSUME NEW i \in 1 .. n, stack[i].fn = "interpret"
               PROVE  LET c == stack[i].ctx
                          from == IF c \in Natives THEN ctx[c].messenger ELSE c
                          below == IF i = Len(stack) THEN Null ELSE stack[i + 1].ctx
                      IN WalkBack(from) \in {below, Null}
  BY <1>1, Zenon DEF WayBack
<1> DEFINE d == n + 1 - i
           c == stack[i].ctx
           from == IF c \in Natives THEN ctx[c].messenger ELSE c
           below == IF i = n THEN Null ELSE stack[i + 1].ctx
<1>5. d \in 1 .. n /\ cl[d] = stack[i] /\ (d > 1 => i # n /\ cl[d - 1] = stack[i + 1])
  <2>1. i \in Nat /\ d \in 1 .. n /\ n + 1 - d = i
    BY <1>1
  <2>2. \A k \in 1 .. n : cl[k] = stack[n + 1 - k]
    BY <1>1 DEF Calls
  <2>3. n \in Nat
    BY <1>1
  <2> HIDE DEF cl, d, n
  <2>4. d > 1 => d - 1 \in 1 .. n /\ n + 1 - (d - 1) = i + 1 /\ i # n
    BY <2>1, <2>3
  <2> QED BY <2>1, <2>2, <2>4
<1>6. c \in 1 .. Len(ctx) /\ f[c] = d /\ cl[d].fn = "interpret"
  BY <1>2, <1>4, <1>5 DEF ShapeOK, CallOK, Framed
<1>7. Natives = {x \in 1 .. Len(ctx) : ctx[x].kind = "native"}
  BY <1>1 DEF Natives
<1>8. from \in 1 .. Len(ctx) /\ f[from] = d /\ ctx[from].kind # "native"
  <2>1. CASE ctx[c].kind # "native"
    BY ONLY <1>6, <1>7, <2>1
  <2>2. CASE ctx[c].kind = "native"
    <3>1. from = ctx[c].messenger
      BY <1>6, <1>7, <2>2
    <3>2. Base(ctx, cl, d) \in 1 .. Len(ctx) /\ ctx[Base(ctx, cl, d)].kind # "native"
      <4>1. /\ Base(ctx, cl, d) \in 1 .. Len(ctx)
            /\ d = 1 => Base(ctx, cl, d) = 1
            /\ d > 1 => ctx[Base(ctx, cl, d)].kind = "block"
        <5>1. /\ ContextsOK(ctx) /\ n \in Nat /\ ShapeOK(ctx, cl, n)
              /\ d \in 1 .. n /\ cl[d].fn = "interpret"
          BY <1>1, <1>5, <1>6, Zenon
        <5> HIDE DEF cl, d, n
        <5> QED BY <5>1, BaseFacts
      <4>2. ctx[1].kind = "method" /\ (d = 1 \/ d > 1)
        <5>1. d \in 1 .. n /\ n \in Nat
          BY <1>1, <1>5, Zenon
        <5> HIDE DEF d, n
        <5> QED BY <5>1 DEF ContextsOK
      <4> HIDE DEF cl, d
      <4> QED BY <4>1, <4>2
    <3>3. Member(ctx, cl, f, c)
      BY <1>2, <1>5, <1>6 DEF Framed
    <3>4. ctx[c].messenger \in 1 .. c - 1 /\ f[ctx[c].messenger] = d
      BY <1>6, <2>2, <3>2, <3>3 DEF Member
    <3>5. ctx[c].messenger \in 1 .. Len(ctx) /\ ctx[c].messenger # c
      BY <1>1, <1>6, <3>4
    <3>6. Member(ctx, cl, f, ctx[c].messenger)
      BY <1>2, <1>5, <3>4, <3>5 DEF Framed
    <3>7. cl[d].ctx = c
      BY <1>5
    <3> QED BY <3>1, <3>4, <3>5, <3>6, <3>7, Zenon DEF Member
  <2> QED BY <2>1, <2>2
<1>9. WalkBack(from) = WalkOf(ctx, from)[Len(ctx)]
  BY DEF WalkBack, WalkOf, IsWalk, Natives, NativesIn
<1> HIDE DEF from
<1>10. WalkOf(ctx, from)[Len(ctx)] \in {Null} \union {x \in {cl[d - 1].ctx} : d > 1}
  <2>1. /\ ContextsOK(ctx) /\ n \in Nat /\ ShapeOK(ctx, cl, n)
        /\ Framed(ctx, cl, n, f) /\ MessengersOK(ctx, cl, n)
        /\ d \in 1 .. n /\ cl[d].fn = "interpret"
        /\ from \in 1 .. Len(ctx) /\ f[from] = d /\ ctx[from].kind # "native"
    BY <1>1, <1>2, <1>3, <1>5, <1>6, <1>8, Zenon
  <2> HIDE DEF d, cl, n
  <2> QED BY <2>1, WalkLeaves
<1>11. \A x \in {Null} \union {y \in {cl[d - 1].ctx} : d > 1} : x \in {below, Null}
  <2>1. \A y : d > 1 /\ y = cl[d - 1].ctx => y = below
    BY <1>5
  <2> HIDE DEF d, cl, below
  <2> QED BY <2>1
<1> QED BY <1>9, <1>10, <1>11 DEF from

(***************************************************************************)
(* Changes of contexts                                                     *)
(***************************************************************************)

(* cx2 is cx with other flags, ips and "context", and messenger m in b.    *)
Rewritten(cx, cx2, b, m) ==
  /\ cx2 \in Seq(Context)
  /\ Len(cx2) = Len(cx)
  /\ \A c \in 1 .. Len(cx) :
       /\ cx2[c].kind = cx[c].kind
       /\ cx2[c].code = cx[c].code
       /\ cx2[c].origin = cx[c].origin
       /\ cx2[c].locals = cx[c].locals
       /\ cx2[c].here \in 0 .. Len(cx)
       /\ cx2[c].messenger = IF c = b THEN m ELSE cx[c].messenger

(* Such a change keeps the contexts sound.                                 *)
LEMMA RewrittenOK ==
  ASSUME NEW cx, ContextsOK(cx), NEW b, NEW m \in 0 .. Len(cx),
         NEW cx2, Rewritten(cx, cx2, b, m)
  PROVE  ContextsOK(cx2) /\ Kept(cx, cx2)
<1>1. Len(cx) \in Nat /\ Len(cx) >= 1 /\ cx[1].kind = "method"
  BY DEF ContextsOK
<1>2. ASSUME NEW c \in 1 .. Len(cx2)
      PROVE  ContextOK(cx2, c)
  <2>1. c \in 1 .. Len(cx) /\ ContextOK(cx, c)
    BY DEF Rewritten, ContextsOK
  <2>2. /\ cx2[c].kind = cx[c].kind /\ cx2[c].code = cx[c].code
        /\ cx2[c].origin = cx[c].origin /\ cx2[c].locals = cx[c].locals
        /\ cx2[c].here \in 0 .. Len(cx2)
        /\ cx2[c].messenger \in 0 .. Len(cx2)
    BY <2>1 DEF Rewritten, ContextOK
  <2>3. \A x : IsBlock(cx, x) => IsBlock(cx2, x)
    BY DEF IsBlock, Rewritten
  <2>4. cx[c].kind = "block" => cx2[cx[c].origin].kind # "native"
    <3>1. cx[c].kind = "block" => cx[c].origin \in 1 .. Len(cx) /\ cx[cx[c].origin].kind # "native"
      BY <1>1, <2>1 DEF ContextOK
    <3> QED BY <3>1 DEF Rewritten
  <2> QED BY <2>1, <2>2, <2>3, <2>4 DEF ContextOK
<1>3. cx2[1].kind = "method" /\ Len(cx2) >= 1 /\ cx2 \in Seq(Context)
  BY <1>1 DEF Rewritten
<1>4. Kept(cx, cx2)
  BY <1>1 DEF Kept, Rewritten
<1> QED BY <1>2, <1>3, <1>4 DEF ContextsOK

(* No change is one.                                                       *)
LEMMA NotRewritten ==
  ASSUME NEW cx, ContextsOK(cx)
  PROVE  Rewritten(cx, cx, Null, Null)
BY DEF Rewritten, ContextsOK, ContextOK, Null

(* One context more is written.                                            *)
LEMMA RewriteOne ==
  ASSUME NEW cx, NEW c2, NEW b, NEW m, Rewritten(cx, c2, b, m),
         NEW x \in 1 .. Len(cx), NEW r \in Context,
         r.kind = c2[x].kind, r.code = c2[x].code, r.origin = c2[x].origin,
         r.locals = c2[x].locals, r.messenger = c2[x].messenger,
         r.here \in 0 .. Len(cx)
  PROVE  Rewritten(cx, [c2 EXCEPT ![x] = r], b, m)
<1>1. /\ [c2 EXCEPT ![x] = r] \in Seq(Context)
      /\ Len([c2 EXCEPT ![x] = r]) = Len(c2)
      /\ \A c \in 1 .. Len(c2) : [c2 EXCEPT ![x] = r][c] = IF c = x THEN r ELSE c2[c]
  BY DEF Rewritten
<1> QED BY <1>1 DEF Rewritten

(* Changing a messenger is one.                                            *)
LEMMA RewriteMessenger ==
  ASSUME NEW cx, ContextsOK(cx), NEW x \in 1 .. Len(cx), NEW m \in Nat
  PROVE  Rewritten(cx, [cx EXCEPT ![x].messenger = m], x, m)
<1>1. cx \in Seq(Context) /\ cx[x] \in Context
  BY ContextFacts DEF ContextsOK
<1> DEFINE r == [cx[x] EXCEPT !.messenger = m]
<1>2. /\ r \in Context /\ r.kind = cx[x].kind /\ r.code = cx[x].code
      /\ r.origin = cx[x].origin /\ r.locals = cx[x].locals /\ r.here = cx[x].here
      /\ r.messenger = m
  BY <1>1 DEF Context
<1>3. [cx EXCEPT ![x].messenger = m] = [cx EXCEPT ![x] = r]
  OBVIOUS
<1> HIDE DEF r
<1>4. /\ [cx EXCEPT ![x] = r] \in Seq(Context)
      /\ Len([cx EXCEPT ![x] = r]) = Len(cx)
      /\ \A c \in 1 .. Len(cx) : [cx EXCEPT ![x] = r][c] = IF c = x THEN r ELSE cx[c]
  BY <1>1, <1>2
<1>5. \A c \in 1 .. Len(cx) : cx[c].here \in 0 .. Len(cx)
  BY DEF ContextsOK, ContextOK
<1> QED BY <1>2, <1>3, <1>4, <1>5 DEF Rewritten

(* Changing an ip, done, here or the traps is one, and resetting is.       *)
LEMMA RewriteFlags ==
  ASSUME NEW cx, ContextsOK(cx), NEW c2, NEW b, NEW m, Rewritten(cx, c2, b, m),
         NEW x \in 1 .. Len(cx)
  PROVE  /\ \A v \in Nat \ {0} : Rewritten(cx, [c2 EXCEPT ![x].ip = v], b, m)
         /\ Rewritten(cx, [c2 EXCEPT ![x].done = TRUE], b, m)
         /\ \A v \in 0 .. Len(cx) : Rewritten(cx, [c2 EXCEPT ![x].here = v], b, m)
         /\ Rewritten(cx, ResetIn(c2, x), b, m)
         /\ \A v \in SUBSET {"break", "continue"} : Rewritten(cx, Trapped(c2, x, v), b, m)
<1>1. /\ c2 \in Seq(Context) /\ c2[x] \in Context /\ c2[x].here \in 0 .. Len(cx)
      /\ Len(cx) \in Nat /\ 0 .. Len(cx) \subseteq Nat
  BY DEF Rewritten, ContextsOK
<1>2. ASSUME NEW v \in Nat \ {0}
      PROVE  Rewritten(cx, [c2 EXCEPT ![x].ip = v], b, m)
  <2> DEFINE r == [c2[x] EXCEPT !.ip = v]
  <2>1. /\ r \in Context /\ r.kind = c2[x].kind /\ r.code = c2[x].code
        /\ r.origin = c2[x].origin /\ r.locals = c2[x].locals
        /\ r.messenger = c2[x].messenger /\ r.here \in 0 .. Len(cx)
    BY <1>1 DEF Context
  <2> HIDE DEF r
  <2>2. Rewritten(cx, [c2 EXCEPT ![x] = r], b, m)
    BY <2>1, RewriteOne
  <2> QED BY <2>2 DEF r
<1>3. Rewritten(cx, [c2 EXCEPT ![x].done = TRUE], b, m)
  <2> DEFINE r == [c2[x] EXCEPT !.done = TRUE]
  <2>1. /\ r \in Context /\ r.kind = c2[x].kind /\ r.code = c2[x].code
        /\ r.origin = c2[x].origin /\ r.locals = c2[x].locals
        /\ r.messenger = c2[x].messenger /\ r.here \in 0 .. Len(cx)
    BY <1>1 DEF Context
  <2> HIDE DEF r
  <2>2. Rewritten(cx, [c2 EXCEPT ![x] = r], b, m)
    BY <2>1, RewriteOne
  <2> QED BY <2>2 DEF r
<1>4. ASSUME NEW v \in 0 .. Len(cx)
      PROVE  Rewritten(cx, [c2 EXCEPT ![x].here = v], b, m)
  <2> DEFINE r == [c2[x] EXCEPT !.here = v]
  <2>1. v \in Nat
    BY <1>1
  <2>2. /\ r \in Context /\ r.kind = c2[x].kind /\ r.code = c2[x].code
        /\ r.origin = c2[x].origin /\ r.locals = c2[x].locals
        /\ r.messenger = c2[x].messenger /\ r.here \in 0 .. Len(cx)
    BY <1>1, <2>1 DEF Context
  <2> HIDE DEF r
  <2>3. Rewritten(cx, [c2 EXCEPT ![x] = r], b, m)
    BY <2>2, RewriteOne
  <2> QED BY <2>3 DEF r
<1>5. Rewritten(cx, ResetIn(c2, x), b, m)
  <2> DEFINE r == Reset(c2[x])
  <2>1. /\ r \in Context /\ r.kind = c2[x].kind /\ r.code = c2[x].code
        /\ r.origin = c2[x].origin /\ r.locals = c2[x].locals
        /\ r.messenger = c2[x].messenger /\ r.here \in 0 .. Len(cx)
    <3>1. CASE c2[x].kind = "block"
      <4>1. r = [c2[x] EXCEPT !.called = {}, !.traps = {}, !.ip = 1, !.done = FALSE]
        BY <3>1 DEF Reset
      <4>2. /\ {} \in SUBSET {"break", "continue"} /\ 1 \in Nat \ {0} /\ FALSE \in BOOLEAN
            /\ c2[x] \in Context
        BY <1>1
      <4> HIDE DEF r
      <4>3. r \in Context
        BY <4>1, <4>2 DEF Context
      <4>4. DOMAIN c2[x] = {"kind", "code", "messenger", "origin", "ip", "done",
                            "called", "traps", "here", "locals"}
        BY <4>2 DEF Context
      <4>5. /\ r.kind = c2[x].kind /\ r.code = c2[x].code /\ r.origin = c2[x].origin
            /\ r.locals = c2[x].locals /\ r.messenger = c2[x].messenger
            /\ r.here = c2[x].here
        BY ONLY <4>1, <4>4
      <4> QED BY <1>1, <4>3, <4>5
    <3>2. CASE c2[x].kind # "block"
      BY <1>1, <3>2 DEF Reset
    <3> QED BY <3>1, <3>2
  <2> HIDE DEF r
  <2>2. Rewritten(cx, [c2 EXCEPT ![x] = r], b, m)
    BY <2>1, RewriteOne
  <2> QED BY <2>2 DEF r, ResetIn
<1>6. ASSUME NEW v \in SUBSET {"break", "continue"}
      PROVE  Rewritten(cx, Trapped(c2, x, v), b, m)
  <2> DEFINE r == [c2[x] EXCEPT !.traps = @ \union v]
  <2>1. /\ r \in Context /\ r.kind = c2[x].kind /\ r.code = c2[x].code
        /\ r.origin = c2[x].origin /\ r.locals = c2[x].locals
        /\ r.messenger = c2[x].messenger /\ r.here \in 0 .. Len(cx)
    BY <1>1 DEF Context
  <2> HIDE DEF r
  <2>2. Rewritten(cx, [c2 EXCEPT ![x] = r], b, m)
    BY <2>1, RewriteOne
  <2> QED BY <2>2 DEF r, Trapped
<1> QED BY <1>2, <1>3, <1>4, <1>5, <1>6

(* A context more.                                                         *)
LEMMA AppendedOK ==
  ASSUME NEW cx, ContextsOK(cx), NEW r \in Context,
         NEW cx2, cx2 = Append(cx, r), ContextOK(cx2, Len(cx) + 1)
  PROVE  /\ ContextsOK(cx2) /\ Kept(cx, cx2)
         /\ Len(cx2) = Len(cx) + 1
         /\ cx2[Len(cx) + 1] = r
         /\ \A c \in 1 .. Len(cx) : cx2[c] = cx[c]
<1>1. cx \in Seq(Context) /\ Len(cx) \in Nat /\ Len(cx) >= 1 /\ cx[1].kind = "method"
  BY DEF ContextsOK
<1>2. /\ cx2 \in Seq(Context) /\ Len(cx2) = Len(cx) + 1
      /\ cx2[Len(cx) + 1] = r
      /\ \A c \in 1 .. Len(cx) : cx2[c] = cx[c]
  BY <1>1
<1>3. \A x : IsBlock(cx, x) => IsBlock(cx2, x)
  BY <1>1, <1>2 DEF IsBlock
<1>4. ASSUME NEW c \in 1 .. Len(cx2)
      PROVE  ContextOK(cx2, c)
  <2>1. CASE c = Len(cx) + 1
    BY <2>1
  <2>2. CASE c # Len(cx) + 1
    <3>1. c \in 1 .. Len(cx)
      BY <1>1, <1>2, <2>2
    <3>2. ContextOK(cx, c) /\ cx2[c] = cx[c]
      BY <1>2, <3>1 DEF ContextsOK
    <3>3. cx[c].kind = "block" => cx2[cx[c].origin].kind # "native"
      <4>1. cx[c].kind = "block" => cx[c].origin \in 1 .. Len(cx) /\ cx[cx[c].origin].kind # "native"
        BY <1>1, <3>1, <3>2 DEF ContextOK
      <4> QED BY <1>2, <4>1
    <3>4. 0 .. Len(cx) \subseteq 0 .. Len(cx2)
      BY <1>1, <1>2
    <3> QED BY <1>3, <3>2, <3>3, <3>4 DEF ContextOK
  <2> QED BY <2>1, <2>2
<1>5. Kept(cx, cx2) /\ cx2[1].kind = "method" /\ Len(cx2) >= 1
  BY <1>1, <1>2 DEF Kept
<1> QED BY <1>2, <1>4, <1>5 DEF ContextsOK

(***************************************************************************)
(* What the steps do to contexts cx and calls cl, n of them                *)
(***************************************************************************)
Sound(cx, cl, n) == ContextsOK(cx) /\ n \in Nat /\ ShapeOK(cx, cl, n)

(* ContextIsCurrent.                                                       *)
Current(cx, cl, n) ==
  n > 0 /\ cl[n].fn = "interpret" /\ cl[n].phase = "fetch" =>
    cx[RootsOf(cx)[cl[n].ctx]].here = cl[n].ctx

(* A block whose messenger is a native is run by it.                       *)
CallerOK(cx, cl, n, c) ==
  /\ cx[c].kind = "block"
  /\ cx[c].messenger # Null
  /\ cx[cx[c].messenger].kind = "native"
  => \E d \in 1 .. n - 1 : /\ cl[d].fn = "native" /\ cl[d + 1].fn = "interpret"
                           /\ c = RunByIn(cx, cl[d])
                           /\ cx[c].messenger = cl[d].ctx

Callers(cx, cl, n) == \A c \in 1 .. Len(cx) : CallerOK(cx, cl, n, c)

SameMessengers(cx, cx2) == \A c \in 1 .. Len(cx) : cx2[c].messenger = cx[c].messenger

(* The innermost interpreter goes on in its context; it may make blocks.   *)
GoesOn(cx, cl, n, cx2, cl2, n2) ==
  /\ n > 0 /\ cl[n].fn = "interpret" /\ cl[n].phase = "fetch"
  /\ ContextsOK(cx2) /\ Kept(cx, cx2) /\ SameMessengers(cx, cx2)
  /\ \A c \in Len(cx) + 1 .. Len(cx2) :
       cx2[c].kind = "block" /\ cx2[c].messenger = cl[n].ctx
  /\ n2 = n
  /\ \A d \in 1 .. n - 1 : cl2[d] = cl[d]
  /\ CallOK(cx2, cl2[n])
  /\ cl2[n].fn = "interpret" /\ cl2[n].ctx = cl[n].ctx /\ cl2[n].phase # "call"
  /\ cl2[n].phase = "fetch" =>
       cx2[RootsOf(cx)[cl[n].ctx]].here \in {cx[RootsOf(cx)[cl[n].ctx]].here, cl[n].ctx}

(* It goes into a new context, a method's or a native's.                   *)
Enters(cx, cl, n, cx2, cl2, n2) ==
  /\ n > 0 /\ cl[n].fn = "interpret" /\ cl[n].phase = "fetch"
  /\ ContextsOK(cx2) /\ Kept(cx, cx2) /\ SameMessengers(cx, cx2)
  /\ Len(cx2) = Len(cx) + 1
  /\ cx2[Len(cx) + 1].messenger = cl[n].ctx
  /\ cx2[Len(cx) + 1].kind # "block"
  /\ n2 \in {n, n + 1}
  /\ \A d \in 1 .. n - 1 : cl2[d] = cl[d]
  /\ CallOK(cx2, cl2[n]) /\ cl2[n].fn = "interpret" /\ cl2[n].ctx = Len(cx) + 1
  /\ n2 = n => cl2[n].phase # "call" /\ cx2[Len(cx) + 1].here = Len(cx) + 1
  /\ n2 = n + 1 => /\ cl2[n].phase = "call"
                   /\ CallOK(cx2, cl2[n + 1]) /\ cl2[n + 1].fn = "native"
                   /\ cl2[n + 1].phase = "enter" /\ cl2[n + 1].ctx = Len(cx) + 1

(* Calls are unwound, down to a native that catches.                       *)
Unwinds(cx, cl, n, cx2, cl2, n2) ==
  /\ Rewritten(cx, cx2, Null, Null)
  /\ n2 \in 0 .. n
  /\ \A d \in 1 .. n2 - 1 : cl2[d] = cl[d]
  /\ n2 > 0 => /\ cl[n2].fn = "native" /\ cl[n2].phase = "try"
               /\ CallOK(cx2, cl2[n2]) /\ cl2[n2].fn = "native"
               /\ cl2[n2].ctx = cl[n2].ctx /\ cl2[n2].phase = "caught"

(* The innermost interpreter returns to the native that called it.         *)
Leaves(cx, cl, n, cx2, cl2, n2) ==
  /\ n > 0 /\ cl[n].fn = "interpret"
  /\ \/ cx[cl[n].ctx].messenger = Null
     \/ cx[cx[cl[n].ctx].messenger].kind = "native"
  /\ Rewritten(cx, cx2, cl[n].ctx, Null)
  /\ n2 = n - 1
  /\ \A d \in 1 .. n - 1 : cl2[d] = cl[d]

(* It goes back to the messenger.                                          *)
GoesBack(cx, cl, n, cx2, cl2, n2) ==
  /\ n > 0 /\ cl[n].fn = "interpret"
  /\ cx[cl[n].ctx].messenger # Null
  /\ cx[cx[cl[n].ctx].messenger].kind # "native"
  /\ Rewritten(cx, cx2, cl[n].ctx, Null)
  /\ n2 = n
  /\ \A d \in 1 .. n - 1 : cl2[d] = cl[d]
  /\ CallOK(cx2, cl2[n]) /\ cl2[n].fn = "interpret" /\ cl2[n].phase # "call"
  /\ cl2[n].ctx = cx[cl[n].ctx].messenger
  /\ cl2[n].phase = "fetch" => cx2[RootsOf(cx)[cl2[n].ctx]].here = cl2[n].ctx

(* A native messages another one last.                                     *)
HandsOn(cx, cl, n, cx2, cl2, n2) ==
  /\ n > 0 /\ cl[n].fn = "native" /\ cl[n].phase # "enter"
  /\ ContextsOK(cx2) /\ Kept(cx, cx2) /\ SameMessengers(cx, cx2)
  /\ \A c \in Len(cx) + 1 .. Len(cx2) : cx2[c].kind # "block"
  /\ n2 = n + 1
  /\ \A d \in 1 .. n - 1 : cl2[d] = cl[d]
  /\ CallOK(cx2, cl2[n]) /\ cl2[n].fn = "native"
  /\ cl2[n].ctx = cl[n].ctx /\ cl2[n].phase = "last"
  /\ CallOK(cx2, cl2[n + 1]) /\ cl2[n + 1].fn = "native" /\ cl2[n + 1].phase = "enter"

(* A native returns to the loop or to the native that called it.           *)
WindsUp(cx, cl, n, cx2, cl2, n2) ==
  /\ n > 1 /\ cl[n].fn = "native"
  /\ Rewritten(cx, cx2, Null, Null)
  /\ n2 = n - 1
  /\ \A d \in 1 .. n - 2 : cl2[d] = cl[d]
  /\ cl2[n - 1].fn = cl[n - 1].fn /\ cl2[n - 1].ctx = cl[n - 1].ctx
  /\ cl[n - 1].fn = "native" => cl2[n - 1] = cl[n - 1]
  /\ cl[n - 1].fn = "interpret" => CallOK(cx2, cl2[n - 1]) /\ cl2[n - 1].phase = "check"

(* A native calls an interpreter for a block, of which it becomes the      *)
(* messenger unless it has been before, or is timesDo:.                    *)
Starts(cx, cl, n, cx2, cl2, n2, b) ==
  /\ n > 0 /\ cl[n].fn = "native"
  /\ \/ Rewritten(cx, cx2, b, cl[n].ctx)
     \/ /\ Rewritten(cx, cx2, Null, Null)
        /\ \/ cx[cl[n].ctx].code = "timesDo"
           \/ cl[n].phase \in Runs /\ b = RunByIn(cx, cl[n])
  /\ n2 = n + 1
  /\ \A d \in 1 .. n - 1 : cl2[d] = cl[d]
  /\ CallOK(cx2, cl2[n]) /\ cl2[n].fn = "native"
  /\ cl2[n].ctx = cl[n].ctx /\ cl2[n].phase \in Runs
  /\ b = RunByIn(cx, cl2[n])
  /\ CallOK(cx2, cl2[n + 1]) /\ cl2[n + 1].fn = "interpret"
  /\ cl2[n + 1].ctx = b /\ cl2[n + 1].phase = "fetch"
  /\ cx2[RootsOf(cx)[b]].here = b

(* A loop over nothing becomes the messenger of its block all the same.    *)
Skips(cx, cl, n, cx2, cl2, n2) ==
  /\ n > 0 /\ cl[n].fn = "native" /\ cl[n].phase = "enter" /\ Items = 0
  /\ Rewritten(cx, cx2, cx[cl[n].ctx].locals[1], cl[n].ctx)
  /\ n2 = n
  /\ \A d \in 1 .. n - 1 : cl2[d] = cl[d]
  /\ CallOK(cx2, cl2[n]) /\ cl2[n].fn = "native"
  /\ cl2[n].ctx = cl[n].ctx /\ cl2[n].phase = "last"

(***************************************************************************)
(* What they keep                                                          *)
(***************************************************************************)
(* A change of flags only.                                                 *)
LEMMA UnchangedMessengers ==
  ASSUME NEW cx, ContextsOK(cx), NEW cx2, Rewritten(cx, cx2, Null, Null)
  PROVE  ContextsOK(cx2) /\ Kept(cx, cx2) /\ SameMessengers(cx, cx2)
         /\ Len(cx2) = Len(cx)
<1>1. Null \in 0 .. Len(cx) /\ \A c \in 1 .. Len(cx) : c # Null
  BY DEF Null, ContextsOK
<1>2. ContextsOK(cx2) /\ Kept(cx, cx2)
  BY <1>1, RewrittenOK
<1>3. SameMessengers(cx, cx2) /\ Len(cx2) = Len(cx)
  BY <1>1 DEF Rewritten, SameMessengers
<1> QED BY <1>2, <1>3

(* Blocks, but those of S, keep their messengers or lose them, and the     *)
(* calls that run them are still there.                                    *)
StillCalled(cx, cl, n, cx2, cl2, n2, S) ==
  /\ \A c \in 1 .. Len(cx) :
       c \notin S => cx2[c].messenger \in {cx[c].messenger, Null}
  /\ \A d \in 1 .. n - 1 :
       cl[d].fn = "native" /\ cl[d + 1].fn = "interpret" /\ RunByIn(cx, cl[d]) \notin S =>
         d \in 1 .. n2 - 1 /\ cl2[d] = cl[d] /\ cl2[d + 1].fn = "interpret"

(* CallersReleased's invariant, when the calls that run blocks stay.       *)
LEMMA CallersStay ==
  ASSUME NEW cx, NEW cx2, NEW cl, NEW n, NEW cl2, NEW n2, NEW S,
         Sound(cx, cl, n), Kept(cx, cx2), Callers(cx, cl, n),
         StillCalled(cx, cl, n, cx2, cl2, n2, S),
         NEW c \in 1 .. Len(cx), c \notin S
  PROVE  CallerOK(cx2, cl2, n2, c)
<1> SUFFICES ASSUME cx2[c].kind = "block", cx2[c].messenger # Null,
                    cx2[cx2[c].messenger].kind = "native"
             PROVE  \E d \in 1 .. n2 - 1 : /\ cl2[d].fn = "native" /\ cl2[d + 1].fn = "interpret"
                                           /\ c = RunByIn(cx2, cl2[d])
                                           /\ cx2[c].messenger = cl2[d].ctx
  BY DEF CallerOK
<1>1. cx2[c].messenger = cx[c].messenger
  BY DEF StillCalled
<1>2. cx[c].messenger \in 1 .. Len(cx)
  BY <1>1 DEF Sound, ContextsOK, ContextOK, Null
<1>3. cx[c].kind = "block" /\ cx[cx[c].messenger].kind = "native"
  BY <1>1, <1>2 DEF Kept
<1>4. PICK d \in 1 .. n - 1 : /\ cl[d].fn = "native" /\ cl[d + 1].fn = "interpret"
                              /\ c = RunByIn(cx, cl[d])
                              /\ cx[c].messenger = cl[d].ctx
  BY <1>1, <1>3 DEF Callers, CallerOK
<1>5. d \in 1 .. n2 - 1 /\ cl2[d] = cl[d] /\ cl2[d + 1].fn = "interpret"
  BY <1>4 DEF StillCalled
<1>6. CallOK(cx, cl[d])
  BY DEF Sound, ShapeOK
<1>7. RunByIn(cx2, cl[d]) = RunByIn(cx, cl[d])
  BY <1>4, <1>6, RunByKept DEF Sound
<1> QED BY <1>1, <1>4, <1>5, <1>7

(* ... as when only the innermost call changes, or calls are added.        *)
LEMMA StillThere ==
  ASSUME NEW cx, NEW cx2, NEW cl, NEW n \in Nat, NEW cl2, NEW n2 \in Nat, NEW S,
         n <= n2,
         \A c \in 1 .. Len(cx) :
           c \notin S => cx2[c].messenger \in {cx[c].messenger, Null},
         \A d \in 1 .. n - 1 : cl2[d] = cl[d],
         n > 0 => cl2[n].fn = cl[n].fn
  PROVE  StillCalled(cx, cl, n, cx2, cl2, n2, S)
<1>1. ASSUME NEW d \in 1 .. n - 1, cl[d + 1].fn = "interpret"
      PROVE  d \in 1 .. n2 - 1 /\ cl2[d] = cl[d] /\ cl2[d + 1].fn = "interpret"
  <2>1. CASE d = n - 1
    BY <1>1, <2>1
  <2>2. CASE d # n - 1
    BY <1>1, <2>2
  <2> QED BY <2>1, <2>2
<1> QED BY <1>1 DEF StillCalled

(* MessengersOK, when messengers stay or go and no call is added that runs *)
(* a block.                                                                *)
LEMMA MessengersLess ==
  ASSUME NEW cx, NEW cl, NEW n, Sound(cx, cl, n), MessengersOK(cx, cl, n),
         NEW cx2, ContextsOK(cx2), Kept(cx, cx2),
         \A c \in 1 .. Len(cx) : cx2[c].messenger \in {cx[c].messenger, Null},
         NEW cl2, NEW e \in 0 .. n, NEW n2 \in Nat, e <= n2,
         \A d \in 1 .. e - 1 : cl2[d] = cl[d],
         e > 0 /\ cl2[e].fn = "native" /\ cl2[e].phase \in Runs => cl2[e] = cl[e],
         \A d \in e + 1 .. n2 : cl2[d].fn = "native" => cl2[d].phase \notin Runs
  PROVE  MessengersOK(cx2, cl2, n2)
<1>1. ContextsOK(cx) /\ ShapeOK(cx, cl, n) /\ n \in Nat
  BY DEF Sound
<1>2. cx2[1].messenger = Null
  BY <1>1 DEF MessengersOK, ContextsOK
<1>3. \A d \in 1 .. n : cl[d].fn = "native" =>
        /\ RunByIn(cx2, cl[d]) = RunByIn(cx, cl[d])
        /\ cx2[RunByIn(cx, cl[d])].messenger \in {cx[RunByIn(cx, cl[d])].messenger, Null}
  BY <1>1, RunByFacts, RunByKept DEF ShapeOK, IsBlock
<1>4. e > 0 => (cl2[e].fn = "native" /\ cl2[e].phase \in Runs =>
           cx2[RunByIn(cx2, cl2[e])].messenger \in {cl2[e].ctx, Null})
  BY <1>1, <1>3 DEF MessengersOK
<1>5. \A d \in 1 .. e - 1 : cl[d].fn = "native" /\ cl[d].phase \in Runs =>
        cx2[RunByIn(cx, cl[d])].messenger \in {cx[RunByIn(cx, cl[d])].messenger, Null}
  BY <1>1, <1>3
<1> QED BY <1>1, <1>2, <1>4, <1>5, MessengersUpto

(* Every kind of step keeps the invariants: first, going on.               *)
LEMMA GoesOnKeeps ==
  ASSUME NEW cx, NEW cl, NEW n, Sound(cx, cl, n), NEW cx2, NEW cl2, NEW n2,
         GoesOn(cx, cl, n, cx2, cl2, n2)
  PROVE  /\ Sound(cx2, cl2, n2)
         /\ Current(cx, cl, n) => Current(cx2, cl2, n2)
         /\ LinkedOK(cx, cl, n) => LinkedOK(cx2, cl2, n2)
         /\ Callers(cx, cl, n) => Callers(cx2, cl2, n2)
<1>1. /\ ContextsOK(cx) /\ ContextsOK(cx2) /\ Kept(cx, cx2) /\ ShapeOK(cx, cl, n)
      /\ n \in Nat /\ n > 0 /\ n2 = n /\ n \in 0 .. n /\ n <= n
      /\ \A d \in 1 .. n - 1 : cl2[d] = cl[d]
      /\ cl2[n].fn = "interpret" /\ cl[n].fn = "interpret" /\ cl2[n].ctx = cl[n].ctx
      /\ cl2[n].phase # "call" /\ CallOK(cx2, cl2[n])
      /\ \A d \in n + 1 .. n : FALSE
  BY DEF Sound, GoesOn
<1>2. \A c \in 1 .. Len(cx) : cx2[c].messenger = cx[c].messenger
  BY DEF GoesOn, SameMessengers
<1>3. ShapeOK(cx2, cl2, n)
  BY <1>1, CutShape
<1>4. cl[n].ctx \in 1 .. Len(cx)
  BY <1>1 DEF ShapeOK, CallOK
<1>5. ASSUME Current(cx, cl, n)
      PROVE  Current(cx2, cl2, n)
  <2>1. RootsOf(cx2)[cl[n].ctx] = RootsOf(cx)[cl[n].ctx]
    BY <1>1, <1>4, RootsKept
  <2> QED BY <1>1, <1>5, <2>1 DEF Current, GoesOn
<1>6. ASSUME LinkedOK(cx, cl, n)
      PROVE  LinkedOK(cx2, cl2, n)
  <2>1. PICK f : Framed(cx, cl, n, f)
    BY <1>6 DEF LinkedOK
  <2>2. \E g : Framed(cx2, cl2, n, g)
    BY <1>1, <1>2, <2>1, CutFramed
  <2>3. GivenOK(cx, cl, n) /\ MessengersOK(cx, cl, n)
    BY <1>6 DEF LinkedOK
  <2>4. GivenOK(cx2, cl2, n)
    BY <1>1, <2>3, GivenUpto
  <2>5. MessengersOK(cx2, cl2, n)
    BY <1>1, <1>2, <2>3, MessengersLess
  <2> QED BY <2>2, <2>4, <2>5 DEF LinkedOK
<1>7. ASSUME Callers(cx, cl, n)
      PROVE  Callers(cx2, cl2, n)
  <2>1. ASSUME NEW c \in 1 .. Len(cx2), c \notin 1 .. Len(cx)
        PROVE  CallerOK(cx2, cl2, n, c)
    <3>1. c \in Len(cx) + 1 .. Len(cx2)
      BY <1>1, <2>1 DEF ContextsOK
    <3>2. cx2[c].messenger = cl[n].ctx
      BY <3>1 DEF GoesOn
    <3>3. cx[cl[n].ctx].kind # "native"
      BY <1>1 DEF GoesOn, ShapeOK, CallOK, InterpretOK
    <3> QED BY <1>1, <1>4, <3>2, <3>3 DEF Kept, CallerOK
  <2>2. StillCalled(cx, cl, n, cx2, cl2, n, {})
    BY <1>1, <1>2, StillThere
  <2>3. \A c \in 1 .. Len(cx) : CallerOK(cx2, cl2, n, c)
    BY <1>1, <1>7, <2>2, CallersStay
  <2> QED BY <2>1, <2>3 DEF Callers
<1> QED BY <1>1, <1>3, <1>5, <1>6, <1>7 DEF Sound

(* A new method's or native's context, linked to its messenger.            *)
LEMMA EntersKeeps ==
  ASSUME NEW cx, NEW cl, NEW n, Sound(cx, cl, n), NEW cx2, NEW cl2, NEW n2,
         Enters(cx, cl, n, cx2, cl2, n2)
  PROVE  /\ Sound(cx2, cl2, n2)
         /\ Current(cx2, cl2, n2)
         /\ LinkedOK(cx, cl, n) => LinkedOK(cx2, cl2, n2)
         /\ Callers(cx, cl, n) => Callers(cx2, cl2, n2)
<1>1. /\ ContextsOK(cx) /\ ContextsOK(cx2) /\ Kept(cx, cx2) /\ ShapeOK(cx, cl, n)
      /\ n \in Nat /\ n > 0 /\ n2 \in {n, n + 1} /\ n2 \in Nat /\ n <= n2
      /\ n \in 0 .. n
      /\ \A d \in 1 .. n - 1 : cl2[d] = cl[d]
      /\ cl[n].fn = "interpret" /\ cl2[n].fn = "interpret" /\ CallOK(cx2, cl2[n])
      /\ cl2[n].ctx = Len(cx) + 1 /\ Len(cx2) = Len(cx) + 1
      /\ n2 = n => cl2[n].phase # "call"
      /\ n2 = n + 1 => /\ cl2[n].phase = "call"
                       /\ CallOK(cx2, cl2[n + 1]) /\ cl2[n + 1].fn = "native"
                       /\ cl2[n + 1].phase = "enter" /\ cl2[n + 1].ctx = Len(cx) + 1
  BY DEF Sound, Enters
<1>2. \A c \in 1 .. Len(cx) : cx2[c].messenger = cx[c].messenger
  BY DEF Enters, SameMessengers
<1>3. \A d \in n + 1 .. n2 : /\ d = n + 1 /\ n2 = n + 1 /\ cl2[d].fn = "native"
                             /\ cl2[d].phase = "enter" /\ "enter" \notin Runs
  BY <1>1 DEF Runs
<1>4. ShapeOK(cx2, cl2, n2)
  <2>1. CASE n2 = n
    BY <1>1, <2>1, CutShape
  <2>2. CASE n2 = n + 1
    <3>1. ShapeOK(cx2, cl2, n + 1)
      BY <1>1, <2>2, PushShape
    <3> QED BY <2>2, <3>1
  <2> QED BY <1>1, <2>1, <2>2
<1>5. Current(cx2, cl2, n2)
  <2>1. CASE n2 = n
    <3>1. Len(cx) + 1 \in 1 .. Len(cx2) /\ cx2[Len(cx) + 1].kind # "block"
          /\ cx2[Len(cx) + 1].here = Len(cx) + 1
      BY <1>1, <2>1 DEF Enters, ContextsOK
    <3>2. RootsOf(cx2)[Len(cx) + 1] = Len(cx) + 1
      BY <1>1, <3>1, RootsAreMethods
    <3> QED BY <1>1, <2>1, <3>1, <3>2 DEF Current
  <2>2. CASE n2 = n + 1
    BY <1>1, <2>2 DEF Current
  <2> QED BY <1>1, <2>1, <2>2
<1>6. ASSUME LinkedOK(cx, cl, n)
      PROVE  LinkedOK(cx2, cl2, n2)
  <2>1. PICK f : Framed(cx, cl, n, f)
    BY <1>6 DEF LinkedOK
  <2>2. /\ cx2[Len(cx) + 1].messenger = cl[n].ctx /\ cx2[Len(cx) + 1].kind # "block"
        /\ cx[cl[n].ctx].kind # "native"
    BY <1>1 DEF Enters, ShapeOK, CallOK, InterpretOK
  <2>3. \E g : Framed(cx2, cl2, n2, g)
    BY <1>1, <1>2, <2>1, <2>2, CallFramed
  <2>4. GivenOK(cx, cl, n) /\ MessengersOK(cx, cl, n)
    BY <1>6 DEF LinkedOK
  <2>5. GivenOK(cx2, cl2, n2)
    BY <1>1, <1>3, <2>4, GivenUpto
  <2>6. MessengersOK(cx2, cl2, n2)
    BY <1>1, <1>2, <1>3, <2>4, MessengersLess
  <2> QED BY <2>3, <2>5, <2>6 DEF LinkedOK
<1>7. ASSUME Callers(cx, cl, n)
      PROVE  Callers(cx2, cl2, n2)
  <2>1. StillCalled(cx, cl, n, cx2, cl2, n2, {})
    BY <1>1, <1>2, StillThere
  <2>2. \A c \in 1 .. Len(cx) : CallerOK(cx2, cl2, n2, c)
    BY <1>1, <1>7, <2>1, CallersStay
  <2>3. CallerOK(cx2, cl2, n2, Len(cx) + 1)
    BY DEF Enters, CallerOK
  <2>4. \A c \in 1 .. Len(cx2) : c \in 1 .. Len(cx) \/ c = Len(cx) + 1
    BY <1>1 DEF ContextsOK
  <2> QED BY <2>2, <2>3, <2>4 DEF Callers
<1> QED BY <1>1, <1>4, <1>5, <1>6, <1>7 DEF Sound

(* LinkedOK, when calls end.                                               *)
LEMMA CutLinked ==
  ASSUME NEW cx, NEW cl, NEW n, Sound(cx, cl, n), LinkedOK(cx, cl, n),
         NEW f, Framed(cx, cl, n, f),
         NEW cx2, ContextsOK(cx2), Kept(cx, cx2), NEW cl2, NEW e \in 0 .. n,
         \A d \in 1 .. e - 1 : cl2[d] = cl[d],
         e > 0 => /\ cl2[e].fn = cl[e].fn /\ cl2[e].ctx = cl[e].ctx
                  /\ cl2[e].phase \in Runs => cl2[e] = cl[e]
                  /\ cl[e].fn = "native" => cl[e].phase # "enter",
         \A c \in 1 .. Len(cx) : cx2[c].messenger \in {cx[c].messenger, Null},
         \A c \in 1 .. Len(cx) : f[c] \in 1 .. e => cx2[c].messenger = cx[c].messenger
  PROVE  LinkedOK(cx2, cl2, e)
<1>1. ContextsOK(cx) /\ ShapeOK(cx, cl, n) /\ n \in Nat /\ e \in Nat /\ e <= e
  BY DEF Sound
<1>2. \A d \in e + 1 .. e : FALSE
  BY <1>1
<1>3. \E g : Framed(cx2, cl2, e, g)
  <2>1. e > 0 => cl2[e].fn = cl[e].fn /\ cl2[e].ctx = cl[e].ctx
    OBVIOUS
  <2>2. \A d \in e + 1 .. e : cl2[d].fn # "interpret"
    BY <1>2
  <2>3. \A c \in 1 .. Len(cx) : f[c] \in 1 .. e => cx2[c].messenger = cx[c].messenger
    OBVIOUS
  <2>4. \A d \in 1 .. e - 1 : cl2[d] = cl[d]
    OBVIOUS
  <2> QED BY ONLY ContextsOK(cx2), Kept(cx, cx2), Framed(cx, cl, n, f), e \in 0 .. n,
                  <1>1, <2>1, <2>2, <2>3, <2>4, CutFramed
<1>4. GivenOK(cx, cl, n) /\ MessengersOK(cx, cl, n)
  BY DEF LinkedOK
<1>5. GivenOK(cx2, cl2, e)
  <2>1. e > 0 => /\ cl2[e].fn = cl[e].fn
                 /\ cl2[e].fn = "native" => cl2[e].ctx = cl[e].ctx
                 /\ cl2[e].fn = "native" /\ cl2[e].phase # "enter" => GivenAt(cx, cl, e)
    BY <1>1, <1>4 DEF GivenOK
  <2>2. \A d \in e + 1 .. e : cl2[d].fn = "native" => cl2[d].phase = "enter"
    BY <1>2
  <2> QED BY <1>1, <1>4, <2>1, <2>2, GivenUpto
<1>6. MessengersOK(cx2, cl2, e)
  <2>1. e > 0 /\ cl2[e].fn = "native" /\ cl2[e].phase \in Runs => cl2[e] = cl[e]
    OBVIOUS
  <2>2. \A d \in e + 1 .. e : cl2[d].fn = "native" => cl2[d].phase \notin Runs
    BY <1>2
  <2> QED BY <1>1, <1>4, <2>1, <2>2, MessengersLess
<1> QED BY <1>3, <1>5, <1>6 DEF LinkedOK

(* Throw.  The blocks it unwinds keep their messengers.                    *)
LEMMA UnwindsKeeps ==
  ASSUME NEW cx, NEW cl, NEW n, Sound(cx, cl, n), NEW cx2, NEW cl2, NEW n2,
         Unwinds(cx, cl, n, cx2, cl2, n2)
  PROVE  /\ Sound(cx2, cl2, n2)
         /\ Current(cx2, cl2, n2)
         /\ LinkedOK(cx, cl, n) => LinkedOK(cx2, cl2, n2)
<1>1. /\ ContextsOK(cx) /\ ShapeOK(cx, cl, n) /\ n \in Nat
      /\ n2 \in 0 .. n /\ n2 \in Nat /\ n2 <= n2
      /\ \A d \in 1 .. n2 - 1 : cl2[d] = cl[d]
      /\ n2 > 0 => /\ cl[n2].fn = "native" /\ cl[n2].phase = "try" /\ cl[n2].phase # "enter"
                   /\ CallOK(cx2, cl2[n2]) /\ cl2[n2].fn = "native"
                   /\ cl2[n2].ctx = cl[n2].ctx /\ cl2[n2].phase = "caught"
      /\ "caught" \notin Runs
  BY DEF Sound, Unwinds, Runs
<1>2. ContextsOK(cx2) /\ Kept(cx, cx2)
      /\ \A c \in 1 .. Len(cx) : cx2[c].messenger = cx[c].messenger
  BY <1>1, UnchangedMessengers DEF Unwinds, SameMessengers
<1>3. ShapeOK(cx2, cl2, n2)
  BY <1>1, <1>2, CutShape
<1>4. Current(cx2, cl2, n2)
  BY <1>1 DEF Current
<1>5. ASSUME LinkedOK(cx, cl, n)
      PROVE  LinkedOK(cx2, cl2, n2)
  <2>1. PICK f : Framed(cx, cl, n, f)
    BY <1>5 DEF LinkedOK
  <2>2. n2 > 0 => /\ cl2[n2].fn = cl[n2].fn /\ cl2[n2].ctx = cl[n2].ctx
                  /\ cl2[n2].phase \in Runs => cl2[n2] = cl[n2]
                  /\ cl[n2].fn = "native" => cl[n2].phase # "enter"
    BY <1>1
  <2>3. \A c \in 1 .. Len(cx) : f[c] \in 1 .. n2 => cx2[c].messenger = cx[c].messenger
    BY <1>2
  <2> QED BY <1>1, <1>2, <1>5, <2>1, <2>2, <2>3, CutLinked
<1> QED BY <1>1, <1>2, <1>3, <1>4, <1>5 DEF Sound

(* An interpreter that returns is in the context it began with.            *)
LEMMA LeavesFromBase ==
  ASSUME NEW cx, NEW cl, NEW n, Sound(cx, cl, n), NEW f, Framed(cx, cl, n, f),
         n > 0, cl[n].fn = "interpret",
         \/ cx[cl[n].ctx].messenger = Null
         \/ cx[cx[cl[n].ctx].messenger].kind = "native"
  PROVE  cl[n].ctx = Base(cx, cl, n)
<1>1. ContextsOK(cx) /\ Len(cx) \in Nat /\ n \in 1 .. n /\ n \in Nat
      /\ cl[n].ctx \in 1 .. Len(cx) /\ f[cl[n].ctx] = n
  BY DEF Sound, ContextsOK, ShapeOK, CallOK, Framed
<1>2. Member(cx, cl, f, cl[n].ctx)
  BY <1>1 DEF Framed
<1>3. SUFFICES ASSUME cl[n].ctx # Base(cx, cl, n)
               PROVE  FALSE
  OBVIOUS
<1>4. cx[cl[n].ctx].messenger \in 1 .. cl[n].ctx - 1 /\ f[cx[cl[n].ctx].messenger] = n
  BY <1>1, <1>2, <1>3 DEF Member
<1>5. cx[cl[n].ctx].messenger \in 1 .. Len(cx) /\ cx[cl[n].ctx].messenger # cl[n].ctx
      /\ cx[cl[n].ctx].messenger # Null
  BY <1>1, <1>4 DEF Null
<1>6. Member(cx, cl, f, cx[cl[n].ctx].messenger)
  BY <1>1, <1>4, <1>5 DEF Framed
<1>7. cx[cx[cl[n].ctx].messenger].kind # "native"
  BY <1>4, <1>5, <1>6, Zenon DEF Member
<1> QED BY <1>5, <1>7

(* Returning to the native: the interpreter's chain has only its first     *)
(* context left, the block, and that loses its messenger.                  *)
LEMMA LeavesKeeps ==
  ASSUME NEW cx, NEW cl, NEW n, Sound(cx, cl, n), NEW cx2, NEW cl2, NEW n2,
         Leaves(cx, cl, n, cx2, cl2, n2)
  PROVE  /\ Sound(cx2, cl2, n2)
         /\ Current(cx2, cl2, n2)
         /\ LinkedOK(cx, cl, n) => LinkedOK(cx2, cl2, n2)
         /\ LinkedOK(cx, cl, n) /\ Callers(cx, cl, n) => Callers(cx2, cl2, n2)
<1> DEFINE h == cl[n].ctx
<1>1. /\ ContextsOK(cx) /\ ShapeOK(cx, cl, n) /\ n \in Nat /\ n > 0
      /\ n2 \in 0 .. n /\ n2 \in Nat /\ n2 <= n2 /\ n2 = n - 1 /\ n = n2 + 1
      /\ \A d \in 1 .. n2 : d \in 1 .. n /\ cl2[d] = cl[d]
      /\ \A d \in 1 .. n2 - 1 : cl2[d] = cl[d]
      /\ cl[n].fn = "interpret"
  BY DEF Sound, Leaves
<1>2. h \in 1 .. Len(cx)
  BY <1>1 DEF ShapeOK, CallOK
<1>3. ContextsOK(cx2) /\ Kept(cx, cx2) /\ Len(cx2) = Len(cx)
  <2>1. Null \in 0 .. Len(cx)
    BY <1>1 DEF Null, ContextsOK
  <2>2. Rewritten(cx, cx2, h, Null)
    BY DEF Leaves
  <2>3. Len(cx2) = Len(cx)
    BY <2>2 DEF Rewritten
  <2> HIDE DEF h
  <2> QED BY <1>1, <2>1, <2>2, <2>3, RewrittenOK
<1>4. /\ \A c \in 1 .. Len(cx) : cx2[c].messenger \in {cx[c].messenger, Null}
      /\ cx2[h].messenger = Null
      /\ \A c \in 1 .. Len(cx) : c # h => cx2[c].messenger = cx[c].messenger
  BY <1>2 DEF Leaves, Rewritten
<1>5. n2 > 0 => /\ cl[n2].fn = "native" /\ CallOK(cx2, cl2[n2]) /\ cl2[n2] = cl[n2]
                /\ cl[n2].phase \in Runs /\ "enter" \notin Runs
  <2>1. SUFFICES ASSUME n2 > 0
                 PROVE  /\ cl[n2].fn = "native" /\ CallOK(cx2, cl2[n2])
                        /\ cl[n2].phase \in Runs
    BY <1>1 DEF Runs
  <2>2. n2 \in 1 .. n2 /\ n2 \in 1 .. n /\ n \in 1 .. n /\ n > 1 /\ n2 < n
    BY <1>1, <2>1
  <2>3. NestedOK(cl, n, n) /\ NestedOK(cl, n, n2) /\ CallOK(cx, cl[n2])
    BY <1>1, <2>2 DEF ShapeOK
  <2>4. cl[n2].fn = "native"
    BY <1>1, <2>2, <2>3 DEF NestedOK
  <2>5. CallOK(cx2, cl2[n2])
    BY <1>1, <1>3, <2>2, <2>3, CallKept
  <2> QED BY <1>1, <2>2, <2>3, <2>4, <2>5 DEF NestedOK
<1>6. ShapeOK(cx2, cl2, n2)
  BY <1>1, <1>3, <1>5, CutShape
<1>7. Current(cx2, cl2, n2)
  BY <1>5 DEF Current
<1>8. ASSUME LinkedOK(cx, cl, n)
      PROVE  LinkedOK(cx2, cl2, n2)
  <2>1. PICK f : Framed(cx, cl, n, f)
    BY <1>8 DEF LinkedOK
  <2>2. \A c \in 1 .. Len(cx) : f[c] \in 1 .. n2 => cx2[c].messenger = cx[c].messenger
    <3>1. f[h] = n
      BY <1>1, <2>1 DEF Framed
    <3> HIDE DEF h
    <3> QED BY <1>1, <1>4, <3>1
  <2>3. n2 > 0 => /\ cl2[n2].fn = cl[n2].fn /\ cl2[n2].ctx = cl[n2].ctx
                  /\ cl2[n2].phase \in Runs => cl2[n2] = cl[n2]
                  /\ cl[n2].fn = "native" => cl[n2].phase # "enter"
    BY <1>5
  <2> HIDE DEF h
  <2> QED BY <1>1, <1>3, <1>4, <1>8, <2>1, <2>2, <2>3, CutLinked
<1>9. ASSUME LinkedOK(cx, cl, n), Callers(cx, cl, n)
       PROVE  Callers(cx2, cl2, n2)
  <2>1. PICK f : Framed(cx, cl, n, f)
    BY <1>9 DEF LinkedOK
  <2>2. h = Base(cx, cl, n)
    BY <1>1, <2>1, LeavesFromBase DEF Leaves
  <2>3. StillCalled(cx, cl, n, cx2, cl2, n2, {h})
    <3>1. ASSUME NEW d \in 1 .. n - 1, cl[d + 1].fn = "interpret", RunByIn(cx, cl[d]) # h
          PROVE  d \in 1 .. n2 - 1 /\ cl2[d] = cl[d] /\ cl2[d + 1].fn = "interpret"
      <4>1. d # n2
        BY <1>1, <2>2, <3>1 DEF Base
      <4>2. d \in 1 .. n2 - 1 /\ d \in 1 .. n2 /\ d + 1 \in 1 .. n2
        BY <1>1, <4>1
      <4> QED BY <1>1, <3>1, <4>2
    <3> QED BY <1>4, <3>1 DEF StillCalled
  <2>4. \A c \in 1 .. Len(cx) : c \notin {h} => CallerOK(cx2, cl2, n2, c)
    BY <1>3, <1>9, <2>3, CallersStay
  <2>5. CallerOK(cx2, cl2, n2, h)
    BY <1>4 DEF CallerOK
  <2> QED BY <1>3, <2>4, <2>5 DEF Callers
<1> QED BY <1>1, <1>3, <1>6, <1>7, <1>8, <1>9 DEF Sound

(* Going back to the messenger.                                            *)
LEMMA GoesBackKeeps ==
  ASSUME NEW cx, NEW cl, NEW n, Sound(cx, cl, n), NEW cx2, NEW cl2, NEW n2,
         GoesBack(cx, cl, n, cx2, cl2, n2)
  PROVE  /\ Sound(cx2, cl2, n2)
         /\ Current(cx2, cl2, n2)
         /\ LinkedOK(cx, cl, n) => LinkedOK(cx2, cl2, n2)
         /\ Callers(cx, cl, n) => Callers(cx2, cl2, n2)
<1> DEFINE h == cl[n].ctx
           m == cx[h].messenger
<1>1. /\ ContextsOK(cx) /\ ShapeOK(cx, cl, n) /\ n \in Nat /\ n > 0 /\ n2 = n
      /\ n \in 0 .. n /\ n <= n
      /\ \A d \in 1 .. n - 1 : cl2[d] = cl[d]
      /\ cl[n].fn = "interpret" /\ cl2[n].fn = "interpret" /\ CallOK(cx2, cl2[n])
      /\ cl2[n].phase # "call" /\ cl2[n].ctx = m
  BY DEF Sound, GoesBack
<1>2. h \in 1 .. Len(cx) /\ m \in 0 .. Len(cx) /\ m # Null /\ cx[m].kind # "native"
  BY <1>1 DEF GoesBack, ShapeOK, CallOK, ContextsOK, ContextOK
<1>3. m \in 1 .. Len(cx) /\ Null \in 0 .. Len(cx)
  <2>1. Len(cx) \in Nat
    BY <1>1 DEF ContextsOK
  <2> HIDE DEF m
  <2> QED BY <1>2, <2>1 DEF Null
<1>4. Rewritten(cx, cx2, h, Null)
  BY DEF GoesBack
<1>5. /\ \A c \in 1 .. Len(cx) : cx2[c].messenger \in {cx[c].messenger, Null}
      /\ \A c \in 1 .. Len(cx) : c # h => cx2[c].messenger = cx[c].messenger
      /\ Len(cx2) = Len(cx)
  BY <1>4 DEF Rewritten
<1> HIDE DEF h
<1>6. ContextsOK(cx2) /\ Kept(cx, cx2)
  BY <1>1, <1>3, <1>4, RewrittenOK
<1>7. ShapeOK(cx2, cl2, n)
  BY <1>1, <1>6, CutShape
<1>8. Current(cx2, cl2, n)
  <2>1. RootsOf(cx2)[m] = RootsOf(cx)[m]
    <3>1. ContextsOK(cx) /\ ContextsOK(cx2) /\ Kept(cx, cx2) /\ m \in 1 .. Len(cx)
      BY <1>1, <1>3, <1>6
    <3> QED BY ONLY <3>1, RootsKept
  <2>2. cl2[n].phase = "fetch" => cx2[RootsOf(cx)[cl2[n].ctx]].here = cl2[n].ctx
    BY Zenon DEF GoesBack
  <2> QED BY <1>1, <2>1, <2>2 DEF Current
<1>9. ASSUME LinkedOK(cx, cl, n)
      PROVE  LinkedOK(cx2, cl2, n)
  <2>1. PICK f : Framed(cx, cl, n, f)
    BY <1>9 DEF LinkedOK
  <2>2. GivenOK(cx, cl, n) /\ MessengersOK(cx, cl, n)
    BY <1>9 DEF LinkedOK
  <2>3. \E g : Framed(cx2, cl2, n, g)
    <3>1. /\ cx[cl[n].ctx].messenger # Null
          /\ cx[cx[cl[n].ctx].messenger].kind # "native"
          /\ \A c \in 1 .. Len(cx) : c # cl[n].ctx => cx2[c].messenger = cx[c].messenger
          /\ cl2[n].ctx = cx[cl[n].ctx].messenger
      BY <1>1, <1>2, <1>5 DEF h
    <3> QED BY ONLY <1>1, <1>5, <1>6, <2>1, <2>2, <3>1, BackFramed
  <2>4. \A d \in n + 1 .. n : cl2[d].phase = "enter" /\ cl2[d].phase \notin Runs
    BY <1>1
  <2>5. GivenOK(cx2, cl2, n)
    <3>1. /\ cl2[n].fn = cl[n].fn /\ ~(cl2[n].fn = "native")
          /\ \A d \in n + 1 .. n : cl2[d].fn = "native" => cl2[d].phase = "enter"
      BY <1>1, <2>4
    <3> QED BY ONLY <1>1, <1>6, <2>2, <3>1, GivenUpto
  <2>6. MessengersOK(cx2, cl2, n)
    BY <1>1, <1>5, <1>6, <2>2, <2>4, MessengersLess
  <2> QED BY <2>3, <2>5, <2>6 DEF LinkedOK
<1>10. ASSUME Callers(cx, cl, n)
       PROVE  Callers(cx2, cl2, n)
  <2>1. StillCalled(cx, cl, n, cx2, cl2, n, {})
    BY <1>1, <1>5, StillThere
  <2>2. \A c \in 1 .. Len(cx) : CallerOK(cx2, cl2, n, c)
    BY <1>6, <1>10, <2>1, CallersStay
  <2> QED BY <1>5, <2>2 DEF Callers
<1> QED BY <1>1, <1>6, <1>7, <1>8, <1>9, <1>10 DEF Sound

(* The handler of a break or continue.                                     *)
LEMMA HandsOnKeeps ==
  ASSUME NEW cx, NEW cl, NEW n, Sound(cx, cl, n), NEW cx2, NEW cl2, NEW n2,
         HandsOn(cx, cl, n, cx2, cl2, n2)
  PROVE  /\ Sound(cx2, cl2, n2)
         /\ Current(cx2, cl2, n2)
         /\ LinkedOK(cx, cl, n) => LinkedOK(cx2, cl2, n2)
         /\ Callers(cx, cl, n) => Callers(cx2, cl2, n2)
<1>1. /\ ContextsOK(cx) /\ ContextsOK(cx2) /\ Kept(cx, cx2) /\ ShapeOK(cx, cl, n)
      /\ n \in Nat /\ n > 0 /\ n2 = n + 1 /\ n2 \in Nat /\ n <= n2 /\ n \in 0 .. n
      /\ \A d \in 1 .. n - 1 : cl2[d] = cl[d]
      /\ cl[n].fn = "native" /\ cl[n].phase # "enter" /\ cl2[n].fn = "native"
      /\ cl2[n].ctx = cl[n].ctx /\ cl2[n].phase = "last"
      /\ CallOK(cx2, cl2[n]) /\ CallOK(cx2, cl2[n + 1]) /\ cl2[n + 1].fn = "native"
      /\ cl2[n + 1].phase = "enter"
      /\ "enter" \notin Runs /\ "last" \notin Runs
  BY DEF Sound, HandsOn, Runs
<1>2. \A c \in 1 .. Len(cx) : cx2[c].messenger = cx[c].messenger
  BY DEF HandsOn, SameMessengers
<1>3. \A d \in n + 1 .. n2 : d = n + 1
  BY <1>1
<1>4. ShapeOK(cx2, cl2, n + 1)
  BY <1>1, PushShape
<1>5. Current(cx2, cl2, n2)
  BY <1>1 DEF Current
<1>6. ASSUME LinkedOK(cx, cl, n)
      PROVE  LinkedOK(cx2, cl2, n2)
  <2>1. PICK f : Framed(cx, cl, n, f)
    BY <1>6 DEF LinkedOK
  <2>2. GivenOK(cx, cl, n) /\ MessengersOK(cx, cl, n)
    BY <1>6 DEF LinkedOK
  <2>3. \E g : Framed(cx2, cl2, n2, g)
    <3>1. /\ cl2[n].fn = cl[n].fn /\ cl2[n].ctx = cl[n].ctx
          /\ \A d \in n + 1 .. n2 : cl2[d].fn # "interpret"
      BY <1>1, <1>3
    <3> QED BY <1>1, <1>2, <2>1, <3>1, CutFramed
  <2>4. GivenAt(cx, cl, n)
    BY <1>1, <2>2 DEF GivenOK
  <2>5. GivenOK(cx2, cl2, n2)
    <3>1. /\ cl2[n].fn = cl[n].fn /\ cl2[n].ctx = cl[n].ctx
          /\ \A d \in n + 1 .. n2 : cl2[d].fn = "native" => cl2[d].phase = "enter"
      BY <1>1, <1>3
    <3> QED BY <1>1, <2>2, <2>4, <3>1, GivenUpto
  <2>6. MessengersOK(cx2, cl2, n2)
    <3>1. \A d \in n + 1 .. n2 : cl2[d].fn = "native" => cl2[d].phase \notin Runs
      BY <1>1, <1>3
    <3> QED BY <1>1, <1>2, <2>2, <3>1, MessengersLess
  <2> QED BY <2>3, <2>5, <2>6 DEF LinkedOK
<1>7. ASSUME Callers(cx, cl, n)
      PROVE  Callers(cx2, cl2, n2)
  <2>1. StillCalled(cx, cl, n, cx2, cl2, n2, {})
    BY <1>1, <1>2, StillThere
  <2>2. \A c \in 1 .. Len(cx) : CallerOK(cx2, cl2, n2, c)
    BY <1>1, <1>7, <2>1, CallersStay
  <2>3. \A c \in 1 .. Len(cx2) : c \notin 1 .. Len(cx) => cx2[c].kind # "block"
    BY <1>1 DEF ContextsOK, HandsOn
  <2> QED BY <2>2, <2>3 DEF Callers, CallerOK
<1> QED BY <1>1, <1>4, <1>5, <1>6, <1>7 DEF Sound

(* A native that returns.                                                  *)
LEMMA WindsUpKeeps ==
  ASSUME NEW cx, NEW cl, NEW n, Sound(cx, cl, n), NEW cx2, NEW cl2, NEW n2,
         WindsUp(cx, cl, n, cx2, cl2, n2)
  PROVE  /\ Sound(cx2, cl2, n2)
         /\ Current(cx2, cl2, n2)
         /\ LinkedOK(cx, cl, n) => LinkedOK(cx2, cl2, n2)
         /\ Callers(cx, cl, n) => Callers(cx2, cl2, n2)
<1>1. /\ ContextsOK(cx) /\ ShapeOK(cx, cl, n) /\ n \in Nat /\ n > 1 /\ n2 = n - 1
      /\ n2 \in Nat /\ n2 > 0 /\ n2 \in 0 .. n /\ n2 \in 1 .. n /\ n \in 1 .. n /\ n2 + 1 = n
      /\ \A d \in 1 .. n2 - 1 : cl2[d] = cl[d]
      /\ cl[n].fn = "native"
      /\ cl2[n2].fn = cl[n2].fn /\ cl2[n2].ctx = cl[n2].ctx
      /\ cl[n2].fn = "native" => cl2[n2] = cl[n2]
      /\ cl[n2].fn = "interpret" => CallOK(cx2, cl2[n2]) /\ cl2[n2].phase = "check"
  BY DEF Sound, WindsUp
<1>2. /\ ContextsOK(cx2) /\ Kept(cx, cx2) /\ Len(cx2) = Len(cx)
      /\ \A c \in 1 .. Len(cx) : cx2[c].messenger = cx[c].messenger
  BY <1>1, UnchangedMessengers DEF WindsUp, SameMessengers
<1>3. /\ cl[n2].fn = "native" => cl[n2].phase = "last" /\ CallOK(cx2, cl2[n2])
      /\ cl[n2].fn \in {"native", "interpret"}
      /\ "last" \notin Runs /\ "check" \notin Runs
  <2>1. NestedOK(cl, n, n) /\ CallOK(cx, cl[n2])
    BY <1>1 DEF ShapeOK
  <2>2. CallOK(cx2, cl[n2])
    BY <1>1, <1>2, <2>1, CallKept
  <2> QED BY <1>1, <2>1, <2>2 DEF NestedOK, CallOK, Call, Runs
<1>4. ShapeOK(cx2, cl2, n2)
  BY <1>1, <1>2, <1>3, CutShape
<1>5. Current(cx2, cl2, n2)
  BY <1>1, <1>3 DEF Current
<1>6. ASSUME LinkedOK(cx, cl, n)
      PROVE  LinkedOK(cx2, cl2, n2)
  <2>1. PICK f : Framed(cx, cl, n, f)
    BY <1>6 DEF LinkedOK
  <2>2. /\ cl2[n2].fn = cl[n2].fn /\ cl2[n2].ctx = cl[n2].ctx
        /\ cl2[n2].phase \in Runs => cl2[n2] = cl[n2]
        /\ cl[n2].fn = "native" => cl[n2].phase # "enter"
    BY <1>1, <1>3
  <2>3. \A c \in 1 .. Len(cx) : f[c] \in 1 .. n2 => cx2[c].messenger = cx[c].messenger
    BY <1>2
  <2> QED BY <1>1, <1>2, <1>6, <2>1, <2>2, <2>3, CutLinked
<1>7. ASSUME Callers(cx, cl, n)
      PROVE  Callers(cx2, cl2, n2)
  <2>1. StillCalled(cx, cl, n, cx2, cl2, n2, {})
    <3>1. ASSUME NEW d \in 1 .. n - 1, cl[d + 1].fn = "interpret"
          PROVE  d \in 1 .. n2 - 1 /\ cl2[d] = cl[d] /\ cl2[d + 1].fn = "interpret"
      <4>1. d # n2
        BY <1>1, <3>1
      <4>2. d \in 1 .. n2 - 1
        BY <1>1, <4>1
      <4>3. CASE d + 1 = n2
        BY <1>1, <3>1, <4>2, <4>3
      <4>4. CASE d + 1 # n2
        BY <1>1, <3>1, <4>2, <4>4
      <4> QED BY <4>3, <4>4
    <3> QED BY <1>2, <3>1 DEF StillCalled
  <2>2. \A c \in 1 .. Len(cx) : CallerOK(cx2, cl2, n2, c)
    BY <1>2, <1>7, <2>1, CallersStay
  <2> QED BY <1>2, <2>2 DEF Callers
<1> QED BY <1>1, <1>2, <1>4, <1>5, <1>6, <1>7 DEF Sound

(* A native that runs a block: the block is in no interpreter, so it can   *)
(* begin a chain of its own, whose way back is the native.                 *)
LEMMA StartsKeeps ==
  ASSUME NEW cx, NEW cl, NEW n, Sound(cx, cl, n), NEW cx2, NEW cl2, NEW n2, NEW b,
         Starts(cx, cl, n, cx2, cl2, n2, b)
  PROVE  /\ Sound(cx2, cl2, n2)
         /\ Current(cx2, cl2, n2)
         /\ LinkedOK(cx, cl, n) /\ GivenAt(cx, cl, n) => LinkedOK(cx2, cl2, n2)
         /\ Callers(cx, cl, n) => Callers(cx2, cl2, n2)
<1>1. /\ ContextsOK(cx) /\ ShapeOK(cx, cl, n) /\ n \in Nat /\ n > 0 /\ n2 = n + 1
      /\ n2 \in Nat /\ n <= n2 /\ n \in 0 .. n
      /\ \A d \in 1 .. n - 1 : cl2[d] = cl[d]
      /\ cl[n].fn = "native" /\ cl2[n].fn = "native" /\ cl2[n].ctx = cl[n].ctx
      /\ cl2[n].phase \in Runs /\ b = RunByIn(cx, cl2[n])
      /\ CallOK(cx2, cl2[n]) /\ CallOK(cx2, cl2[n + 1]) /\ cl2[n + 1].fn = "interpret"
      /\ cl2[n + 1].ctx = b /\ cl2[n + 1].phase = "fetch"
  BY DEF Sound, Starts
<1>2. /\ cl[n].ctx \in 1 .. Len(cx) /\ cl[n].ctx \in 0 .. Len(cx) /\ Null \in 0 .. Len(cx)
      /\ cx[cl[n].ctx].kind = "native" /\ Len(cx) \in Nat
      /\ \A c \in 1 .. Len(cx) : c # Null
  BY <1>1 DEF ShapeOK, CallOK, NativeOK, ContextsOK, Null
<1>3. PICK x \in {b, Null}, m \in {cl[n].ctx, Null} :
        /\ Rewritten(cx, cx2, x, m)
        /\ x = b => m = cl[n].ctx
        /\ x # b => \/ cx[cl[n].ctx].code = "timesDo"
                    \/ cl[n].phase \in Runs /\ b = RunByIn(cx, cl[n])
  <2>1. CASE Rewritten(cx, cx2, b, cl[n].ctx)
    BY <2>1
  <2>2. CASE ~Rewritten(cx, cx2, b, cl[n].ctx)
    <3>1. /\ Rewritten(cx, cx2, Null, Null)
          /\ \/ cx[cl[n].ctx].code = "timesDo"
             \/ cl[n].phase \in Runs /\ b = RunByIn(cx, cl[n])
      BY <2>2 DEF Starts
    <3>2. b # Null
      <4>1. cx2[cl[n].ctx].kind = "native" /\ cl[n].ctx \in 1 .. Len(cx2)
            /\ RunByIn(cx2, cl2[n]) = b
        <5>1. /\ cl2[n].ctx = cl[n].ctx /\ cl[n].ctx \in 1 .. Len(cx)
              /\ cx[cl[n].ctx].kind = "native" /\ b = RunByIn(cx, cl2[n])
          BY <1>1, <1>2
        <5>2. /\ Len(cx2) = Len(cx) /\ cx2[cl[n].ctx].kind = cx[cl[n].ctx].kind
              /\ cx2[cl[n].ctx].locals = cx[cl[n].ctx].locals
          BY ONLY <3>1, <5>1 DEF Rewritten
        <5> QED BY ONLY <5>1, <5>2 DEF RunByIn
      <4>2. ContextsOK(cx2)
        BY <1>1, <3>1, UnchangedMessengers
      <4>3. IsBlock(cx2, b)
        BY <1>1, <4>1, <4>2, RunByFacts
      <4> QED BY ONLY <4>2, <4>3 DEF IsBlock, ContextsOK, Null
    <3> QED BY <3>1, <3>2
  <2> QED BY <2>1, <2>2
<1>4. ContextsOK(cx2) /\ Kept(cx, cx2) /\ Len(cx2) = Len(cx)
  <2>1. m \in 0 .. Len(cx)
    BY <1>2, Zenon
  <2>2. Len(cx2) = Len(cx)
    BY <1>3 DEF Rewritten
  <2> QED BY <1>1, <1>3, <2>1, <2>2, RewrittenOK
<1>5. /\ \A c \in 1 .. Len(cx) : c # b => cx2[c].messenger = cx[c].messenger
      /\ \A c \in 1 .. Len(cx) : cx2[c].messenger = IF c = x THEN m ELSE cx[c].messenger
  <2>1. \A c \in 1 .. Len(cx) : cx2[c].messenger = IF c = x THEN m ELSE cx[c].messenger
    BY ONLY <1>3 DEF Rewritten
  <2>2. x \in {b, Null} /\ \A c \in 1 .. Len(cx) : c # Null
    BY <1>2
  <2> QED BY ONLY <2>1, <2>2
<1>6. /\ CallOK(cx, cl2[n]) /\ RunByIn(cx2, cl2[n]) = b
      /\ b \in 1 .. Len(cx) /\ cx[b].kind = "block"
      /\ \E k \in 1 .. Takes(cx[cl[n].ctx].code) : b = cx[cl[n].ctx].locals[k]
  <2>1. cx2[cl[n].ctx].kind = cx[cl[n].ctx].kind /\ cx2[cl[n].ctx].code = cx[cl[n].ctx].code
    BY <1>2, <1>4 DEF Kept
  <2>2. CallOK(cx, cl2[n])
    BY <1>1, <1>2, <2>1 DEF CallOK, NativeOK
  <2>3. RunByIn(cx2, cl2[n]) = b
    BY <1>1, <1>4, <2>2, RunByKept
  <2>4. /\ IsBlock(cx, b)
        /\ \E k \in 1 .. Takes(cx[cl2[n].ctx].code) : b = cx[cl2[n].ctx].locals[k]
    BY <1>1, <2>2, RunByFacts
  <2>5. cl2[n].ctx = cl[n].ctx
    BY <1>1
  <2> QED BY ONLY <2>2, <2>3, <2>4, <2>5 DEF IsBlock
<1>7. ShapeOK(cx2, cl2, n + 1)
  <2>1. cl2[n + 1].phase # "call" /\ cl2[n].fn = cl[n].fn
    BY <1>1
  <2> QED BY <1>1, <1>4, <2>1, PushShape
<1>8. Current(cx2, cl2, n + 1)
  <2>1. RootsOf(cx2)[b] = RootsOf(cx)[b]
    <3>1. ContextsOK(cx) /\ ContextsOK(cx2) /\ Kept(cx, cx2) /\ b \in 1 .. Len(cx)
      BY <1>1, <1>4, <1>6, Zenon
    <3> QED BY ONLY <3>1, RootsKept
  <2>2. cx2[RootsOf(cx)[b]].here = b
    BY DEF Starts
  <2>3. cl2[n + 1].ctx = b
    BY <1>1
  <2> QED BY ONLY <2>1, <2>2, <2>3 DEF Current
<1>9. ASSUME LinkedOK(cx, cl, n), GivenAt(cx, cl, n)
      PROVE  LinkedOK(cx2, cl2, n + 1)
  <2>1. PICK f : Framed(cx, cl, n, f)
    BY <1>9 DEF LinkedOK
  <2>2. GivenOK(cx, cl, n) /\ MessengersOK(cx, cl, n)
    BY <1>9 DEF LinkedOK
  <2>3. /\ f[b] = 0
        /\ \A d \in 1 .. n - 1 : cl[d].fn = "native" /\ cl[d].phase \in Runs =>
             RunByIn(cx, cl[d]) # b
    <3>1. PICK k \in 1 .. Takes(cx[cl[n].ctx].code) : b = cx[cl[n].ctx].locals[k]
      BY ONLY <1>6
    <3>2. /\ ContextsOK(cx) /\ n \in Nat /\ ShapeOK(cx, cl, n) /\ Framed(cx, cl, n, f)
          /\ n > 0 /\ cl[n].fn = "native" /\ GivenAt(cx, cl, n)
          /\ k \in 1 .. Takes(cx[cl[n].ctx].code)
      BY <1>1, <1>9, <2>1, Zenon
    <3>3. /\ f[cx[cl[n].ctx].locals[k]] = 0
          /\ \A d \in 1 .. n - 1 : cl[d].fn = "native" /\ cl[d].phase \in Runs =>
               RunByIn(cx, cl[d]) # cx[cl[n].ctx].locals[k]
      BY ONLY <3>2, GivenIsFree
    <3> QED BY ONLY <3>1, <3>3
  <2>4. \E g : Framed(cx2, cl2, n2, g)
    <3>1. cx[b].kind # "native" /\ RunByIn(cx2, cl2[n]) = b /\ b \in 1 .. Len(cx)
      BY <1>6
    <3>2. /\ ContextsOK(cx) /\ ShapeOK(cx, cl, n) /\ n \in Nat /\ n > 0
          /\ \A d \in 1 .. n - 1 : cl2[d] = cl[d]
          /\ cl[n].fn = "native" /\ cl2[n].fn = "native"
          /\ n2 = n + 1 /\ cl2[n2].fn = "interpret" /\ cl2[n2].ctx = b
      BY <1>1
    <3>3. f[b] = 0
      BY <2>3
    <3>4. CallsBlock(cx, cl, n, cx2, cl2, n2, b)
      BY ONLY <1>4, <1>5, <3>1, <3>2 DEF CallsBlock
    <3> QED BY ONLY <1>4, <2>1, <3>2, <3>3, <3>4, RunFramed
  <2>5. GivenOK(cx2, cl2, n + 1)
    <3>1. /\ cl2[n].fn = cl[n].fn /\ n + 1 \in Nat /\ n <= n + 1
          /\ \A d \in n + 1 .. n + 1 : cl2[d].fn = "native" => cl2[d].phase = "enter"
      BY <1>1
    <3> QED BY <1>1, <1>4, <1>9, <2>2, <3>1, GivenUpto
  <2>6. cx2[b].messenger \in {cl[n].ctx, Null}
    <3>1. CASE x = b
      <4>1. m = cl[n].ctx
        BY <1>3, <3>1, Zenon
      <4> QED BY ONLY <1>5, <1>6, <3>1, <4>1
    <3>2. CASE x # b
      <4>1. cl[n].phase \in Runs /\ b = RunByIn(cx, cl[n])
        BY <1>3, <1>9, <3>2 DEF GivenAt
      <4>2. cx[b].messenger \in {cl[n].ctx, Null}
        <5>1. n \in 1 .. n /\ cl[n].fn = "native"
          BY <1>1
        <5> QED BY ONLY <2>2, <4>1, <5>1 DEF MessengersOK
      <4>3. cx2[b].messenger = cx[b].messenger
        BY ONLY <1>5, <1>6, <3>2
      <4> QED BY <4>2, <4>3
    <3> QED BY ONLY <3>1, <3>2
  <2>7. MessengersOK(cx2, cl2, n + 1)
    <3>1. cx2[1].messenger = Null
      <4>1. 1 \in 1 .. Len(cx) /\ cx[1].kind = "method" /\ cx[1].messenger = Null
        <5>1. ContextsOK(cx) /\ MessengersOK(cx, cl, n)
          BY <1>1, <2>2
        <5> QED BY ONLY <5>1 DEF MessengersOK, ContextsOK
      <4>2. 1 # b
        BY <1>6, <4>1
      <4> QED BY ONLY <1>5, <4>1, <4>2
    <3>2. \A d \in 1 .. n - 1 : cl[d].fn = "native" /\ cl[d].phase \in Runs =>
            cx2[RunByIn(cx, cl[d])].messenger \in {cx[RunByIn(cx, cl[d])].messenger, Null}
      <4>1. SUFFICES ASSUME NEW d \in 1 .. n - 1, cl[d].fn = "native", cl[d].phase \in Runs
                     PROVE  cx2[RunByIn(cx, cl[d])].messenger
                              \in {cx[RunByIn(cx, cl[d])].messenger, Null}
        OBVIOUS
      <4>2. ContextsOK(cx) /\ CallOK(cx, cl[d])
        BY <1>1 DEF ShapeOK
      <4>3. RunByIn(cx, cl[d]) \in 1 .. Len(cx)
        BY ONLY <4>1, <4>2, RunByFacts DEF IsBlock
      <4>4. RunByIn(cx, cl[d]) # b
        BY <2>3, <4>1
      <4> QED BY ONLY <1>5, <4>3, <4>4
    <3>3. cx2[RunByIn(cx2, cl2[n])].messenger \in {cl2[n].ctx, Null}
      <4>1. cl2[n].ctx = cl[n].ctx /\ RunByIn(cx2, cl2[n]) = b
        BY <1>1, <1>6
      <4> QED BY ONLY <2>6, <4>1
    <3>4. \A d \in n + 1 .. n + 1 : cl2[d].fn = "native" => cl2[d].phase \notin Runs
      BY <1>1
    <3>5. n + 1 \in Nat /\ n <= n + 1
      BY <1>1
    <3> QED BY <1>1, <1>4, <2>2, <3>1, <3>2, <3>3, <3>4, <3>5, MessengersUpto
  <2> QED BY <1>1, <2>4, <2>5, <2>7 DEF LinkedOK
<1>10. ASSUME Callers(cx, cl, n)
       PROVE  Callers(cx2, cl2, n + 1)
  <2>1. StillCalled(cx, cl, n, cx2, cl2, n + 1, {x})
    <3>1. \A c \in 1 .. Len(cx) : c \notin {x} => cx2[c].messenger \in {cx[c].messenger, Null}
      BY <1>3 DEF Rewritten
    <3> QED BY <1>1, <3>1, StillThere
  <2>2. \A c \in 1 .. Len(cx) : c \notin {x} => CallerOK(cx2, cl2, n + 1, c)
    BY <1>4, <1>10, <2>1, CallersStay
  <2>3. x \in 1 .. Len(cx) => CallerOK(cx2, cl2, n + 1, x)
    <3>1. SUFFICES ASSUME x \in 1 .. Len(cx)
                   PROVE  CallerOK(cx2, cl2, n + 1, x)
      OBVIOUS
    <3>2. x = b
      <4>1. x \in {b, Null}
        BY Zenon
      <4> QED BY ONLY <1>2, <3>1, <4>1
    <3>3. cx2[b].messenger = cl2[n].ctx
      <4>1. m = cl2[n].ctx
        BY <1>1, <1>3, <3>2, Zenon
      <4> QED BY ONLY <1>5, <1>6, <3>2, <4>1
    <3>4. n \in 1 .. (n + 1) - 1
      BY <1>1
    <3>5. cl2[n].fn = "native" /\ cl2[n + 1].fn = "interpret"
      BY <1>1
    <3>6. RunByIn(cx2, cl2[n]) = b
      BY <1>6
    <3> QED BY ONLY <3>2, <3>3, <3>4, <3>5, <3>6 DEF CallerOK
  <2> QED BY <1>4, <2>2, <2>3 DEF Callers
<1> QED BY <1>1, <1>4, <1>7, <1>8, <1>9, <1>10 DEF Sound

(* A loop over an empty list.                                              *)
LEMMA SkipsKeeps ==
  ASSUME NEW cx, NEW cl, NEW n, Sound(cx, cl, n), NEW cx2, NEW cl2, NEW n2,
         Skips(cx, cl, n, cx2, cl2, n2)
  PROVE  /\ Sound(cx2, cl2, n2)
         /\ Current(cx2, cl2, n2)
         /\ LinkedOK(cx, cl, n) /\ GivenAt(cx, cl, n) => LinkedOK(cx2, cl2, n2)
<1> DEFINE b == cx[cl[n].ctx].locals[1]
<1>1. /\ ContextsOK(cx) /\ ShapeOK(cx, cl, n) /\ n \in Nat /\ n > 0 /\ n2 = n
      /\ n <= n /\ n \in 0 .. n
      /\ \A d \in 1 .. n - 1 : cl2[d] = cl[d]
      /\ cl[n].fn = "native" /\ cl2[n].fn = "native" /\ cl2[n].ctx = cl[n].ctx
      /\ cl2[n].phase = "last" /\ CallOK(cx2, cl2[n])
      /\ Rewritten(cx, cx2, b, cl[n].ctx)
      /\ "last" \notin Runs
  BY DEF Sound, Skips, Runs
<1>2. /\ cl[n].ctx \in 1 .. Len(cx) /\ cl[n].ctx \in 0 .. Len(cx)
      /\ cx[cl[n].ctx].kind = "native" /\ ContextOK(cx, cl[n].ctx)
      /\ 1 \in 1 .. Takes(cx[cl[n].ctx].code)
  BY <1>1, TakesOne DEF ShapeOK, CallOK, NativeOK, ContextsOK
<1>3. b \in 1 .. Len(cx) /\ cx[b].kind = "block"
  BY <1>2 DEF ContextOK, IsBlock
<1> HIDE DEF b
<1>4. /\ Len(cx2) = Len(cx)
      /\ \A c \in 1 .. Len(cx) : c # b => cx2[c].messenger = cx[c].messenger
  BY <1>1 DEF Rewritten
<1>5. ContextsOK(cx2) /\ Kept(cx, cx2)
  BY <1>1, <1>2, RewrittenOK
<1>6. ShapeOK(cx2, cl2, n)
  BY <1>1, <1>5, CutShape
<1>7. Current(cx2, cl2, n)
  BY <1>1 DEF Current
<1>8. ASSUME LinkedOK(cx, cl, n), GivenAt(cx, cl, n)
      PROVE  LinkedOK(cx2, cl2, n)
  <2>1. PICK f : Framed(cx, cl, n, f)
    BY <1>8 DEF LinkedOK
  <2>2. GivenOK(cx, cl, n) /\ MessengersOK(cx, cl, n)
    BY <1>8 DEF LinkedOK
  <2>3. /\ f[b] = 0
        /\ \A d \in 1 .. n - 1 : cl[d].fn = "native" /\ cl[d].phase \in Runs =>
             RunByIn(cx, cl[d]) # b
    BY <1>1, <1>2, <1>8, <2>1, GivenIsFree DEF b
  <2>4. \E g : Framed(cx2, cl2, n, g)
    <3>1. /\ cl2[n].fn = cl[n].fn /\ cl2[n].ctx = cl[n].ctx
          /\ \A d \in n + 1 .. n : cl2[d].fn # "interpret"
          /\ \A c \in 1 .. Len(cx) : f[c] \in 1 .. n => cx2[c].messenger = cx[c].messenger
      BY <1>1, <1>4, <2>3
    <3> QED BY ONLY <1>1, <1>5, <2>1, <3>1, CutFramed
  <2>5. GivenOK(cx2, cl2, n)
    <3>1. /\ cl2[n].fn = cl[n].fn /\ cl2[n].ctx = cl[n].ctx
          /\ \A d \in n + 1 .. n : cl2[d].fn = "native" => cl2[d].phase = "enter"
      BY <1>1
    <3> QED BY ONLY <1>1, <1>5, <1>8, <2>2, <3>1, GivenUpto
  <2>6. MessengersOK(cx2, cl2, n)
    <3>1. cx2[1].messenger = Null
      BY <1>1, <1>3, <1>4, <2>2 DEF MessengersOK, ContextsOK
    <3>2. \A d \in 1 .. n - 1 : cl[d].fn = "native" /\ cl[d].phase \in Runs =>
            cx2[RunByIn(cx, cl[d])].messenger \in {cx[RunByIn(cx, cl[d])].messenger, Null}
      BY <1>1, <1>4, <2>3, RunByFacts DEF ShapeOK, IsBlock
    <3>3. /\ cl2[n].phase \notin Runs
          /\ \A d \in n + 1 .. n : cl2[d].fn = "native" => cl2[d].phase \notin Runs
      BY <1>1
    <3> QED BY ONLY <1>1, <1>5, <2>2, <3>1, <3>2, <3>3, MessengersUpto
  <2> QED BY <2>4, <2>5, <2>6 DEF LinkedOK
<1> QED BY <1>1, <1>5, <1>6, <1>7, <1>8 DEF Sound

(***************************************************************************)
(* The machine's state                                                     *)
(***************************************************************************)
TypeInv ==
  /\ prog \in Programs
  /\ stack \in Seq(Call)
  /\ Sound(ctx, Calls(stack), Len(stack))
  /\ trace \in Seq(Codes \X Nat)
  /\ failed \in BOOLEAN

(* The innermost call, and the context it is in.                           *)
LEMMA TopFacts ==
  ASSUME TypeInv, stack # <<>>
  PROVE  /\ ContextsOK(ctx) /\ stack \in Seq(Call)
         /\ ShapeOK(ctx, Calls(stack), Len(stack))
         /\ Len(stack) \in Nat /\ Len(stack) > 0 /\ Len(stack) \in 1 .. Len(stack)
         /\ Calls(stack)[Len(stack)] = top
         /\ top \in Call
         /\ CallOK(ctx, top)
         /\ NestedOK(Calls(stack), Len(stack), Len(stack))
         /\ cur \in 1 .. Len(ctx) /\ cur \in Nat \ {0}
         /\ DOMAIN ctx = 1 .. Len(ctx) /\ Len(ctx) \in Nat
         /\ ctx[cur] \in Context /\ ContextOK(ctx, cur)
<1>1. /\ ContextsOK(ctx) /\ stack \in Seq(Call)
      /\ ShapeOK(ctx, Calls(stack), Len(stack))
  BY DEF TypeInv, Sound
<1>2. /\ Len(stack) \in Nat /\ Len(stack) > 0 /\ Len(stack) \in 1 .. Len(stack)
      /\ Calls(stack)[Len(stack)] = top /\ top \in Call
  BY <1>1, CallsFacts DEF top
<1>3. CallOK(ctx, top) /\ NestedOK(Calls(stack), Len(stack), Len(stack))
  BY <1>1, <1>2 DEF ShapeOK
<1>4. cur \in 1 .. Len(ctx)
  BY <1>3 DEF CallOK, cur
<1>5. /\ DOMAIN ctx = 1 .. Len(ctx) /\ Len(ctx) \in Nat
      /\ cur \in Nat /\ cur # Null /\ ctx[cur] \in Context /\ ContextOK(ctx, cur)
  BY <1>1, <1>4, ContextFacts
<1> QED BY <1>1, <1>2, <1>3, <1>4, <1>5 DEF Null

(* Root, for the contexts as they are.                                     *)
LEMMA RootIs ==
  ASSUME ContextsOK(ctx), NEW c \in 1 .. Len(ctx)
  PROVE  Root(c) = RootsOf(ctx)[c]
BY DEF Root, RootsOf, IsRoots

(* An interpreter that fetches is in a method's or a block's code.         *)
LEMMA FetchFacts ==
  ASSUME TypeInv, Running, top.phase = "fetch"
  PROVE  /\ ctx[cur].kind \in {"method", "block"}
         /\ ctx[cur].code \in Codes
         /\ code \in Seq(Instructions)
         /\ top.ip \in Nat \ {0}
         /\ Root(cur) \in 1 .. Len(ctx) /\ Root(cur) = RootsOf(ctx)[cur]
         /\ ctx[Root(cur)].kind = "method"
         /\ Note => trace' \in Seq(Codes \X Nat)
<1>1. stack # <<>> /\ top.fn = "interpret"
  BY DEF Running
<1>2. /\ ctx[cur].kind # "native" /\ top.ip \in Nat /\ top.ip # 0
  BY <1>1, TopFacts DEF CallOK, InterpretOK, cur, Call
<1>3. ctx[cur].kind \in {"method", "block"} /\ ctx[cur].code \in Codes
  BY <1>1, <1>2, TopFacts DEF Context, ContextOK, Codes
<1>4. prog \in [Codes -> Seq(Instructions)]
  BY ProgramsAssumption DEF TypeInv
<1>5. code \in Seq(Instructions)
  BY <1>3, <1>4 DEF code
<1>6. Root(cur) = RootsOf(ctx)[cur]
  BY <1>1, TopFacts, RootIs
<1>7. Root(cur) \in 1 .. Len(ctx) /\ ctx[Root(cur)].kind = "method"
  BY <1>1, <1>2, <1>6, TopFacts, RootsAreMethods
<1>8. Note => trace' \in Seq(Codes \X Nat)
  BY <1>2, <1>3 DEF Note, TypeInv
<1> QED BY <1>2, <1>3, <1>5, <1>6, <1>7, <1>8

(* The operands of an instruction.                                         *)
LEMMA InstructionFacts ==
  ASSUME TypeInv, NEW op, Fetching(op)
  PROVE  /\ instr \in Instructions /\ instr.op = op
         /\ op = "block" => instr.code \in Blocks
         /\ op = "call" => instr.method \in Methods /\ instr.block \in Names
         /\ op = "context" => instr.sel \in {"break", "continue", "return"}
         /\ op = "send" => /\ instr.sel \in Selectors
                           /\ instr.blocks \in [1 .. Takes(instr.sel) -> Names]
<1>1. code \in Seq(Instructions) /\ top.ip \in 1 .. Len(code)
  BY FetchFacts DEF Fetching
<1>2. instr \in Instructions /\ instr.op = op
  BY <1>1 DEF instr, Fetching
<1> DEFINE Send(s) == [op : {"send"}, sel : {s}, blocks : [1 .. Takes(s) -> Names]]
           Plain == [op : {"move", "throw"}] \union [op : {"block"}, code : Blocks]
           Sends == UNION {Send(s) : s \in Selectors}
           Call1 == [op : {"call"}, method : Methods, block : Names]
           Told == [op : {"context"}, sel : {"break", "continue", "return"}]
<1>3. Instructions = Plain \union Sends \union Call1 \union Told
  BY DEF Instructions
<1>4. \A x \in Plain : x.op \in {"move", "throw"} \/ (x.op = "block" /\ x.code \in Blocks)
  OBVIOUS
<1>5. \A x \in Call1 : x.op = "call" /\ x.method \in Methods /\ x.block \in Names
  OBVIOUS
<1>6. \A x \in Told : x.op = "context" /\ x.sel \in {"break", "continue", "return"}
  OBVIOUS
<1>7. ASSUME NEW s \in Selectors, NEW x \in Send(s)
      PROVE  x.op = "send" /\ x.sel = s /\ x.blocks \in [1 .. Takes(s) -> Names]
  OBVIOUS
<1> HIDE DEF Send, Plain, Call1, Told
<1>8. \A x \in Sends : \E s \in Selectors : x \in Send(s)
  BY Zenon
<1>9. \A x \in Sends : /\ x.op = "send" /\ x.sel \in Selectors
                       /\ x.blocks \in [1 .. Takes(x.sel) -> Names]
  BY <1>7, <1>8
<1> HIDE DEF Sends
<1>10. instr \in Plain \/ instr \in Sends \/ instr \in Call1 \/ instr \in Told
  BY <1>2, <1>3
<1> QED BY <1>2, <1>4, <1>5, <1>6, <1>9, <1>10

(* A name stands for a block, or for none yet.                             *)
LEMMA HeldFacts ==
  ASSUME TypeInv, Running, top.phase = "fetch", NEW name \in Names
  PROVE  /\ Held(name) \in Nat
         /\ Held(name) = Null \/ IsBlock(ctx, Held(name))
<1>1. Root(cur) \in 1 .. Len(ctx) /\ ctx[Root(cur)].kind = "method"
  BY FetchFacts
<1>2. ContextOK(ctx, Root(cur))
  BY <1>1 DEF TypeInv, Sound, ContextsOK
<1> QED BY <1>1, <1>2 DEF ContextOK, Held

(***************************************************************************)
(* What the actions do: instructions                                       *)
(***************************************************************************)
(* A call of execute's loop.                                               *)
LEMMA InterpretIs ==
  ASSUME NEW c \in Nat, NEW ip \in Nat \ {0}, NEW phase \in {"fetch", "check", "call"}
  PROVE  /\ Interpret(c, ip, phase) \in Call
         /\ Interpret(c, ip, phase).fn = "interpret"
         /\ Interpret(c, ip, phase).ctx = c
         /\ Interpret(c, ip, phase).phase = phase
         /\ \A cx : c \in 1 .. Len(cx) /\ (phase = "fetch" => cx[c].kind # "native") =>
              CallOK(cx, Interpret(c, ip, phase))
<1> DEFINE x == Interpret(c, ip, phase)
<1>1. /\ x = [fn |-> "interpret", ctx |-> c, ip |-> ip, phase |-> phase, left |-> 0]
      /\ 0 \in 0 .. Items
  BY ItemsAssumption DEF Interpret
<1> HIDE DEF x
<1>2. /\ x \in Call /\ x.fn = "interpret" /\ x.ctx = c /\ x.phase = phase /\ x.ip = ip
  BY <1>1 DEF Call, Phases
<1>3. ASSUME NEW cx, c \in 1 .. Len(cx), phase = "fetch" => cx[c].kind # "native"
      PROVE  CallOK(cx, x)
  BY <1>2, <1>3 DEF CallOK, InterpretOK
<1> QED BY <1>2, <1>3 DEF x

(* A call of a native.                                                     *)
LEMMA NativeIs ==
  ASSUME NEW c \in Nat, NEW phase \in Phases, NEW left \in 0 .. Items
  PROVE  /\ Native(c, phase, left) \in Call
         /\ Native(c, phase, left).fn = "native"
         /\ Native(c, phase, left).ctx = c
         /\ Native(c, phase, left).phase = phase
         /\ Native(c, phase, left).left = left
<1> DEFINE x == Native(c, phase, left)
<1>1. x = [fn |-> "native", ctx |-> c, ip |-> 0, phase |-> phase, left |-> left]
  BY DEF Native
<1> HIDE DEF x
<1>2. /\ x \in Call /\ x.fn = "native" /\ x.ctx = c /\ x.phase = phase /\ x.left = left
  BY <1>1 DEF Call
<1> QED BY <1>2 DEF x

(* The loop looks further once the context is done.                        *)
LEMMA PhaseAfterIs ==
  ASSUME NEW done \in BOOLEAN
  PROVE  PhaseAfter(done) \in {"fetch", "check"} /\ (PhaseAfter(done) = "fetch" <=> ~done)
BY DEF PhaseAfter

(* The calls after a step of the innermost interpreter, which stays one.   *)
LEMMA StepsTop ==
  ASSUME TypeInv, stack # <<>>, NEW x \in Call, stack' = <<x>> \o Tail(stack)
  PROVE  /\ stack' \in Seq(Call)
         /\ Len(stack') = Len(stack)
         /\ Calls(stack')[Len(stack)] = x
         /\ \A d \in 1 .. Len(stack) - 1 : Calls(stack')[d] = Calls(stack)[d]
<1>1. CutTo(stack, stack', Len(stack), x)
  BY ReplaceTop DEF TypeInv
<1> QED BY <1>1 DEF CutTo

(* The innermost interpreter goes on in its context.                       *)
LEMMA StepsOn ==
  ASSUME TypeInv, Running, top.phase = "fetch",
         ContextsOK(ctx'), Kept(ctx, ctx'), SameMessengers(ctx, ctx'),
         \A c \in Len(ctx) + 1 .. Len(ctx') :
           ctx'[c].kind = "block" /\ ctx'[c].messenger = cur,
         NEW ip \in Nat \ {0}, NEW phase \in {"fetch", "check"},
         phase = "fetch" => ctx'[Root(cur)].here \in {ctx[Root(cur)].here, cur},
         stack' = <<Interpret(cur, ip, phase)>> \o Tail(stack)
  PROVE  /\ stack' \in Seq(Call)
         /\ GoesOn(ctx, Calls(stack), Len(stack), ctx', Calls(stack'), Len(stack'))
<1> DEFINE n == Len(stack)
           cl == Calls(stack)
           cl2 == Calls(stack')
           x == Interpret(cur, ip, phase)
<1>1. stack # <<>> /\ top.fn = "interpret"
  BY DEF Running
<1>2. /\ n \in Nat /\ n > 0 /\ cl[n] = top /\ cl[n].fn = "interpret" /\ cl[n].phase = "fetch"
      /\ cl[n].ctx = cur /\ cur \in 1 .. Len(ctx) /\ cur \in Nat /\ Len(ctx) \in Nat
  BY <1>1, TopFacts DEF cur
<1>3. cur \in 1 .. Len(ctx') /\ ctx'[cur].kind = ctx[cur].kind /\ ctx[cur].kind # "native"
  <2>1. Len(ctx) <= Len(ctx') /\ Len(ctx') \in Nat
    BY DEF Kept, ContextsOK
  <2>2. ctx[cur].kind # "native"
    BY FetchFacts
  <2> QED BY <1>2, <2>1, <2>2 DEF Kept
<1>4. /\ x \in Call /\ x.fn = "interpret" /\ x.ctx = cur /\ x.phase = phase
      /\ CallOK(ctx', x)
  BY <1>2, <1>3, InterpretIs
<1> HIDE DEF x
<1>5. /\ stack' \in Seq(Call)
      /\ Len(stack') = n
      /\ cl2[n] = x
      /\ \A d \in 1 .. n - 1 : cl2[d] = cl[d]
  BY <1>1, <1>4, StepsTop DEF x
<1>6. Root(cur) = RootsOf(ctx)[cur]
  BY FetchFacts
<1> HIDE DEF cl, cl2, n
<1>7. GoesOn(ctx, cl, n, ctx', cl2, Len(stack'))
  BY <1>2, <1>4, <1>5, <1>6 DEF GoesOn
<1> QED BY <1>5, <1>7 DEF cl, cl2, n

(* Bytecodes that move data.                                               *)
LEMMA MoveGoesOn ==
  ASSUME TypeInv, Move
  PROVE  /\ stack' \in Seq(Call)
         /\ GoesOn(ctx, Calls(stack), Len(stack), ctx', Calls(stack'), Len(stack'))
<1>1. Running /\ top.phase = "fetch" /\ ctx' = ctx
      /\ stack' = <<Interpret(cur, top.ip + 1, PhaseAfter(ctx[cur].done))>> \o Tail(stack)
  BY DEF Move, Fetching
<1>2. ContextsOK(ctx) /\ ctx[cur].done \in BOOLEAN
  BY <1>1, TopFacts DEF Running, Context
<1>3. PhaseAfter(ctx[cur].done) \in {"fetch", "check"}
  BY <1>2, PhaseAfterIs
<1>4. top.ip + 1 \in Nat \ {0}
  BY <1>1, FetchFacts
<1>5. ContextsOK(ctx) /\ Kept(ctx, ctx) /\ SameMessengers(ctx, ctx)
  BY <1>2 DEF Kept, SameMessengers, ContextsOK
<1>6. \A c \in Len(ctx) + 1 .. Len(ctx) : FALSE
  BY <1>2 DEF ContextsOK
<1> QED BY <1>1, <1>3, <1>4, <1>5, <1>6, StepsOn

(* The end of the code.                                                    *)
LEMMA EndGoesOn ==
  ASSUME TypeInv, ContextEnd
  PROVE  /\ stack' \in Seq(Call)
         /\ GoesOn(ctx, Calls(stack), Len(stack), ctx', Calls(stack'), Len(stack'))
<1>1. Running /\ top.phase = "fetch" /\ ctx' = [ctx EXCEPT ![cur].done = TRUE]
      /\ stack' = <<Interpret(cur, top.ip, "check")>> \o Tail(stack)
  BY DEF ContextEnd
<1>2. ContextsOK(ctx) /\ cur \in 1 .. Len(ctx) /\ Len(ctx) \in Nat
  BY <1>1, TopFacts DEF Running
<1>3. Rewritten(ctx, ctx', Null, Null)
  BY <1>1, <1>2, NotRewritten, RewriteFlags
<1>4. ContextsOK(ctx') /\ Kept(ctx, ctx') /\ SameMessengers(ctx, ctx') /\ Len(ctx') = Len(ctx)
  BY <1>2, <1>3, UnchangedMessengers
<1>5. top.ip \in Nat \ {0}
  BY <1>1, FetchFacts
<1>6. \A c \in Len(ctx) + 1 .. Len(ctx') : FALSE
  BY <1>2, <1>4
<1> QED BY <1>1, <1>4, <1>5, <1>6, StepsOn

(* break, continue and return on one context: flags only.                  *)
LEMMA StopIs ==
  ASSUME NEW r \in Context, NEW s \in {"break", "continue", "return"}
  PROVE  /\ Stop(r, s) \in Context
         /\ Stop(r, s).kind = r.kind /\ Stop(r, s).code = r.code
         /\ Stop(r, s).origin = r.origin /\ Stop(r, s).locals = r.locals
         /\ Stop(r, s).here = r.here /\ Stop(r, s).messenger = r.messenger
<1>1. DOMAIN r = {"kind", "code", "messenger", "origin", "ip", "done", "called", "traps",
                  "here", "locals"}
      /\ r.called \in SUBSET {"break", "continue"}
  BY DEF Context
<1> DEFINE v == IF s = "return" THEN r.called ELSE r.called \union {s}
           x == Stop(r, s)
<1>2. v \in SUBSET {"break", "continue"}
  BY <1>1
<1>3. x = [r EXCEPT !.done = TRUE, !.called = v]
  BY <1>1 DEF Stop
<1> HIDE DEF v, x
<1>4. x \in Context
  BY <1>2, <1>3 DEF Context
<1>5. /\ x.kind = r.kind /\ x.code = r.code
      /\ x.origin = r.origin /\ x.locals = r.locals
      /\ x.here = r.here /\ x.messenger = r.messenger
  BY <1>1, <1>3
<1> QED BY <1>4, <1>5 DEF x

(* And on all that they reach.                                             *)
LEMMA StoppedIs ==
  ASSUME NEW cx, ContextsOK(cx), NEW R, NEW s \in {"break", "continue", "return"},
         NEW c2, c2 = [c \in DOMAIN cx |-> IF c \in R THEN Stop(cx[c], s) ELSE cx[c]]
  PROVE  Rewritten(cx, c2, Null, Null)
<1>1. cx \in Seq(Context) /\ Len(cx) \in Nat /\ DOMAIN cx = 1 .. Len(cx)
      /\ \A c \in 1 .. Len(cx) : cx[c] \in Context /\ cx[c].here \in 0 .. Len(cx)
  BY DEF ContextsOK, ContextOK
<1>2. \A c \in 1 .. Len(cx) :
        /\ c2[c] \in Context
        /\ c2[c].kind = cx[c].kind /\ c2[c].code = cx[c].code
        /\ c2[c].origin = cx[c].origin /\ c2[c].locals = cx[c].locals
        /\ c2[c].here = cx[c].here /\ c2[c].messenger = cx[c].messenger
  <2> TAKE c \in 1 .. Len(cx)
  <2>1. c2[c] = IF c \in R THEN Stop(cx[c], s) ELSE cx[c]
    BY <1>1
  <2>2. CASE c \in R
    BY <1>1, <2>1, <2>2, StopIs
  <2>3. CASE c \notin R
    BY <1>1, <2>1, <2>3
  <2> QED BY <2>2, <2>3
<1>3. c2 \in Seq(Context) /\ Len(c2) = Len(cx)
  <2>1. c2 \in [1 .. Len(cx) -> Context]
    BY <1>1, <1>2
  <2> QED BY <1>1, <2>1
<1>4. \A c \in 1 .. Len(cx) : c # Null
  BY DEF Null
<1> QED BY <1>1, <1>2, <1>3, <1>4 DEF Rewritten

(* A message to "context".                                                 *)
LEMMA TellGoesOn ==
  ASSUME TypeInv, MessageContext
  PROVE  /\ stack' \in Seq(Call)
         /\ GoesOn(ctx, Calls(stack), Len(stack), ctx', Calls(stack'), Len(stack'))
<1> DEFINE reached == Reached(ctx[Root(cur)].here, instr.sel)
           stopped == [c \in DOMAIN ctx |-> IF c \in reached THEN Stop(ctx[c], instr.sel)
                                                             ELSE ctx[c]]
           saved == [stopped EXCEPT ![cur].ip = top.ip + 1]
           r == Root(cur)
<1>1. /\ Running /\ top.phase = "fetch"
      /\ ctx' = IF saved[cur].done THEN saved ELSE [saved EXCEPT ![r].here = cur]
      /\ stack' = <<Interpret(cur, top.ip + 1, PhaseAfter(stopped[cur].done))>> \o Tail(stack)
  BY DEF MessageContext, Fetching
<1>2. ContextsOK(ctx) /\ cur \in 1 .. Len(ctx) /\ cur \in 0 .. Len(ctx) /\ Len(ctx) \in Nat
      /\ top.ip + 1 \in Nat \ {0} /\ r \in 1 .. Len(ctx)
  BY <1>1, TopFacts, FetchFacts DEF Running
<1>3. instr.sel \in {"break", "continue", "return"}
  BY InstructionFacts DEF MessageContext
<1> HIDE DEF reached, r
<1>4. Rewritten(ctx, stopped, Null, Null)
  BY <1>2, <1>3, StoppedIs
<1> HIDE DEF stopped
<1>5. Rewritten(ctx, saved, Null, Null)
  BY <1>2, <1>4, RewriteFlags
<1>6. saved[cur].done = stopped[cur].done /\ stopped[cur].done \in BOOLEAN
  <2>1. stopped \in Seq(Context) /\ cur \in DOMAIN stopped /\ stopped[cur] \in Context
    BY <1>2, <1>4 DEF Rewritten
  <2> QED BY <2>1 DEF Context
<1>7. saved \in Seq(Context) /\ Len(saved) = Len(ctx)
  BY <1>5 DEF Rewritten
<1> HIDE DEF saved
<1>8. Rewritten(ctx, ctx', Null, Null)
  <2>1. Rewritten(ctx, [saved EXCEPT ![r].here = cur], Null, Null)
    BY <1>2, <1>5, RewriteFlags
  <2> QED BY <1>1, <1>5, <2>1
<1>9. ContextsOK(ctx') /\ Kept(ctx, ctx') /\ SameMessengers(ctx, ctx') /\ Len(ctx') = Len(ctx)
  BY <1>2, <1>8, UnchangedMessengers
<1>10. ~stopped[cur].done => ctx'[r].here = cur
  <2>1. saved[r] \in Context /\ r \in DOMAIN saved
    BY <1>2, <1>7
  <2>2. [saved EXCEPT ![r].here = cur][r].here = cur
    BY <2>1 DEF Context
  <2> QED BY <1>1, <1>6, <2>2
<1>11. PhaseAfter(stopped[cur].done) \in {"fetch", "check"}
       /\ (PhaseAfter(stopped[cur].done) = "fetch" => ~stopped[cur].done)
  BY <1>6, PhaseAfterIs
<1>12. \A c \in Len(ctx) + 1 .. Len(ctx') : FALSE
  BY <1>2, <1>9
<1> QED BY <1>1, <1>2, <1>9, <1>10, <1>11, <1>12, StepsOn DEF r

(* A block that is made where the variable is that stands for it.          *)
Longer(c2, b, cx2) == cx2 = Append(c2, b)

SetFor(cx, c2, r) ==
  /\ c2 \in Seq(Context) /\ Len(c2) = Len(cx)
  /\ r \in 1 .. Len(cx) /\ cx[r].kind = "method"
  /\ \A c \in 1 .. Len(cx) :
       /\ c2[c].kind = cx[c].kind /\ c2[c].code = cx[c].code
       /\ c2[c].origin = cx[c].origin /\ c2[c].messenger = cx[c].messenger
       /\ c2[c].here = cx[c].here
       /\ c # r => c2[c].locals = cx[c].locals
  /\ c2[r].locals \in [Names -> Nat]
  /\ \A x \in Names : c2[r].locals[x] \in {cx[r].locals[x], Len(cx) + 1}

MadeBlock(cx, b) ==
  /\ b \in Context /\ b.kind = "block" /\ b.code \in Blocks
  /\ b.origin \in 1 .. Len(cx) /\ cx[b.origin].kind # "native"
  /\ b.messenger = b.origin /\ b.here = Null

(* The new block, and the variable that stands for it, keep the contexts   *)
(* sound.                                                                  *)
LEMMA MadeOK ==
  ASSUME NEW cx, ContextsOK(cx), NEW c2, NEW r, SetFor(cx, c2, r),
         NEW b, MadeBlock(cx, b), NEW cx2, Longer(c2, b, cx2)
  PROVE  /\ ContextsOK(cx2) /\ Kept(cx, cx2)
         /\ Len(cx2) = Len(cx) + 1 /\ cx2[Len(cx) + 1] = b
         /\ \A c \in 1 .. Len(cx) : cx2[c] = c2[c]
<1> DEFINE o == b.origin
<1>0. /\ c2 \in Seq(Context) /\ Len(c2) = Len(cx)
      /\ r \in 1 .. Len(cx) /\ cx[r].kind = "method"
      /\ o \in 1 .. Len(cx) /\ cx[o].kind # "native"
      /\ \A c \in 1 .. Len(cx) :
           /\ c2[c].kind = cx[c].kind /\ c2[c].code = cx[c].code
           /\ c2[c].origin = cx[c].origin /\ c2[c].messenger = cx[c].messenger
           /\ c2[c].here = cx[c].here
           /\ c # r => c2[c].locals = cx[c].locals
      /\ c2[r].locals \in [Names -> Nat]
      /\ \A x \in Names : c2[r].locals[x] \in {cx[r].locals[x], Len(cx) + 1}
      /\ b \in Context /\ b.kind = "block" /\ b.code \in Blocks /\ b.origin = o
      /\ b.messenger = o /\ b.here = Null
  BY DEF SetFor, MadeBlock
<1> HIDE DEF o
<1>1. /\ Len(cx) \in Nat /\ Len(cx) >= 1 /\ cx[1].kind = "method"
      /\ cx2 \in Seq(Context) /\ Len(cx2) = Len(cx) + 1 /\ cx2[Len(cx) + 1] = b
      /\ \A c \in 1 .. Len(cx) : cx2[c] = c2[c]
  BY <1>0 DEF ContextsOK, Longer
<1>2. Kept(cx, cx2)
  BY <1>0, <1>1 DEF Kept
<1>3. \A x : IsBlock(cx, x) => IsBlock(cx2, x)
  BY <1>0, <1>1 DEF IsBlock
<1>4. IsBlock(cx2, Len(cx) + 1)
  BY <1>0, <1>1 DEF IsBlock
<1>5. 0 .. Len(cx) \subseteq 0 .. Len(cx2) /\ \A c \in 1 .. Len(cx) : c \in 1 .. Len(cx2)
  BY <1>1
<1>6. ASSUME NEW c \in 1 .. Len(cx)
      PROVE  ContextOK(cx2, c)
  <2>1. /\ ContextOK(cx, c) /\ cx2[c] = c2[c]
        /\ c2[c].kind = cx[c].kind /\ c2[c].code = cx[c].code
        /\ c2[c].origin = cx[c].origin /\ c2[c].messenger = cx[c].messenger
        /\ c2[c].here = cx[c].here
    BY <1>0, <1>1 DEF ContextsOK
  <2>2. cx[c].kind = "block" => cx2[cx[c].origin].kind # "native"
    <3>1. cx[c].kind = "block" => cx[c].origin \in 1 .. Len(cx) /\ cx[cx[c].origin].kind # "native"
      BY <1>0, <1>1, <2>1 DEF ContextOK
    <3> QED BY <1>0, <1>1, <3>1
  <2>3. CASE c # r
    <3>1. c2[c].locals = cx[c].locals
      BY <1>0, <2>3
    <3> QED BY <1>0, <1>3, <1>5, <2>1, <2>2, <3>1 DEF ContextOK
  <2>4. CASE c = r
    <3>1. /\ cx[r].locals \in [Names -> Nat]
          /\ \A x \in Names : cx[r].locals[x] = Null \/ IsBlock(cx, cx[r].locals[x])
      BY <1>0, <2>1, <2>4 DEF ContextOK
    <3>2. \A x \in Names : c2[r].locals[x] = Null \/ IsBlock(cx2, c2[r].locals[x])
      BY <1>0, <1>3, <1>4, <3>1
    <3> QED BY <1>0, <1>5, <2>1, <2>4, <3>2 DEF ContextOK
  <2> QED BY <2>3, <2>4
<1>7. ContextOK(cx2, Len(cx) + 1)
  <2>1. o \in 1 .. (Len(cx) + 1) - 1 /\ o \in 0 .. Len(cx2) /\ 0 \in 0 .. Len(cx2)
    BY <1>0, <1>1
  <2>2. cx2[o].kind # "native"
    BY <1>0, <1>1
  <2> QED BY <1>0, <1>1, <2>1, <2>2 DEF ContextOK, Null
<1>8. \A c \in 1 .. Len(cx2) : c \in 1 .. Len(cx) \/ c = Len(cx) + 1
  BY <1>0, <1>1
<1>9. cx2[1].kind = "method" /\ Len(cx2) >= 1
  BY <1>0, <1>1
<1> QED BY <1>0, <1>1, <1>2, <1>6, <1>7, <1>8, <1>9 DEF ContextsOK

(* The ip that is saved before a message.                                  *)
SavedIn(cx, x, v) == [cx EXCEPT ![x].ip = v]

(* Saving the ip changes nothing else.                                     *)
LEMMA SavedIs ==
  ASSUME NEW cx, ContextsOK(cx), NEW x \in 1 .. Len(cx), NEW v \in Nat \ {0},
         NEW c2, c2 = SavedIn(cx, x, v)
  PROVE  /\ Rewritten(cx, c2, Null, Null)
         /\ ContextsOK(c2) /\ Kept(cx, c2) /\ SameMessengers(cx, c2)
         /\ c2 \in Seq(Context) /\ Len(c2) = Len(cx) /\ Len(cx) \in Nat
         /\ \A c \in 1 .. Len(cx) : /\ c2[c] \in Context
                                    /\ c2[c].here = cx[c].here
                                    /\ c2[c].kind = cx[c].kind
                                    /\ c2[c].locals = cx[c].locals
<1>1. Rewritten(cx, c2, Null, Null)
  BY NotRewritten, RewriteFlags DEF SavedIn
<1>2. ContextsOK(c2) /\ Kept(cx, c2) /\ SameMessengers(cx, c2) /\ Len(c2) = Len(cx)
  BY <1>1, UnchangedMessengers
<1>3. cx \in Seq(Context) /\ c2 \in Seq(Context) /\ Len(cx) \in Nat
  BY <1>2 DEF ContextsOK
<1>4. \A c \in 1 .. Len(cx) : c2[c].here = cx[c].here
  <2> TAKE c \in 1 .. Len(cx)
  <2>1. c2[c] = IF c = x THEN [cx[x] EXCEPT !.ip = v] ELSE cx[c]
    BY <1>3 DEF SavedIn
  <2>2. [cx[x] EXCEPT !.ip = v].here = cx[x].here
    <3>1. cx[x] \in Context
      BY <1>3
    <3> QED BY <3>1 DEF Context
  <2> QED BY <2>1, <2>2
<1>5. \A c \in 1 .. Len(cx) : c2[c] \in Context
  BY <1>2, <1>3
<1> QED BY <1>1, <1>2, <1>3, <1>4, <1>5 DEF Rewritten

(* A new block.                                                            *)
LEMMA MakeGoesOn ==
  ASSUME TypeInv, MakeBlock
  PROVE  /\ stack' \in Seq(Call)
         /\ GoesOn(ctx, Calls(stack), Len(stack), ctx', Calls(stack'), Len(stack'))
<1> DEFINE r == Root(cur)
           v == top.ip + 1
           saved == [ctx EXCEPT ![cur].ip = v, ![r].locals[instr.code] = Fresh]
           c1 == [ctx EXCEPT ![cur].ip = v]
           b == NewContext("block", instr.code, cur, cur, Null, <<>>)
<1>1. /\ Running /\ top.phase = "fetch"
      /\ ctx' = Append(saved, b)
      /\ stack' = <<Interpret(cur, v, PhaseAfter(ctx[cur].done))>> \o Tail(stack)
  BY DEF MakeBlock, Fetching
<1>2. /\ ContextsOK(ctx) /\ cur \in 1 .. Len(ctx) /\ cur \in Nat /\ Len(ctx) \in Nat
      /\ v \in Nat \ {0} /\ r \in 1 .. Len(ctx) /\ ctx[r].kind = "method"
      /\ ctx[cur].kind # "native" /\ ctx[cur] \in Context
      /\ Fresh = Len(ctx) + 1
  BY <1>1, TopFacts, FetchFacts DEF Running, Fresh
<1>3. instr.code \in Blocks /\ instr.code \in Names /\ instr.code \in Codes \union Selectors
  BY InstructionFacts DEF MakeBlock, Names, Codes
<1>4. /\ b \in Context /\ b.kind = "block" /\ b.code \in Blocks /\ b.origin = cur
      /\ b.messenger = cur /\ b.here = Null
  <2>1. /\ Null \in Nat /\ <<>> \in [Names -> Nat] \union Seq(Nat)
        /\ 1 \in Nat \ {0} /\ FALSE \in BOOLEAN /\ {} \in SUBSET {"break", "continue"}
    BY DEF Null
  <2>2. b = [kind |-> "block", code |-> instr.code, messenger |-> cur, origin |-> cur,
             ip |-> 1, done |-> FALSE, called |-> {}, traps |-> {}, here |-> Null,
             locals |-> <<>>]
    BY DEF NewContext
  <2> HIDE DEF b
  <2>3. b \in Context
    BY <1>2, <1>3, <2>1, <2>2 DEF Context
  <2> QED BY <1>3, <2>2, <2>3
<1> HIDE DEF b, r, v
<1>5. /\ c1 \in Seq(Context) /\ Len(c1) = Len(ctx)
      /\ \A c \in 1 .. Len(ctx) : /\ c1[c] \in Context
                                  /\ c1[c].here = ctx[c].here
                                  /\ c1[c].locals = ctx[c].locals
      /\ Rewritten(ctx, c1, Null, Null)
  <2>1. c1 = SavedIn(ctx, cur, v)
    BY DEF SavedIn
  <2> HIDE DEF c1
  <2> QED BY <1>2, <2>1, SavedIs
<1>6. \A c \in 1 .. Len(ctx) :
        /\ c1[c].kind = ctx[c].kind /\ c1[c].code = ctx[c].code
        /\ c1[c].origin = ctx[c].origin /\ c1[c].messenger = ctx[c].messenger
  BY <1>5 DEF Rewritten, Null
<1> DEFINE loc == [c1[r].locals EXCEPT ![instr.code] = Fresh]
           q == [c1[r] EXCEPT !.locals = loc]
<1>7. saved = [c1 EXCEPT ![r] = q]
  OBVIOUS
<1> HIDE DEF c1
<1>8. ctx[r].locals \in [Names -> Nat]
  BY <1>2 DEF ContextsOK, ContextOK
<1>9. /\ loc \in [Names -> Nat]
      /\ \A x \in Names : loc[x] \in {ctx[r].locals[x], Len(ctx) + 1}
  <2>1. c1[r].locals = ctx[r].locals /\ Fresh = Len(ctx) + 1 /\ Len(ctx) + 1 \in Nat
    BY <1>2, <1>5
  <2>2. loc = [ctx[r].locals EXCEPT ![instr.code] = Len(ctx) + 1]
    BY <2>1
  <2> HIDE DEF loc
  <2> QED BY <1>3, <1>8, <2>1, <2>2
<1> HIDE DEF loc, saved
<1>10. /\ q \in Context /\ q.kind = c1[r].kind /\ q.code = c1[r].code
       /\ q.origin = c1[r].origin /\ q.messenger = c1[r].messenger /\ q.here = c1[r].here
       /\ q.locals = loc
  <2>1. c1[r] \in Context /\ loc \in [Names -> Nat] \union Seq(Nat)
    BY <1>2, <1>5, <1>9
  <2> QED BY <2>1 DEF Context
<1> HIDE DEF q
<1>11. /\ saved \in Seq(Context) /\ Len(saved) = Len(ctx)
       /\ \A c \in 1 .. Len(ctx) : saved[c] = IF c = r THEN q ELSE c1[c]
  BY <1>2, <1>5, <1>7, <1>10
<1>12. /\ \A c \in 1 .. Len(ctx) :
            /\ saved[c].kind = ctx[c].kind /\ saved[c].code = ctx[c].code
            /\ saved[c].origin = ctx[c].origin /\ saved[c].messenger = ctx[c].messenger
            /\ saved[c].here = ctx[c].here
            /\ c # r => saved[c].locals = ctx[c].locals
       /\ saved[r].locals \in [Names -> Nat]
       /\ \A x \in Names : saved[r].locals[x] \in {ctx[r].locals[x], Len(ctx) + 1}
  BY <1>2, <1>5, <1>6, <1>9, <1>10, <1>11
<1>13. /\ ContextsOK(ctx') /\ Kept(ctx, ctx')
       /\ Len(ctx') = Len(ctx) + 1 /\ ctx'[Len(ctx) + 1] = b
       /\ \A c \in 1 .. Len(ctx) : ctx'[c] = saved[c]
  <2>1. SetFor(ctx, saved, r)
    BY <1>2, <1>11, <1>12 DEF SetFor
  <2>2. MadeBlock(ctx, b)
    BY <1>2, <1>4 DEF MadeBlock
  <2>3. Longer(saved, b, ctx')
    BY <1>1 DEF Longer
  <2>4. ContextsOK(ctx) /\ Len(ctx) \in Nat
    BY <1>2
  <2> QED BY ONLY <2>1, <2>2, <2>3, <2>4, MadeOK
<1>14. SameMessengers(ctx, ctx') /\ ctx'[r].here = ctx[r].here
  BY <1>2, <1>12, <1>13 DEF SameMessengers
<1>15. \A c \in Len(ctx) + 1 .. Len(ctx') :
         ctx'[c].kind = "block" /\ ctx'[c].messenger = cur
  <2>1. \A c \in Len(ctx) + 1 .. Len(ctx') : c = Len(ctx) + 1
    BY <1>2, <1>13
  <2> QED BY <1>4, <1>13, <2>1
<1>16. PhaseAfter(ctx[cur].done) \in {"fetch", "check"}
  BY <1>2, PhaseAfterIs DEF Context
<1> QED BY <1>1, <1>2, <1>13, <1>14, <1>15, <1>16, StepsOn DEF r

(* Two changes after each other.                                           *)
LEMMA KeptAfter ==
  ASSUME NEW a, NEW b, NEW c, Len(a) \in Nat, Len(b) \in Nat, Len(c) \in Nat,
         Kept(a, b), Kept(b, c)
  PROVE  Kept(a, c)
BY DEF Kept

(* The context of a method or of a native, with the blocks it gets.        *)
Receiver(cx, r) ==
  /\ r \in Context /\ r.kind # "block" /\ r.origin = Null
  /\ r.messenger \in 0 .. Len(cx) /\ r.here = Len(cx) + 1
  /\ r.kind = "method" =>
       /\ r.code \in Methods
       /\ r.locals \in [Names -> Nat]
       /\ \A n \in Names : r.locals[n] = Null \/ IsBlock(cx, r.locals[n])
  /\ r.kind = "native" =>
       /\ r.code \in Selectors
       /\ r.locals \in [1 .. Takes(r.code) -> Nat]
       /\ \A k \in 1 .. Takes(r.code) : IsBlock(cx, r.locals[k])

(* A message, but for the stack: the ip is saved and a context is made.    *)
LEMMA SentOK ==
  ASSUME NEW cx, ContextsOK(cx), NEW x \in 1 .. Len(cx), NEW v \in Nat \ {0},
         NEW r, Receiver(cx, r), NEW cx2, Longer(SavedIn(cx, x, v), r, cx2)
  PROVE  /\ ContextsOK(cx2) /\ Kept(cx, cx2) /\ SameMessengers(cx, cx2)
         /\ Len(cx2) = Len(cx) + 1 /\ cx2[Len(cx) + 1] = r
<1> DEFINE c1 == SavedIn(cx, x, v)
<1>1. /\ ContextsOK(c1) /\ Kept(cx, c1) /\ SameMessengers(cx, c1)
      /\ c1 \in Seq(Context) /\ Len(c1) = Len(cx) /\ Len(cx) \in Nat
      /\ \A c \in 1 .. Len(cx) : c1[c].kind = cx[c].kind
  BY SavedIs
<1> HIDE DEF c1
<1>2. /\ cx2 = Append(c1, r) /\ r \in Context
      /\ Len(cx2) = Len(cx) + 1 /\ cx2[Len(cx) + 1] = r /\ Len(cx2) \in Nat
      /\ \A c \in 1 .. Len(cx) : cx2[c] = c1[c]
  <2>1. cx2 = Append(c1, r) /\ r \in Context
    BY DEF c1, Longer, Receiver
  <2>2. c1 \in Seq(Context)
    BY <1>1
  <2>3. /\ Len(cx2) = Len(c1) + 1 /\ cx2[Len(c1) + 1] = r /\ Len(cx2) \in Nat
        /\ \A c \in 1 .. Len(c1) : cx2[c] = c1[c]
    BY ONLY <2>1, <2>2
  <2> QED BY <1>1, <2>1, <2>3
<1>3. \A b : IsBlock(cx, b) => IsBlock(cx2, b)
  BY <1>1, <1>2 DEF IsBlock
<1>4. ContextOK(cx2, Len(cx) + 1)
  <2>1. r.messenger \in 0 .. Len(cx2) /\ r.here \in 0 .. Len(cx2)
    BY <1>1, <1>2 DEF Receiver
  <2> QED BY <1>2, <1>3, <2>1 DEF ContextOK, Receiver
<1>5. ContextsOK(cx2) /\ Kept(c1, cx2)
  BY <1>1, <1>2, <1>4, AppendedOK
<1>6. Kept(cx, cx2)
  BY <1>1, <1>2, <1>5, KeptAfter
<1>7. SameMessengers(cx, cx2)
  BY <1>1, <1>2 DEF SameMessengers
<1> QED BY <1>2, <1>5, <1>6, <1>7

(* A message to a method.                                                  *)
LEMMA CallMethodEnters ==
  ASSUME TypeInv, CallMethod
  PROVE  /\ stack' \in Seq(Call)
         /\ Enters(ctx, Calls(stack), Len(stack), ctx', Calls(stack'), Len(stack'))
<1> DEFINE params == [b \in Names |-> IF b = "param" THEN Held(instr.block) ELSE Null]
           m == NewContext("method", instr.method, cur, Null, Fresh, params)
           v == top.ip + 1
           n == Len(stack)
           cl == Calls(stack)
           cl2 == Calls(stack')
           x == Interpret(Fresh, 1, "fetch")
<1>1. /\ Running /\ top.phase = "fetch" /\ stack # <<>> /\ top.fn = "interpret"
      /\ ctx' = Append([ctx EXCEPT ![cur].ip = v], m)
      /\ stack' = <<x>> \o Tail(stack)
  BY DEF CallMethod, Fetching, Running
<1>2. /\ ContextsOK(ctx) /\ cur \in 1 .. Len(ctx) /\ cur \in Nat /\ Len(ctx) \in Nat
      /\ v \in Nat \ {0} /\ Fresh = Len(ctx) + 1 /\ Fresh \in Nat
      /\ n \in Nat /\ n > 0 /\ cl[n] = top /\ cl[n].fn = "interpret" /\ cl[n].phase = "fetch"
      /\ cl[n].ctx = cur
  BY <1>1, TopFacts, FetchFacts, SMTT(20) DEF Fresh, cur
<1>3. instr.method \in Methods /\ instr.block \in Names
  BY InstructionFacts DEF CallMethod
<1>4. /\ params \in [Names -> Nat]
      /\ \A b \in Names : params[b] = Null \/ IsBlock(ctx, params[b])
  <2>1. /\ Held(instr.block) \in Nat /\ Null \in Nat
        /\ Held(instr.block) = Null \/ IsBlock(ctx, Held(instr.block))
    BY <1>1, <1>3, HeldFacts DEF Null
  <2> QED BY <2>1
<1>5. /\ m \in Context /\ m.kind = "method" /\ m.code \in Methods /\ m.messenger = cur
      /\ m.here = Fresh /\ m.locals = params /\ m.origin = Null
  <2>1. /\ Null \in Nat /\ 1 \in Nat \ {0} /\ FALSE \in BOOLEAN
        /\ {} \in SUBSET {"break", "continue"} /\ instr.method \in Codes \union Selectors
    BY <1>3 DEF Null, Codes
  <2> HIDE DEF params
  <2>2. m = [kind |-> "method", code |-> instr.method, messenger |-> cur, origin |-> Null,
             ip |-> 1, done |-> FALSE, called |-> {}, traps |-> {}, here |-> Fresh,
             locals |-> params]
    BY DEF NewContext
  <2> HIDE DEF m
  <2>3. m \in Context
    BY <1>2, <1>4, <2>1, <2>2 DEF Context
  <2> QED BY <1>3, <2>2, <2>3
<1> HIDE DEF params, m, v
<1>6. /\ ContextsOK(ctx') /\ Kept(ctx, ctx') /\ SameMessengers(ctx, ctx')
      /\ Len(ctx') = Len(ctx) + 1 /\ ctx'[Len(ctx) + 1] = m
  <2>1. Longer(SavedIn(ctx, cur, v), m, ctx')
    BY <1>1 DEF Longer, SavedIn
  <2>2. Receiver(ctx, m)
    BY <1>2, <1>4, <1>5 DEF Receiver
  <2> QED BY <1>2, <2>1, <2>2, SentOK
<1>7. /\ x \in Call /\ x.fn = "interpret" /\ x.ctx = Fresh /\ x.phase = "fetch"
      /\ CallOK(ctx', x)
  <2>1. Fresh \in 1 .. Len(ctx') /\ ctx'[Fresh].kind # "native"
    BY <1>2, <1>5, <1>6
  <2> QED BY <1>2, <2>1, InterpretIs
<1> HIDE DEF x
<1>8. /\ stack' \in Seq(Call) /\ Len(stack') = n /\ cl2[n] = x
      /\ \A d \in 1 .. n - 1 : cl2[d] = cl[d]
  BY <1>1, <1>7, StepsTop
<1> HIDE DEF cl, cl2, n
<1>9. Enters(ctx, cl, n, ctx', cl2, Len(stack'))
  <2>1. n # n + 1
    BY <1>2
  <2> QED BY <1>2, <1>5, <1>6, <1>7, <1>8, <2>1 DEF Enters
<1> QED BY <1>8, <1>9 DEF cl, cl2, n

(* A native gets as many blocks as it takes.                               *)
LEMMA CallNativeEnters ==
  ASSUME TypeInv, CallNative
  PROVE  /\ stack' \in Seq(Call)
         /\ Enters(ctx, Calls(stack), Len(stack), ctx', Calls(stack'), Len(stack'))
<1> DEFINE args == [i \in 1 .. Len(instr.blocks) |-> Held(instr.blocks[i])]
           m == NewContext("native", instr.sel, cur, Null, Fresh, args)
           v == top.ip + 1
           n == Len(stack)
           cl == Calls(stack)
           cl2 == Calls(stack')
           x == Native(Fresh, "enter", Items)
           y == Interpret(Fresh, top.ip, "call")
           k == Takes(instr.sel)
<1>1. /\ Running /\ top.phase = "fetch" /\ stack # <<>> /\ top.fn = "interpret"
      /\ \A i \in DOMAIN instr.blocks : Held(instr.blocks[i]) # Null
      /\ ctx' = Append([ctx EXCEPT ![cur].ip = v], m)
      /\ stack' = <<x, y>> \o Tail(stack)
  BY DEF CallNative, Fetching, Running
<1>2. /\ ContextsOK(ctx) /\ cur \in 1 .. Len(ctx) /\ cur \in Nat /\ Len(ctx) \in Nat
      /\ v \in Nat \ {0} /\ top.ip \in Nat \ {0} /\ Fresh = Len(ctx) + 1 /\ Fresh \in Nat
      /\ n \in Nat /\ n > 0 /\ cl[n] = top /\ cl[n].fn = "interpret" /\ cl[n].phase = "fetch"
      /\ cl[n].ctx = cur /\ stack \in Seq(Call)
  BY <1>1, TopFacts, FetchFacts, SMTT(20) DEF Fresh, cur
<1>3. instr.sel \in Selectors /\ instr.blocks \in [1 .. k -> Names] /\ k \in Nat
  BY InstructionFacts DEF CallNative, Takes, Selectors
<1>4. /\ args \in [1 .. k -> Nat]
      /\ \A i \in 1 .. k : IsBlock(ctx, args[i])
  <2>1. \A i \in 1 .. k : instr.blocks[i] \in Names
    BY <1>3
  <2>2. DOMAIN instr.blocks = 1 .. k /\ Len(instr.blocks) = k
    <3> HIDE DEF k
    <3> QED BY <1>3
  <2>3. ASSUME NEW i \in 1 .. k
        PROVE  Held(instr.blocks[i]) \in Nat /\ IsBlock(ctx, Held(instr.blocks[i]))
    BY <1>1, <2>1, <2>2, HeldFacts
  <2> HIDE DEF k
  <2> QED BY <2>2, <2>3
<1>5. /\ m \in Context /\ m.kind = "native" /\ m.code = instr.sel /\ m.messenger = cur
      /\ m.here = Fresh /\ m.locals = args /\ m.origin = Null
  <2>1. /\ Null \in Nat /\ 1 \in Nat \ {0} /\ FALSE \in BOOLEAN
        /\ {} \in SUBSET {"break", "continue"} /\ instr.sel \in Codes \union Selectors
    BY <1>3 DEF Null, Codes
  <2> HIDE DEF args, k
  <2>2. m = [kind |-> "native", code |-> instr.sel, messenger |-> cur, origin |-> Null,
             ip |-> 1, done |-> FALSE, called |-> {}, traps |-> {}, here |-> Fresh,
             locals |-> args]
    BY DEF NewContext
  <2> HIDE DEF m
  <2>3. args \in [Names -> Nat] \union Seq(Nat)
    BY <1>3, <1>4
  <2>4. m \in Context
    BY <1>2, <2>1, <2>2, <2>3 DEF Context
  <2> QED BY <1>3, <2>2, <2>4
<1> HIDE DEF args, m, v
<1>6. /\ ContextsOK(ctx') /\ Kept(ctx, ctx') /\ SameMessengers(ctx, ctx')
      /\ Len(ctx') = Len(ctx) + 1 /\ ctx'[Len(ctx) + 1] = m
  <2>1. Longer(SavedIn(ctx, cur, v), m, ctx')
    BY <1>1 DEF Longer, SavedIn
  <2>2. Receiver(ctx, m)
    BY <1>2, <1>3, <1>4, <1>5 DEF Receiver
  <2> QED BY <1>2, <2>1, <2>2, SentOK
<1>7. Fresh \in 1 .. Len(ctx') /\ ctx'[Fresh].kind = "native"
  BY <1>2, <1>5, <1>6
<1>8. /\ y \in Call /\ y.fn = "interpret" /\ y.ctx = Fresh /\ y.phase = "call"
      /\ CallOK(ctx', y)
  <2>1. top.ip \in Nat \ {0} /\ Fresh \in Nat /\ Fresh \in 1 .. Len(ctx')
    BY <1>2, <1>7
  <2>2. /\ y \in Call /\ y.fn = "interpret" /\ y.ctx = Fresh /\ y.phase = "call"
        /\ \A cx : Fresh \in 1 .. Len(cx) => CallOK(cx, y)
    BY ONLY <2>1, InterpretIs
  <2> HIDE DEF y
  <2> QED BY <2>1, <2>2
<1>9. /\ x \in Call /\ x.fn = "native" /\ x.ctx = Fresh /\ x.phase = "enter"
      /\ CallOK(ctx', x)
  <2>1. Items \in 0 .. Items /\ "enter" \in Phases
    BY ItemsAssumption DEF Phases
  <2>2. /\ x \in Call /\ x.fn = "native" /\ x.ctx = Fresh /\ x.phase = "enter"
        /\ x.left = Items
    BY <1>2, <2>1, NativeIs
  <2> HIDE DEF x
  <2> QED BY <1>7, <2>2 DEF CallOK, NativeOK, Runs
<1> HIDE DEF x, y
<1>10. /\ stack' \in Seq(Call) /\ Len(stack') = n + 1 /\ cl2[n + 1] = x /\ cl2[n] = y
       /\ \A d \in 1 .. n - 1 : cl2[d] = cl[d]
  <2>1. PushedOn(stack, stack', x, y)
    BY <1>1, <1>2, <1>8, <1>9, PushCall
  <2> QED BY <2>1 DEF PushedOn
<1> HIDE DEF cl, cl2, n
<1>11. Enters(ctx, cl, n, ctx', cl2, Len(stack'))
  <2>1. n # n + 1
    BY <1>2
  <2> QED BY <1>2, <1>5, <1>6, <1>8, <1>9, <1>10, <2>1 DEF Enters
<1> QED BY <1>10, <1>11 DEF cl, cl2, n

(* An exception: the innermost native in its try part catches it.          *)
LEMMA ThrowUnwinds ==
  ASSUME TypeInv, Throw
  PROVE  /\ stack' \in Seq(Call)
         /\ Unwinds(ctx, Calls(stack), Len(stack), ctx', Calls(stack'), Len(stack'))
<1> DEFINE n == Len(stack)
           cl == Calls(stack)
           cl2 == Calls(stack')
           least == CHOOSE i \in Trying : \A j \in Trying : i <= j
<1>1. /\ Running /\ top.phase = "fetch" /\ stack # <<>>
      /\ ctx' = [ctx EXCEPT ![cur].ip = top.ip + 1]
      /\ Trying = {} => stack' = <<>>
      /\ Trying # {} =>
           stack' = <<[stack[least] EXCEPT !.phase = "caught"]>>
                      \o SubSeq(stack, least + 1, Len(stack))
  BY DEF Throw, Fetching, Running
<1>2. /\ ContextsOK(ctx) /\ cur \in 1 .. Len(ctx) /\ top.ip + 1 \in Nat \ {0}
      /\ n \in Nat /\ stack \in Seq(Call) /\ ShapeOK(ctx, cl, n)
  BY <1>1, TopFacts, FetchFacts
<1>3. Rewritten(ctx, ctx', Null, Null) /\ ContextsOK(ctx') /\ Kept(ctx, ctx')
  <2>1. ctx' = SavedIn(ctx, cur, top.ip + 1)
    BY <1>1 DEF SavedIn
  <2> QED BY <1>2, <2>1, SavedIs
<1>4. CASE Trying = {}
  <2>1. stack' \in Seq(Call) /\ Len(stack') = 0
    BY <1>1, <1>4
  <2> HIDE DEF cl, cl2, n
  <2>2. Unwinds(ctx, cl, n, ctx', cl2, Len(stack'))
    BY <1>2, <1>3, <2>1 DEF Unwinds
  <2> QED BY <2>1, <2>2 DEF cl, cl2, n
<1>5. CASE Trying # {}
  <2>1. Trying \subseteq 1 .. n
    BY <1>2 DEF Trying
  <2>2. least \in Trying
    <3>1. PICK i \in Trying : TRUE
      BY <1>5
    <3>2. i \in Nat /\ Trying \subseteq Nat
      BY <1>2, <2>1
    <3>3. \E k \in Trying : \A j \in Trying : k <= j
      BY <3>1, <3>2, LeastNat
    <3> QED BY <3>3
  <2> HIDE DEF least
  <2> DEFINE x == [stack[least] EXCEPT !.phase = "caught"]
             e == n + 1 - least
  <2>3. /\ least \in 1 .. n /\ e \in 1 .. n /\ n + 1 - e = least
        /\ stack[least] \in Call /\ stack[least].fn = "native" /\ stack[least].phase = "try"
    BY <1>2, <2>1, <2>2 DEF Trying
  <2>4. cl[e] = stack[least]
    BY <1>2, <2>3 DEF Calls
  <2>5. /\ x \in Call /\ x.fn = "native" /\ x.phase = "caught" /\ x.ctx = stack[least].ctx
        /\ x.left = stack[least].left
    BY <2>3 DEF Call, Phases
  <2> HIDE DEF x
  <2>6. CutTo(stack, stack', e, x)
    BY <1>1, <1>2, <1>5, <2>3, <2>5, CutStack DEF x
  <2>7. /\ stack' \in Seq(Call) /\ Len(stack') = e /\ cl2[e] = x
        /\ \A d \in 1 .. e - 1 : cl2[d] = cl[d]
    BY <2>6 DEF CutTo
  <2> HIDE DEF e, cl, cl2, n
  <2>8. CallOK(ctx', x)
    <3>1. CallOK(ctx, cl[e])
      BY <1>2, <2>3 DEF ShapeOK
    <3>2. CallOK(ctx', cl[e])
      BY <1>2, <1>3, <3>1, CallKept
    <3> QED BY <2>3, <2>4, <2>5, <3>2 DEF CallOK, NativeOK
  <2>9. Unwinds(ctx, cl, n, ctx', cl2, Len(stack'))
    BY <1>2, <1>3, <2>3, <2>4, <2>5, <2>7, <2>8 DEF Unwinds
  <2> QED BY <2>7, <2>9 DEF cl, cl2, n
<1> QED BY <1>4, <1>5

(***************************************************************************)
(* What the actions do: the loop                                           *)
(***************************************************************************)
(* The way out of the loop.                                                *)
LEMMA ReturnLeaves ==
  ASSUME TypeInv, ReturnToCaller
  PROVE  /\ stack' \in Seq(Call)
         /\ Leaves(ctx, Calls(stack), Len(stack), ctx', Calls(stack'), Len(stack'))
<1> DEFINE n == Len(stack)
           cl == Calls(stack)
           cl2 == Calls(stack')
<1>1. /\ top.fn = "interpret" /\ stack # <<>> /\ Leaving
      /\ ctx' = [ctx EXCEPT ![cur].messenger = Null]
      /\ stack' = Tail(stack)
  BY DEF ReturnToCaller, Running
<1>2. /\ ContextsOK(ctx) /\ cur \in 1 .. Len(ctx)
      /\ n \in Nat /\ n > 0 /\ cl[n] = top /\ cl[n].ctx = cur /\ stack \in Seq(Call)
  BY <1>1, TopFacts DEF cur
<1>3. Rewritten(ctx, ctx', cur, Null)
  BY <1>1, <1>2, RewriteMessenger DEF Null
<1>4. ctx[cur].messenger = Null \/ ctx[ctx[cur].messenger].kind = "native"
  BY <1>1 DEF Leaving, messenger, Natives
<1>5. /\ stack' \in Seq(Call) /\ Len(stack') = n - 1
      /\ \A d \in 1 .. n - 1 : cl2[d] = cl[d]
  BY <1>1, <1>2, PopCall
<1> HIDE DEF cl, cl2, n
<1>6. Leaves(ctx, cl, n, ctx', cl2, Len(stack'))
  BY <1>1, <1>2, <1>3, <1>4, <1>5 DEF Leaves
<1> QED BY <1>5, <1>6 DEF cl, cl2, n

(* The way back in the loop.                                               *)
LEMMA ReturnGoesBack ==
  ASSUME TypeInv, ReturnToMessenger
  PROVE  /\ stack' \in Seq(Call)
         /\ GoesBack(ctx, Calls(stack), Len(stack), ctx', Calls(stack'), Len(stack'))
<1> DEFINE n == Len(stack)
           cl == Calls(stack)
           cl2 == Calls(stack')
           m == messenger
           back == [ctx EXCEPT ![cur] = Reset([@ EXCEPT !.messenger = Null])]
           r == Root(m)
<1>1. /\ top.fn = "interpret" /\ stack # <<>> /\ ~Leaving
      /\ \/ /\ ctx[m].done
            /\ ctx' = back
            /\ stack' = <<Interpret(m, top.ip, "check")>> \o Tail(stack)
         \/ /\ ~ctx[m].done
            /\ ctx' = [back EXCEPT ![r].here = m]
            /\ stack' = <<Interpret(m, ctx[m].ip, "fetch")>> \o Tail(stack)
  BY DEF ReturnToMessenger, Running
<1>2. /\ ContextsOK(ctx) /\ cur \in 1 .. Len(ctx) /\ DOMAIN ctx = 1 .. Len(ctx)
      /\ Len(ctx) \in Nat
      /\ n \in Nat /\ n > 0 /\ cl[n] = top /\ cl[n].ctx = cur /\ stack \in Seq(Call)
      /\ ContextOK(ctx, cur) /\ top.ip \in Nat \ {0}
  BY <1>1, TopFacts DEF cur, CallOK, InterpretOK, Call
<1>3. /\ m \in 1 .. Len(ctx) /\ m \in 0 .. Len(ctx) /\ m \in Nat /\ ctx[m].kind # "native"
      /\ m = ctx[cur].messenger /\ m # Null
  BY <1>1, <1>2 DEF Leaving, messenger, Natives, ContextOK, Null
<1>4. r = RootsOf(ctx)[m] /\ r \in 1 .. Len(ctx)
  BY <1>2, <1>3, RootIs, RootsAreMethods
<1>5. ctx[m].ip \in Nat \ {0}
  <2>1. ctx[m] \in Context
    BY <1>2, <1>3, ContextFacts
  <2> QED BY <2>1 DEF Context
<1> HIDE DEF m, r
<1>6. Rewritten(ctx, back, cur, Null)
  <2> DEFINE c1 == [ctx EXCEPT ![cur].messenger = Null]
  <2>1. Rewritten(ctx, c1, cur, Null)
    BY <1>2, RewriteMessenger DEF Null
  <2>2. back = ResetIn(c1, cur)
    <3>1. c1 = [ctx EXCEPT ![cur] = [ctx[cur] EXCEPT !.messenger = Null]]
      OBVIOUS
    <3>2. c1[cur] = [ctx[cur] EXCEPT !.messenger = Null]
      BY <1>2, <3>1
    <3>3. ResetIn(c1, cur) = [c1 EXCEPT ![cur] = Reset([ctx[cur] EXCEPT !.messenger = Null])]
      BY <3>2 DEF ResetIn
    <3> QED BY <3>1, <3>3
  <2> HIDE DEF back, c1
  <2> QED BY <1>2, <2>1, <2>2, RewriteFlags
<1> HIDE DEF back
<1>7. Rewritten(ctx, [back EXCEPT ![r].here = m], cur, Null)
  BY <1>2, <1>3, <1>4, <1>6, RewriteFlags
<1>8. [back EXCEPT ![r].here = m][r].here = m
  <2>1. back \in Seq(Context) /\ r \in DOMAIN back /\ back[r] \in Context
    BY <1>4, <1>6 DEF Rewritten
  <2> QED BY <2>1 DEF Context
<1>9. PICK ip \in Nat \ {0}, phase \in {"fetch", "check"} :
        /\ stack' = <<Interpret(m, ip, phase)>> \o Tail(stack)
        /\ Rewritten(ctx, ctx', cur, Null)
        /\ phase = "fetch" => ctx'[r].here = m
  <2>1. CASE ctx[m].done
    BY <1>1, <1>2, <1>6, <2>1
  <2>2. CASE ~ctx[m].done
    BY <1>1, <1>5, <1>7, <1>8, <2>2
  <2> QED BY <2>1, <2>2
<1> DEFINE x == Interpret(m, ip, phase)
<1>10. /\ x \in Call /\ x.fn = "interpret" /\ x.ctx = m /\ x.phase = phase
       /\ CallOK(ctx', x)
  <2>1. m \in 1 .. Len(ctx') /\ ctx'[m].kind # "native"
    BY <1>3, <1>9 DEF Rewritten
  <2>2. m \in Nat /\ ip \in Nat \ {0} /\ phase \in {"fetch", "check", "call"}
    BY <1>3
  <2>3. /\ x \in Call /\ x.fn = "interpret" /\ x.ctx = m /\ x.phase = phase
        /\ \A cx : m \in 1 .. Len(cx) /\ (phase = "fetch" => cx[m].kind # "native") =>
             CallOK(cx, x)
    BY ONLY <2>2, InterpretIs
  <2> HIDE DEF x
  <2> QED BY <2>1, <2>3
<1> HIDE DEF x
<1>11. /\ stack' \in Seq(Call) /\ Len(stack') = n /\ cl2[n] = x
       /\ \A d \in 1 .. n - 1 : cl2[d] = cl[d]
  BY <1>1, <1>9, <1>10, StepsTop DEF x
<1> HIDE DEF cl, cl2, n
<1>12. GoesBack(ctx, cl, n, ctx', cl2, Len(stack'))
  BY <1>1, <1>2, <1>3, <1>4, <1>9, <1>10, <1>11 DEF GoesBack
<1> QED BY <1>11, <1>12 DEF cl, cl2, n

(***************************************************************************)
(* What the actions do: natives                                            *)
(***************************************************************************)

(* The native that is running.                                             *)
LEMMA NativeFacts ==
  ASSUME TypeInv, NEW phase, InNative(phase)
  PROVE  /\ stack # <<>> /\ top.fn = "native" /\ top.phase = phase
         /\ ContextsOK(ctx) /\ ShapeOK(ctx, Calls(stack), Len(stack))
         /\ stack \in Seq(Call)
         /\ Len(stack) \in Nat /\ Len(stack) > 1
         /\ Calls(stack)[Len(stack)] = top
         /\ NativeOK(ctx, top) /\ top.left \in 0 .. Items
         /\ cur \in 1 .. Len(ctx) /\ cur \in Nat /\ Len(ctx) \in Nat
         /\ ctx[cur].kind = "native" /\ sel \in Selectors
         /\ ctx[cur].locals \in [1 .. Takes(sel) -> Nat]
         /\ \A k \in 1 .. Takes(sel) : IsBlock(ctx, ctx[cur].locals[k])
         /\ IsBlock(ctx, block) /\ block \in 1 .. Len(ctx)
         /\ Root(block) \in 1 .. Len(ctx) /\ Root(block) = RootsOf(ctx)[block]
<1>1. stack # <<>> /\ top.fn = "native" /\ top.phase = phase
  BY DEF InNative
<1>2. /\ ContextsOK(ctx) /\ ShapeOK(ctx, Calls(stack), Len(stack))
      /\ stack \in Seq(Call) /\ Len(stack) \in Nat /\ Calls(stack)[Len(stack)] = top
      /\ cur \in 1 .. Len(ctx) /\ cur \in Nat /\ Len(ctx) \in Nat
      /\ NestedOK(Calls(stack), Len(stack), Len(stack)) /\ CallOK(ctx, top)
      /\ top \in Call /\ ContextOK(ctx, cur)
  BY <1>1, TopFacts
<1>3. NativeOK(ctx, top) /\ top.left \in 0 .. Items /\ Len(stack) > 1
  BY <1>1, <1>2 DEF CallOK, NestedOK, Call
<1>4. ctx[cur].kind = "native"
  BY <1>3 DEF NativeOK, cur
<1>5. /\ sel \in Selectors
      /\ ctx[cur].locals \in [1 .. Takes(sel) -> Nat]
      /\ \A k \in 1 .. Takes(sel) : IsBlock(ctx, ctx[cur].locals[k])
  BY <1>2, <1>4 DEF ContextOK, sel
<1>6. IsBlock(ctx, block)
  BY <1>5, TakesOne DEF block
<1>7. block \in 1 .. Len(ctx)
  BY <1>6 DEF IsBlock
<1>8. Root(block) = RootsOf(ctx)[block] /\ Root(block) \in 1 .. Len(ctx)
  <2>1. ctx[block].kind # "native"
    BY <1>6 DEF IsBlock
  <2> QED BY <1>2, <1>7, <2>1, RootIs, RootsAreMethods
<1> QED BY <1>1, <1>2, <1>3, <1>4, <1>5, <1>6, <1>7, <1>8

(* A context more, of a method or of a native.                             *)
LEMMA AddedOK ==
  ASSUME NEW cx, ContextsOK(cx), NEW r, Receiver(cx, r), NEW cx2, Longer(cx, r, cx2)
  PROVE  /\ ContextsOK(cx2) /\ Kept(cx, cx2) /\ SameMessengers(cx, cx2)
         /\ Len(cx2) = Len(cx) + 1 /\ cx2[Len(cx) + 1] = r
<1>1. /\ cx2 = Append(cx, r) /\ r \in Context /\ cx \in Seq(Context) /\ Len(cx) \in Nat
  BY DEF Longer, Receiver, ContextsOK
<1>2. /\ Len(cx2) = Len(cx) + 1 /\ cx2[Len(cx) + 1] = r /\ Len(cx2) \in Nat
      /\ \A c \in 1 .. Len(cx) : cx2[c] = cx[c]
  BY ONLY <1>1
<1>3. \A b : IsBlock(cx, b) => IsBlock(cx2, b)
  BY <1>1, <1>2 DEF IsBlock
<1>4. ContextOK(cx2, Len(cx) + 1)
  <2>1. r.messenger \in 0 .. Len(cx2) /\ r.here \in 0 .. Len(cx2)
    BY <1>1, <1>2 DEF Receiver
  <2> QED BY <1>2, <1>3, <2>1 DEF ContextOK, Receiver
<1>5. ContextsOK(cx2) /\ Kept(cx, cx2)
  BY <1>1, <1>4, AppendedOK
<1>6. SameMessengers(cx, cx2)
  BY <1>2 DEF SameMessengers
<1> QED BY <1>2, <1>5, <1>6

(* The block that answers a break or continue is an argument of its own.   *)
LEMMA HandlerHandsOn ==
  ASSUME TypeInv, CallHandler
  PROVE  /\ stack' \in Seq(Call)
         /\ HandsOn(ctx, Calls(stack), Len(stack), ctx', Calls(stack'), Len(stack'))
<1>1. InNative("ran") /\ sel \in Executes
  BY DEF CallHandler
<1>2. PICK kind \in Called :
        /\ ctx' = Append(ctx, NewContext("native", "execute", cur, Null, Fresh,
                                         <<ctx[cur].locals[Handler(sel, kind)]>>))
        /\ stack' = <<Native(Fresh, "enter", 0), At("last")>> \o Tail(stack)
  BY DEF CallHandler
<1> DEFINE n == Len(stack)
           cl == Calls(stack)
           cl2 == Calls(stack')
           h == ctx[cur].locals[Handler(sel, kind)]
           m == NewContext("native", "execute", cur, Null, Fresh, <<h>>)
           x == Native(Fresh, "enter", 0)
           y == At("last")
<1>3. /\ stack # <<>> /\ top.fn = "native" /\ top.phase = "ran"
      /\ ContextsOK(ctx) /\ stack \in Seq(Call) /\ n \in Nat /\ n > 0
      /\ cl[n] = top /\ cl[n].ctx = cur /\ top.left \in 0 .. Items
      /\ cur \in 1 .. Len(ctx) /\ cur \in Nat /\ Len(ctx) \in Nat
      /\ ctx[cur].kind = "native"
      /\ \A k \in 1 .. Takes(sel) : IsBlock(ctx, ctx[cur].locals[k])
      /\ Fresh = Len(ctx) + 1 /\ Fresh \in Nat
  BY <1>1, NativeFacts DEF cur, Fresh
<1>4. Handler(sel, kind) \in 1 .. Takes(sel)
  <2>1. Handler(sel, kind) # 0
    BY <1>2 DEF Called
  <2> QED BY <2>1 DEF Handler, Takes
<1>5. IsBlock(ctx, h) /\ h \in Nat
  BY <1>3, <1>4 DEF IsBlock
<1>6. /\ m \in Context /\ m.kind = "native" /\ m.code = "execute" /\ m.messenger = cur
      /\ m.here = Fresh /\ m.locals = <<h>> /\ m.origin = Null
  <2>1. /\ Null \in Nat /\ 1 \in Nat \ {0} /\ FALSE \in BOOLEAN
        /\ {} \in SUBSET {"break", "continue"} /\ "execute" \in Codes \union Selectors
        /\ <<h>> \in [Names -> Nat] \union Seq(Nat)
    BY <1>5 DEF Null, Selectors
  <2> HIDE DEF h
  <2>2. m = [kind |-> "native", code |-> "execute", messenger |-> cur, origin |-> Null,
             ip |-> 1, done |-> FALSE, called |-> {}, traps |-> {}, here |-> Fresh,
             locals |-> <<h>>]
    BY DEF NewContext
  <2> HIDE DEF m
  <2>3. m \in Context
    BY <1>3, <2>1, <2>2 DEF Context
  <2> QED BY <2>2, <2>3
<1> HIDE DEF m, h
<1>7. /\ ContextsOK(ctx') /\ Kept(ctx, ctx') /\ SameMessengers(ctx, ctx')
      /\ Len(ctx') = Len(ctx) + 1 /\ ctx'[Len(ctx) + 1] = m
  <2>1. Longer(ctx, m, ctx')
    BY <1>2 DEF Longer, m, h
  <2>2. m.locals \in [1 .. Takes("execute") -> Nat]
        /\ \A k \in 1 .. Takes("execute") : IsBlock(ctx, m.locals[k])
    <3>1. 1 .. Takes("execute") = {1}
      BY TakesOne
    <3>2. <<h>> \in [{1} -> Nat] /\ <<h>>[1] = h
      BY <1>5
    <3> QED BY <1>5, <1>6, <3>1, <3>2
  <2>3. Receiver(ctx, m)
    BY <1>3, <1>6, <2>2 DEF Receiver, Selectors
  <2> QED BY <1>3, <2>1, <2>3, AddedOK
<1>8. /\ x \in Call /\ x.fn = "native" /\ x.ctx = Fresh /\ x.phase = "enter"
      /\ CallOK(ctx', x)
  <2>1. 0 \in 0 .. Items /\ "enter" \in Phases
    BY ItemsAssumption DEF Phases
  <2>2. /\ x \in Call /\ x.fn = "native" /\ x.ctx = Fresh /\ x.phase = "enter"
    BY <1>3, <2>1, NativeIs
  <2> HIDE DEF x
  <2>3. ctx'[Fresh].kind = "native" /\ ctx'[Fresh].code = "execute" /\ Fresh \in 1 .. Len(ctx')
    BY <1>3, <1>6, <1>7
  <2> QED BY <2>2, <2>3 DEF CallOK, NativeOK, Runs
<1>9. /\ y \in Call /\ y.fn = "native" /\ y.ctx = cur /\ y.phase = "last"
      /\ CallOK(ctx', y)
  <2>1. "last" \in Phases
    BY DEF Phases
  <2>2. /\ y \in Call /\ y.fn = "native" /\ y.ctx = cur /\ y.phase = "last"
    BY <1>3, <2>1, NativeIs DEF At
  <2> HIDE DEF y
  <2>3. ctx'[cur].kind = "native" /\ cur \in 1 .. Len(ctx')
    BY <1>3, <1>7 DEF Kept
  <2> QED BY <2>2, <2>3 DEF CallOK, NativeOK, Runs
<1> HIDE DEF x, y
<1>10. /\ stack' \in Seq(Call) /\ Len(stack') = n + 1 /\ cl2[n + 1] = x /\ cl2[n] = y
       /\ \A d \in 1 .. n - 1 : cl2[d] = cl[d]
  <2>1. PushedOn(stack, stack', x, y)
    BY <1>2, <1>3, <1>8, <1>9, PushCall DEF x, y
  <2> QED BY <2>1 DEF PushedOn
<1>11. \A c \in Len(ctx) + 1 .. Len(ctx') : ctx'[c].kind # "block"
  <2>1. \A c \in Len(ctx) + 1 .. Len(ctx') : c = Len(ctx) + 1
    BY <1>3, <1>7
  <2> QED BY <1>6, <1>7, <2>1
<1> HIDE DEF cl, cl2, n
<1>12. HandsOn(ctx, cl, n, ctx', cl2, Len(stack'))
  BY <1>3, <1>7, <1>8, <1>9, <1>10, <1>11 DEF HandsOn
<1> QED BY <1>10, <1>12 DEF cl, cl2, n

(* A native that returns, having left the contexts as c.                   *)
LEMMA ReturnsWindUp ==
  ASSUME TypeInv, NEW phase, InNative(phase), NEW c, Rewritten(ctx, c, Null, Null),
         NativeReturns(c)
  PROVE  /\ stack' \in Seq(Call)
         /\ WindsUp(ctx, Calls(stack), Len(stack), ctx', Calls(stack'), Len(stack'))
<1> DEFINE n == Len(stack)
           cl == Calls(stack)
           cl2 == Calls(stack')
           caller == stack[2]
<1>1. /\ ContextsOK(ctx) /\ ShapeOK(ctx, cl, n) /\ stack \in Seq(Call) /\ stack # <<>>
      /\ n \in Nat /\ n > 1 /\ cl[n] = top /\ top.fn = "native" /\ cur \in 1 .. Len(ctx)
  BY NativeFacts
<1>2. caller = cl[n - 1] /\ caller \in Call /\ 2 \in 1 .. n /\ n + 1 - 2 = n - 1
      /\ n - 1 \in 1 .. n
  <2>1. 2 \in 1 .. n /\ n + 1 - 2 = n - 1 /\ n - 1 \in 1 .. n /\ n + 1 - (n - 1) = 2
    BY <1>1
  <2> QED BY <1>1, <2>1 DEF Calls
<1>3. CASE caller.fn = "interpret"
  <2> DEFINE x == [caller EXCEPT !.phase = "check"]
  <2>1. /\ ctx' = [c EXCEPT ![cur].done = TRUE]
        /\ stack' = <<x>> \o SubSeq(stack, 2 + 1, n)
    BY <1>3 DEF NativeReturns
  <2>2. Rewritten(ctx, ctx', Null, Null)
    BY <1>1, <2>1, RewriteFlags
  <2>3. /\ x \in Call /\ x.fn = "interpret" /\ x.phase = "check" /\ x.ctx = caller.ctx
        /\ x.ip = caller.ip
    BY <1>2, <1>3 DEF Call, Phases
  <2> HIDE DEF x
  <2>4. CutTo(stack, stack', n - 1, x)
    BY <1>1, <1>2, <2>1, <2>3, CutStack
  <2>5. /\ stack' \in Seq(Call) /\ Len(stack') = n - 1 /\ cl2[n - 1] = x
        /\ \A d \in 1 .. n - 2 : cl2[d] = cl[d]
    <3>1. (n - 1) - 1 = n - 2
      BY <1>1
    <3> QED BY <2>4, <3>1 DEF CutTo
  <2>6. CallOK(ctx', x)
    <3>1. ContextsOK(ctx') /\ Kept(ctx, ctx')
      BY <1>1, <2>2, UnchangedMessengers
    <3>2. CallOK(ctx, caller)
      BY <1>1, <1>2 DEF ShapeOK
    <3>3. CallOK(ctx', caller)
      BY <1>1, <3>1, <3>2, CallKept
    <3> QED BY <1>3, <2>3, <3>3 DEF CallOK, InterpretOK
  <2> HIDE DEF cl, cl2, n, caller
  <2>7. WindsUp(ctx, cl, n, ctx', cl2, Len(stack'))
    BY <1>1, <1>2, <1>3, <2>2, <2>3, <2>5, <2>6 DEF WindsUp
  <2> QED BY <2>5, <2>7 DEF cl, cl2, n
<1>4. CASE caller.fn # "interpret"
  <2>1. ctx' = c /\ stack' = Tail(stack)
    BY <1>4 DEF NativeReturns
  <2>2. /\ stack' \in Seq(Call) /\ Len(stack') = n - 1
        /\ \A d \in 1 .. n - 1 : cl2[d] = cl[d]
    BY <1>1, <2>1, PopCall
  <2>3. n - 1 \in 1 .. n - 1 /\ \A d \in 1 .. n - 2 : d \in 1 .. n - 1
    BY <1>1
  <2> HIDE DEF cl, cl2, n, caller
  <2>4. WindsUp(ctx, cl, n, ctx', cl2, Len(stack'))
    BY <1>1, <1>2, <1>4, <2>1, <2>2, <2>3 DEF WindsUp
  <2> QED BY <2>2, <2>4 DEF cl, cl2, n
<1> QED BY <1>3, <1>4

(* The call of a native in context c that runs the block b and waits.      *)
Waits(cx, x, c, b) ==
  /\ CallOK(cx, x)
  /\ x.fn = "native" /\ x.ctx = c /\ x.phase \in Runs
  /\ RunByIn(cx, x) = b

(* The contexts are as c when the native calls execute for b.              *)
LEMMA ExecuteStarts ==
  ASSUME TypeInv, NEW phase, InNative(phase), NEW c, NEW b, IsBlock(ctx, b),
         \/ Rewritten(ctx, c, b, cur)
         \/ /\ Rewritten(ctx, c, Null, Null)
            /\ sel = "timesDo" \/ (phase \in Runs /\ b = RunByIn(ctx, top)),
         NEW frame, Waits(ctx, frame, cur, b), Execute(c, b, frame)
  PROVE  /\ stack' \in Seq(Call)
         /\ Starts(ctx, Calls(stack), Len(stack), ctx', Calls(stack'), Len(stack'), b)
<1> DEFINE n == Len(stack)
           cl == Calls(stack)
           cl2 == Calls(stack')
           r == Root(b)
           x == Interpret(b, c[b].ip, "fetch")
<1>1. /\ ContextsOK(ctx) /\ stack \in Seq(Call) /\ stack # <<>>
      /\ n \in Nat /\ n > 0 /\ cl[n] = top /\ top.fn = "native" /\ cl[n].ctx = cur
      /\ cur \in 1 .. Len(ctx) /\ top.phase = phase /\ Len(ctx) \in Nat
  BY NativeFacts DEF cur
<1>2. b \in 1 .. Len(ctx) /\ b \in 0 .. Len(ctx) /\ b \in Nat /\ ctx[b].kind = "block"
  BY <1>1 DEF IsBlock
<1>3. r = RootsOf(ctx)[b] /\ r \in 1 .. Len(ctx)
  BY <1>1, <1>2, RootIs, RootsAreMethods
<1>4. ctx' = [c EXCEPT ![r].here = b] /\ stack' = <<x, frame>> \o Tail(stack)
  BY DEF Execute
<1> HIDE DEF r
<1>5. \A z, m : Rewritten(ctx, c, z, m) => Rewritten(ctx, ctx', z, m)
  <2> TAKE z, m
  <2> HAVE Rewritten(ctx, c, z, m)
  <2> QED BY <1>1, <1>2, <1>3, <1>4, RewriteFlags
<1>6. PICK z, m : Rewritten(ctx, c, z, m) /\ z \in {b, Null} /\ m \in {cur, Null}
  OBVIOUS
<1>7. /\ c \in Seq(Context) /\ Len(c) = Len(ctx) /\ c[b] \in Context /\ c[r] \in Context
      /\ r \in DOMAIN c
  BY <1>2, <1>3, <1>6 DEF Rewritten
<1>8. ctx'[r].here = b
  BY <1>4, <1>7 DEF Context
<1>9. /\ ContextsOK(ctx') /\ Kept(ctx, ctx') /\ Len(ctx') = Len(ctx)
  <2>1. m \in 0 .. Len(ctx)
    BY <1>1, <1>6 DEF Null
  <2>2. Rewritten(ctx, ctx', z, m)
    BY <1>5, <1>6
  <2>3. Len(ctx') = Len(ctx)
    BY <2>2 DEF Rewritten
  <2> QED BY <1>1, <2>1, <2>2, <2>3, RewrittenOK
<1>10. /\ x \in Call /\ x.fn = "interpret" /\ x.ctx = b /\ x.phase = "fetch"
       /\ CallOK(ctx', x)
  <2>1. b \in Nat /\ c[b].ip \in Nat \ {0}
    BY <1>2, <1>7 DEF Context
  <2>2. /\ x \in Call /\ x.fn = "interpret" /\ x.ctx = b /\ x.phase = "fetch"
        /\ \A cx : b \in 1 .. Len(cx) /\ cx[b].kind # "native" => CallOK(cx, x)
    BY ONLY <2>1, InterpretIs
  <2> HIDE DEF x
  <2>3. b \in 1 .. Len(ctx') /\ ctx'[b].kind # "native"
    BY <1>2, <1>9 DEF Kept
  <2> QED BY <2>2, <2>3
<1> HIDE DEF x
<1>11. /\ CallOK(ctx', frame) /\ frame \in Call /\ frame.fn = "native" /\ frame.ctx = cur
       /\ frame.phase \in Runs /\ b = RunByIn(ctx, frame)
  <2>1. CallOK(ctx, frame)
    BY DEF Waits
  <2>2. CallOK(ctx', frame)
    BY <1>1, <1>9, <2>1, CallKept
  <2> QED BY <2>1, <2>2 DEF Waits, CallOK
<1>12. /\ stack' \in Seq(Call) /\ Len(stack') = n + 1 /\ cl2[n + 1] = x /\ cl2[n] = frame
       /\ \A d \in 1 .. n - 1 : cl2[d] = cl[d]
  <2>1. PushedOn(stack, stack', x, frame)
    BY <1>1, <1>4, <1>10, <1>11, PushCall
  <2> QED BY <2>1 DEF PushedOn
<1>13. \/ Rewritten(ctx, ctx', b, cur)
       \/ /\ Rewritten(ctx, ctx', Null, Null)
          /\ ctx[cur].code = "timesDo" \/ (cl[n].phase \in Runs /\ b = RunByIn(ctx, cl[n]))
  BY <1>1, <1>5 DEF sel
<1> HIDE DEF cl, cl2, n
<1>14. Starts(ctx, cl, n, ctx', cl2, Len(stack'), b)
  BY <1>1, <1>3, <1>8, <1>10, <1>11, <1>12, <1>13 DEF Starts
<1> QED BY <1>12, <1>14 DEF cl, cl2, n

(* Natives that return: the contexts are left as they are, or the block is *)
(* reset.                                                                  *)
Returning == Finish \/ LeaveConditional \/ LeaveLoop \/ LeaveTry \/ CatchTry \/ LeaveCatch

(* All of them return as ReturnsWindUp says.                               *)
LEMMA ReturningWindsUp ==
  ASSUME TypeInv, Returning \/ (TimesDo /\ top.left = 0)
  PROVE  /\ stack' \in Seq(Call)
         /\ WindsUp(ctx, Calls(stack), Len(stack), ctx', Calls(stack'), Len(stack'))
<1> DEFINE Winds == /\ stack' \in Seq(Call)
                    /\ WindsUp(ctx, Calls(stack), Len(stack), ctx', Calls(stack'), Len(stack'))
           same == ctx
           reset == ResetIn(ctx, block)
<1>1. PICK phase : InNative(phase) /\ (NativeReturns(same) \/ NativeReturns(reset))
  <2>1. CASE Finish
    BY <2>1 DEF Finish, Finishing
  <2>2. CASE LeaveConditional
    <3>1. sel = "isFalse" \/ sel # "isFalse"
      OBVIOUS
    <3> QED BY <2>2, <3>1 DEF LeaveConditional
  <2>3. CASE LeaveLoop
    BY <2>3 DEF LeaveLoop
  <2>4. CASE LeaveTry
    BY <2>4 DEF LeaveTry
  <2>5. CASE CatchTry
    BY <2>5 DEF CatchTry
  <2>6. CASE LeaveCatch
    BY <2>6 DEF LeaveCatch
  <2>7. CASE TimesDo /\ top.left = 0
    BY <2>7 DEF TimesDo
  <2> QED BY <2>1, <2>2, <2>3, <2>4, <2>5, <2>6, <2>7 DEF Returning
<1>2. ContextsOK(ctx) /\ block \in 1 .. Len(ctx)
  BY <1>1, NativeFacts
<1>3. Rewritten(ctx, same, Null, Null) /\ Rewritten(ctx, reset, Null, Null)
  BY <1>2, NotRewritten, RewriteFlags
<1> HIDE DEF same, reset
<1>4. Winds
  BY <1>1, <1>3, ReturnsWindUp
<1> QED BY <1>4 DEF Winds

(* The call of a native that waits for its block, or for its catch block.  *)
LEMMA WaitsIs ==
  ASSUME TypeInv, NEW now, InNative(now), NEW phase \in Runs, NEW left \in 0 .. Items,
         phase \in {"try", "catching"} => sel \in {"try", "tryCatch"},
         phase = "catching" => sel = "tryCatch",
         phase = "ran" /\ sel \in {"forEach", "forEachText"} => left # 0
  PROVE  Waits(ctx, Native(cur, phase, left), cur,
               ctx[cur].locals[IF phase = "catching" THEN 2 ELSE 1])
<1> DEFINE x == Native(cur, phase, left)
<1>1. cur \in 1 .. Len(ctx) /\ cur \in Nat /\ ctx[cur].kind = "native" /\ sel = ctx[cur].code
  BY NativeFacts DEF sel
<1>2. phase \in Phases /\ phase \notin {"enter", "caught"}
  BY DEF Runs, Phases
<1>3. /\ x \in Call /\ x.fn = "native" /\ x.ctx = cur /\ x.phase = phase /\ x.left = left
  BY ONLY <1>1, <1>2, left \in 0 .. Items, NativeIs
<1> HIDE DEF x
<1>4. NativeOK(ctx, x)
  BY <1>1, <1>2, <1>3 DEF NativeOK
<1>5. CallOK(ctx, x)
  BY <1>1, <1>3, <1>4 DEF CallOK
<1>6. RunByIn(ctx, x) = ctx[cur].locals[IF phase = "catching" THEN 2 ELSE 1]
  BY <1>3 DEF RunByIn
<1>7. Waits(ctx, x, cur, ctx[cur].locals[IF phase = "catching" THEN 2 ELSE 1])
  BY <1>3, <1>5, <1>6 DEF Waits
<1> QED BY <1>7 DEF x

(* A native becomes the messenger of its block.                            *)
LEMMA MessagedIs ==
  ASSUME TypeInv, NEW now, InNative(now), NEW b, IsBlock(ctx, b)
  PROVE  Rewritten(ctx, Messaged(b), b, cur)
<1>1. ContextsOK(ctx) /\ cur \in Nat /\ b \in 1 .. Len(ctx)
  BY NativeFacts DEF IsBlock
<1> QED BY <1>1, RewriteMessenger DEF Messaged

(* Only break and continue are trapped.                                    *)
LEMMA TrapsAre ==
  Traps(sel) \in SUBSET {"break", "continue"} /\ LoopTraps \in SUBSET {"break", "continue"}
BY DEF Traps, LoopTraps

(* What the call of a native would be, having called an interpreter for b. *)
StartsFor(b) ==
  /\ stack' \in Seq(Call)
  /\ Starts(ctx, Calls(stack), Len(stack), ctx', Calls(stack'), Len(stack'), b)

(* execute and its variants.                                               *)
LEMMA EnterExecuteStarts ==
  ASSUME TypeInv, EnterExecute
  PROVE  StartsFor(block)
<1> DEFINE c1 == Trapped(Messaged(block), block, Traps(sel))
           c == ResetIn(c1, block)
<1>1. InNative("enter") /\ sel \in Executes /\ Execute(c, block, Native(cur, "ran", top.left))
  BY DEF EnterExecute, At
<1>2. ContextsOK(ctx) /\ IsBlock(ctx, block) /\ block \in 1 .. Len(ctx) /\ top.left \in 0 .. Items
  BY <1>1, NativeFacts
<1>3. Rewritten(ctx, Messaged(block), block, cur)
  BY <1>1, <1>2, MessagedIs
<1>4. Rewritten(ctx, c1, block, cur)
  BY <1>2, <1>3, RewriteFlags, TrapsAre
<1> HIDE DEF c1
<1>5. Rewritten(ctx, c, block, cur)
  BY <1>2, <1>4, RewriteFlags
<1> HIDE DEF c
<1>6. Waits(ctx, Native(cur, "ran", top.left), cur, block)
  BY <1>1, <1>2, WaitsIs DEF Runs, Executes, block
<1> QED BY <1>1, <1>2, <1>5, <1>6, ExecuteStarts DEF StartsFor

(* isTrue: and isFalse:.                                                   *)
LEMMA EnterConditionalStarts ==
  ASSUME TypeInv, EnterConditional
  PROVE  StartsFor(block)
<1>1. /\ InNative("enter") /\ sel \in {"isTrue", "isFalse"}
      /\ Execute(Messaged(block), block, Native(cur, "ran", top.left))
  BY DEF EnterConditional, At
<1>2. ContextsOK(ctx) /\ IsBlock(ctx, block) /\ top.left \in 0 .. Items
  BY <1>1, NativeFacts
<1>3. Rewritten(ctx, Messaged(block), block, cur)
  BY <1>1, <1>2, MessagedIs
<1>4. Waits(ctx, Native(cur, "ran", top.left), cur, block)
  BY <1>1, <1>2, WaitsIs DEF Runs, block
<1> QED BY <1>1, <1>2, <1>3, <1>4, ExecuteStarts DEF StartsFor

(* try: and try:catch:.                                                    *)
LEMMA EnterTryStarts ==
  ASSUME TypeInv, EnterTry
  PROVE  StartsFor(block)
<1>1. /\ InNative("enter") /\ sel \in {"try", "tryCatch"}
      /\ Execute(Messaged(block), block, Native(cur, "try", top.left))
  BY DEF EnterTry, At
<1>2. ContextsOK(ctx) /\ IsBlock(ctx, block) /\ top.left \in 0 .. Items
  BY <1>1, NativeFacts
<1>3. Rewritten(ctx, Messaged(block), block, cur)
  BY <1>1, <1>2, MessagedIs
<1>4. Waits(ctx, Native(cur, "try", top.left), cur, block)
  BY <1>1, <1>2, WaitsIs DEF Runs, block
<1> QED BY <1>1, <1>2, <1>3, <1>4, ExecuteStarts DEF StartsFor

(* The catch block is the second argument.                                 *)
LEMMA RunCatchStarts ==
  ASSUME TypeInv, RunCatch
  PROVE  StartsFor(ctx[cur].locals[2])
<1> DEFINE handler == ctx[cur].locals[2]
<1>1. /\ InNative("caught") /\ sel = "tryCatch"
      /\ Execute(Messaged(handler), handler, Native(cur, "catching", top.left))
  BY DEF RunCatch, At
<1>2. ContextsOK(ctx) /\ IsBlock(ctx, handler) /\ top.left \in 0 .. Items
  <2>1. 2 \in 1 .. Takes(sel)
    BY <1>1, TakesOne
  <2> QED BY <1>1, <2>1, NativeFacts
<1>3. Waits(ctx, Native(cur, "catching", top.left), cur, handler)
  BY <1>1, <1>2, WaitsIs DEF Runs
<1> HIDE DEF handler
<1>4. Rewritten(ctx, Messaged(handler), handler, cur)
  BY <1>1, <1>2, MessagedIs
<1>5. StartsFor(handler)
  BY <1>1, <1>2, <1>3, <1>4, ExecuteStarts DEF StartsFor
<1> QED BY <1>5 DEF handler

(* timesDo: does not become the messenger.                                 *)
LEMMA TimesDoStarts ==
  ASSUME TypeInv, TimesDo, top.left # 0
  PROVE  StartsFor(block)
<1>1. PICK now \in {"enter", "ran"} : InNative(now)
  BY DEF TimesDo
<1>2. sel = "timesDo" /\ Execute(ctx, block, Native(cur, "ran", top.left - 1))
  BY DEF TimesDo
<1>3. ContextsOK(ctx) /\ IsBlock(ctx, block) /\ top.left - 1 \in 0 .. Items
  BY <1>1, NativeFacts, ItemsAssumption
<1>4. Rewritten(ctx, ctx, Null, Null)
  BY <1>3, NotRewritten
<1>5. Waits(ctx, Native(cur, "ran", top.left - 1), cur, block)
  BY <1>1, <1>2, <1>3, WaitsIs DEF Runs, block
<1> QED BY <1>1, <1>2, <1>3, <1>4, <1>5, ExecuteStarts DEF StartsFor

(* The next item: the block is reset, its messenger stays.                 *)
LEMMA NextItemStarts ==
  ASSUME TypeInv, NextItem
  PROVE  StartsFor(block)
<1> DEFINE left == IF sel = "repeat" THEN 0 ELSE top.left - 1
           c1 == ResetIn(ctx, block)
           c == Trapped(c1, block, LoopTraps)
<1>1. /\ InNative("ran") /\ sel \in {"forEach", "forEachText", "repeat"} /\ ~LoopOver
      /\ Execute(c, block, Native(cur, "ran", left))
  BY DEF NextItem
<1>2. /\ ContextsOK(ctx) /\ IsBlock(ctx, block) /\ block \in 1 .. Len(ctx)
      /\ top.left \in 0 .. Items /\ NativeOK(ctx, top) /\ top.phase = "ran"
  BY <1>1, NativeFacts
<1>3. left \in 0 .. Items /\ (sel \in {"forEach", "forEachText"} => left # 0)
  <2>1. sel \in {"forEach", "forEachText"} => top.left # 0
    BY <1>2 DEF NativeOK, sel, cur
  <2>2. sel # "repeat" => top.left # 1
    BY <1>1 DEF LoopOver
  <2> QED BY <1>1, <1>2, <2>1, <2>2, ItemsAssumption
<1>4. Rewritten(ctx, c, Null, Null)
  <2>1. Rewritten(ctx, c1, Null, Null)
    BY <1>2, NotRewritten, RewriteFlags
  <2> HIDE DEF c1
  <2> QED BY <1>2, <2>1, RewriteFlags, TrapsAre
<1>5. block = RunByIn(ctx, top)
  BY <1>2 DEF RunByIn, block, cur
<1> HIDE DEF left, c
<1>6. Waits(ctx, Native(cur, "ran", left), cur, block)
  BY <1>1, <1>3, WaitsIs DEF Runs, block
<1>7. "ran" \in Runs
  BY DEF Runs
<1> QED BY <1>1, <1>2, <1>4, <1>5, <1>6, <1>7, ExecuteStarts DEF StartsFor

(* The first item, if there is one.                                        *)
LEMMA EnterLoopStarts ==
  ASSUME TypeInv, EnterLoop
  PROVE  \/ StartsFor(block)
         \/ /\ stack' \in Seq(Call)
            /\ Skips(ctx, Calls(stack), Len(stack), ctx', Calls(stack'), Len(stack'))
<1>1. InNative("enter") /\ sel \in {"forEach", "forEachText", "repeat"}
  BY DEF EnterLoop
<1>2. /\ ContextsOK(ctx) /\ IsBlock(ctx, block) /\ block \in 1 .. Len(ctx)
      /\ top.left \in 0 .. Items /\ NativeOK(ctx, top) /\ top.phase = "enter" /\ cur \in Nat
      /\ cur \in 1 .. Len(ctx) /\ stack # <<>> /\ top.fn = "native"
      /\ Len(stack) \in Nat /\ Len(stack) > 1 /\ Calls(stack)[Len(stack)] = top
      /\ ctx[cur].kind = "native" /\ Len(ctx) \in Nat
  BY <1>1, NativeFacts
<1>3. Rewritten(ctx, Messaged(block), block, cur)
  BY <1>1, <1>2, MessagedIs
<1>4. CASE sel # "repeat" /\ top.left = 0
  <2> DEFINE x == At("last")
             n == Len(stack)
             cl == Calls(stack)
             cl2 == Calls(stack')
  <2>1. ctx' = Messaged(block) /\ stack' = <<x>> \o Tail(stack)
    BY <1>4 DEF EnterLoop
  <2>2. Items = 0
    BY <1>1, <1>2, <1>4 DEF NativeOK, sel, cur
  <2>3. /\ x \in Call /\ x.fn = "native" /\ x.ctx = cur /\ x.phase = "last"
    <3>1. "last" \in Phases
      BY DEF Phases
    <3> QED BY <1>2, <3>1, NativeIs DEF At
  <2> HIDE DEF x
  <2>4. CallOK(ctx', x)
    <3>1. Rewritten(ctx, ctx', block, cur)
      BY <1>3, <2>1
    <3>2. ctx'[cur].kind = "native" /\ cur \in 1 .. Len(ctx')
      BY <1>2, <3>1 DEF Rewritten
    <3> QED BY <2>3, <3>2 DEF CallOK, NativeOK, Runs
  <2>5. /\ stack' \in Seq(Call) /\ Len(stack') = n /\ cl2[n] = x
        /\ \A d \in 1 .. n - 1 : cl2[d] = cl[d]
    BY <1>2, <2>1, <2>3, StepsTop
  <2>6. block = ctx[cl[n].ctx].locals[1] /\ cl[n].ctx = cur
    BY <1>2 DEF block, cur
  <2> HIDE DEF cl, cl2, n
  <2>7. Skips(ctx, cl, n, ctx', cl2, Len(stack'))
    <3>1. n > 0 /\ cl[n].fn = "native" /\ cl[n].phase = "enter"
      BY <1>2 DEF cl, n
    <3>2. Rewritten(ctx, ctx', ctx[cl[n].ctx].locals[1], cl[n].ctx)
      BY <1>3, <2>1, <2>6
    <3> QED BY <2>2, <2>3, <2>4, <2>5, <2>6, <3>1, <3>2 DEF Skips
  <2> QED BY <2>5, <2>7 DEF cl, cl2, n
<1>5. CASE ~(sel # "repeat" /\ top.left = 0)
  <2> DEFINE c == Trapped(Messaged(block), block, LoopTraps)
  <2>1. Execute(c, block, Native(cur, "ran", top.left))
    BY <1>5 DEF EnterLoop, At
  <2>2. Rewritten(ctx, c, block, cur)
    BY <1>2, <1>3, RewriteFlags, TrapsAre
  <2> HIDE DEF c
  <2>3. Waits(ctx, Native(cur, "ran", top.left), cur, block)
    <3>1. sel \in {"forEach", "forEachText"} => top.left # 0
      BY <1>5
    <3> QED BY <1>1, <1>2, <3>1, WaitsIs DEF Runs, block
  <2> QED BY <1>1, <1>2, <2>1, <2>2, <2>3, ExecuteStarts DEF StartsFor
<1> QED BY <1>4, <1>5

(***************************************************************************)
(* Every step                                                              *)
(***************************************************************************)

(* The native that is called is given no block that is under way, if       *)
(* natives are not; nor was it when it was entered.                        *)
LEMMA GivenNow ==
  ASSUME TypeInv, NEW now, InNative(now), Nests,
         GivenOK(ctx, Calls(stack), Len(stack))
  PROVE  GivenAt(ctx, Calls(stack), Len(stack))
<1> DEFINE n == Len(stack)
           cl == Calls(stack)
<1>1. /\ n \in Nat /\ n > 1 /\ cl[n] = top /\ top.fn = "native" /\ top.phase = now
      /\ stack \in Seq(Call) /\ ctx[cur].locals \in [1 .. Takes(sel) -> Nat]
      /\ cl[n].ctx = cur
  BY NativeFacts DEF cur
<1>2. CASE now # "enter"
  BY <1>1, <1>2 DEF GivenOK
<1>3. CASE now = "enter"
  <2>1. sel # "timesDo" /\ \A k \in 1 .. Takes(sel) : ctx[cur].locals[k] \notin UnderWay
    BY <1>1, <1>3 DEF Nests
  <2>2. ASSUME NEW e \in 2 .. n - 1, cl[e].fn = "interpret"
        PROVE  Base(ctx, cl, e) \in UnderWay
    <3> DEFINE j == n + 2 - e
    <3>1. /\ j \in 1 .. n /\ j > 1 /\ j - 1 \in 1 .. n /\ j - 1 = n + 1 - e
          /\ j = n + 1 - (e - 1) /\ e \in 1 .. n /\ e - 1 \in 1 .. n /\ e # 1
      BY <1>1
    <3>2. cl[e] = stack[j - 1] /\ cl[e - 1] = stack[j]
      BY <1>1, <3>1, CallsFacts
    <3> HIDE DEF j
    <3>3. j \in {i \in DOMAIN stack : i > 1 /\ stack[i - 1].fn = "interpret"}
      BY <1>1, <2>2, <3>1, <3>2
    <3>4. RunBy(stack[j]) \in UnderWay
      BY <3>3 DEF UnderWay
    <3> QED BY <3>1, <3>2, <3>4 DEF Base, RunByIn, RunBy
  <2> HIDE DEF n, cl
  <2>3. sel = ctx[cl[n].ctx].code /\ ctx[cur].locals = ctx[cl[n].ctx].locals
    BY <1>1 DEF sel
  <2>4. ASSUME NEW k \in 1 .. Takes(sel), NEW e \in 2 .. n - 1, cl[e].fn = "interpret"
        PROVE  ctx[cur].locals[k] # Base(ctx, cl, e)
    <3>1. ctx[cur].locals[k] \notin UnderWay
      BY <2>1
    <3>2. Base(ctx, cl, e) \in UnderWay
      BY <2>2, <2>4
    <3> QED BY <3>1, <3>2
  <2>5. /\ ctx[cl[n].ctx].code # "timesDo"
        /\ \A k \in 1 .. Takes(ctx[cl[n].ctx].code) : \A e \in 2 .. n - 1 :
             cl[e].fn = "interpret" => ctx[cl[n].ctx].locals[k] # Base(ctx, cl, e)
    BY <2>1, <2>3, <2>4
  <2>6. GivenAt(ctx, cl, n)
    BY <2>5 DEF GivenAt
  <2> QED BY <2>6 DEF n, cl
<1> QED BY <1>2, <1>3

(* A step is noted, or nothing is.                                         *)
LEMMA Noting ==
  ASSUME Next
  PROVE  /\ prog' = prog
         /\ trace' = trace \/ (Note /\ Running /\ top.phase = "fetch")
         /\ failed' = failed \/ failed' = TRUE
<1>1. CASE Move
  BY <1>1 DEF Move, Fetching
<1>2. CASE MakeBlock
  BY <1>2 DEF MakeBlock, Fetching
<1>3. CASE ContextEnd
  BY <1>3 DEF ContextEnd
<1>4. CASE CallMethod
  BY <1>4 DEF CallMethod, Fetching
<1>5. CASE CallNative
  BY <1>5 DEF CallNative, Fetching
<1>6. CASE MessageContext
  BY <1>6 DEF MessageContext, Fetching
<1>7. CASE Throw
  BY <1>7 DEF Throw, Fetching
<1>8. CASE ReturnToCaller \/ ReturnToMessenger
  BY <1>8 DEF ReturnToCaller, ReturnToMessenger
<1>9. CASE EnterExecute \/ CallHandler \/ Finish
  BY <1>9 DEF EnterExecute, CallHandler, Finish
<1>10. CASE EnterConditional \/ LeaveConditional
  BY <1>10 DEF EnterConditional, LeaveConditional
<1>11. CASE EnterLoop \/ NextItem \/ LeaveLoop \/ TimesDo
  BY <1>11 DEF EnterLoop, NextItem, LeaveLoop, TimesDo
<1>12. CASE EnterTry \/ LeaveTry \/ CatchTry \/ RunCatch \/ LeaveCatch
  BY <1>12 DEF EnterTry, LeaveTry, CatchTry, RunCatch, LeaveCatch
<1> QED BY <1>1, <1>2, <1>3, <1>4, <1>5, <1>6, <1>7, <1>8, <1>9, <1>10, <1>11, <1>12
        DEF Next

(* The invariants.                                                         *)
NamesCurrent == Current(ctx, Calls(stack), Len(stack))
Linked == LinkedOK(ctx, Calls(stack), Len(stack))
HaveCallers == Callers(ctx, Calls(stack), Len(stack))

Keeps ==
  /\ stack' \in Seq(Call)
  /\ Sound(ctx', Calls(stack'), Len(stack'))
  /\ NamesCurrent => NamesCurrent'
  /\ Linked /\ Nests => Linked'
  /\ Linked /\ Nests /\ HaveCallers /\ Items # 0 /\ ~Threw' => HaveCallers'

(* The instructions.                                                       *)
LEMMA InstructionKeeps ==
  ASSUME TypeInv, \/ Move \/ MakeBlock \/ ContextEnd \/ MessageContext
                  \/ CallMethod \/ CallNative
  PROVE  Keeps
<1>1. Sound(ctx, Calls(stack), Len(stack))
  BY DEF TypeInv
<1>2. CASE Move \/ MakeBlock \/ ContextEnd \/ MessageContext
  <2>1. /\ stack' \in Seq(Call)
        /\ GoesOn(ctx, Calls(stack), Len(stack), ctx', Calls(stack'), Len(stack'))
    BY <1>2, MoveGoesOn, MakeGoesOn, EndGoesOn, TellGoesOn
  <2> QED BY <1>1, <2>1, GoesOnKeeps DEF Keeps, NamesCurrent, Linked, HaveCallers
<1>3. CASE CallMethod \/ CallNative
  <2>1. /\ stack' \in Seq(Call)
        /\ Enters(ctx, Calls(stack), Len(stack), ctx', Calls(stack'), Len(stack'))
    BY <1>3, CallMethodEnters, CallNativeEnters
  <2> QED BY <1>1, <2>1, EntersKeeps DEF Keeps, NamesCurrent, Linked, HaveCallers
<1> QED BY <1>2, <1>3

(* An exception keeps all but CallersReleased, which is not about it.      *)
LEMMA ThrowKeeps ==
  ASSUME TypeInv, Throw
  PROVE  Keeps
<1>1. Sound(ctx, Calls(stack), Len(stack))
  BY DEF TypeInv
<1>2. /\ stack' \in Seq(Call)
      /\ Unwinds(ctx, Calls(stack), Len(stack), ctx', Calls(stack'), Len(stack'))
  BY ThrowUnwinds
<1>3. Threw'
  <2>1. /\ Running /\ top.phase = "fetch" /\ prog' = prog
        /\ top.ip <= Len(code) /\ code[top.ip].op = "throw"
        /\ trace' = Append(trace, <<ctx[cur].code, top.ip>>)
    BY DEF Throw, Fetching, Note
  <2>2. trace \in Seq(Codes \X Nat) /\ <<ctx[cur].code, top.ip>> \in Codes \X Nat
    BY <2>1, FetchFacts DEF TypeInv
  <2> DEFINE i == Len(trace) + 1
  <2>3. i \in DOMAIN trace' /\ trace'[i] = <<ctx[cur].code, top.ip>>
    BY <2>1, <2>2
  <2> HIDE DEF i
  <2>4. trace'[i][1] = ctx[cur].code /\ trace'[i][2] = top.ip
    BY <2>3
  <2> QED BY <2>1, <2>3, <2>4 DEF Threw, code
<1> QED BY <1>1, <1>2, <1>3, UnwindsKeeps DEF Keeps, NamesCurrent, Linked, HaveCallers

(* The end of the loop's body.                                             *)
LEMMA ReturnKeeps ==
  ASSUME TypeInv, ReturnToCaller \/ ReturnToMessenger
  PROVE  Keeps
<1>1. Sound(ctx, Calls(stack), Len(stack))
  BY DEF TypeInv
<1>2. CASE ReturnToCaller
  <2>1. /\ stack' \in Seq(Call)
        /\ Leaves(ctx, Calls(stack), Len(stack), ctx', Calls(stack'), Len(stack'))
    BY <1>2, ReturnLeaves
  <2> QED BY <1>1, <2>1, LeavesKeeps DEF Keeps, NamesCurrent, Linked, HaveCallers
<1>3. CASE ReturnToMessenger
  <2>1. /\ stack' \in Seq(Call)
        /\ GoesBack(ctx, Calls(stack), Len(stack), ctx', Calls(stack'), Len(stack'))
    BY <1>3, ReturnGoesBack
  <2> QED BY <1>1, <2>1, GoesBackKeeps DEF Keeps, NamesCurrent, Linked, HaveCallers
<1> QED BY <1>2, <1>3

(* Natives that return.                                                    *)
LEMMA ReturningKeeps ==
  ASSUME TypeInv, CallHandler \/ Returning \/ (TimesDo /\ top.left = 0)
  PROVE  Keeps
<1>1. Sound(ctx, Calls(stack), Len(stack))
  BY DEF TypeInv
<1>2. CASE CallHandler
  <2>1. /\ stack' \in Seq(Call)
        /\ HandsOn(ctx, Calls(stack), Len(stack), ctx', Calls(stack'), Len(stack'))
    BY <1>2, HandlerHandsOn
  <2> QED BY <1>1, <2>1, HandsOnKeeps DEF Keeps, NamesCurrent, Linked, HaveCallers
<1>3. CASE Returning \/ (TimesDo /\ top.left = 0)
  <2>1. /\ stack' \in Seq(Call)
        /\ WindsUp(ctx, Calls(stack), Len(stack), ctx', Calls(stack'), Len(stack'))
    BY <1>3, ReturningWindsUp
  <2> QED BY <1>1, <2>1, WindsUpKeeps DEF Keeps, NamesCurrent, Linked, HaveCallers
<1> QED BY <1>2, <1>3

(* Natives that call an interpreter.                                       *)
Calling == EnterExecute \/ EnterConditional \/ EnterLoop \/ NextItem \/ EnterTry \/ RunCatch

(* Here Nests is needed.                                                   *)
LEMMA CallingKeeps ==
  ASSUME TypeInv, Calling \/ (TimesDo /\ top.left # 0)
  PROVE  Keeps
<1>1. Sound(ctx, Calls(stack), Len(stack))
  BY DEF TypeInv
<1>2. \E now : InNative(now)
  BY DEF Calling, EnterExecute, EnterConditional, EnterLoop, NextItem, EnterTry, RunCatch,
         TimesDo
<1>3. Linked /\ Nests => GivenAt(ctx, Calls(stack), Len(stack))
  BY <1>2, GivenNow DEF Linked, LinkedOK
<1>4. ASSUME NEW b, StartsFor(b)
      PROVE  Keeps
  <2>1. /\ stack' \in Seq(Call)
        /\ Starts(ctx, Calls(stack), Len(stack), ctx', Calls(stack'), Len(stack'), b)
    BY <1>4 DEF StartsFor
  <2> QED BY <1>1, <1>3, <2>1, StartsKeeps DEF Keeps, NamesCurrent, Linked, HaveCallers
<1>5. CASE Skips(ctx, Calls(stack), Len(stack), ctx', Calls(stack'), Len(stack'))
           /\ stack' \in Seq(Call)
  <2>1. Items = 0
    BY <1>5 DEF Skips
  <2> QED BY <1>1, <1>3, <1>5, <2>1, SkipsKeeps DEF Keeps, NamesCurrent, Linked
<1>6. (\E b : StartsFor(b))
      \/ (/\ Skips(ctx, Calls(stack), Len(stack), ctx', Calls(stack'), Len(stack'))
          /\ stack' \in Seq(Call))
  <2>1. CASE EnterExecute
    BY <2>1, EnterExecuteStarts
  <2>2. CASE EnterConditional
    BY <2>2, EnterConditionalStarts
  <2>3. CASE EnterLoop
    BY <2>3, EnterLoopStarts
  <2>4. CASE NextItem
    BY <2>4, NextItemStarts
  <2>5. CASE EnterTry
    BY <2>5, EnterTryStarts
  <2>6. CASE RunCatch
    BY <2>6, RunCatchStarts
  <2>7. CASE TimesDo /\ top.left # 0
    BY <2>7, TimesDoStarts
  <2> QED BY <2>1, <2>2, <2>3, <2>4, <2>5, <2>6, <2>7 DEF Calling
<1> QED BY <1>4, <1>5, <1>6

(* So every step keeps the invariants.                                     *)
LEMMA StepKeeps ==
  ASSUME TypeInv, Next
  PROVE  Keeps
<1>1. CASE \/ Move \/ MakeBlock \/ ContextEnd \/ MessageContext
           \/ CallMethod \/ CallNative
  BY <1>1, InstructionKeeps
<1>2. CASE Throw
  BY <1>2, ThrowKeeps
<1>3. CASE ReturnToCaller \/ ReturnToMessenger
  BY <1>3, ReturnKeeps
<1>4. CASE CallHandler \/ Returning \/ (TimesDo /\ top.left = 0)
  BY <1>4, ReturningKeeps
<1>5. CASE Calling \/ (TimesDo /\ top.left # 0)
  BY <1>5, CallingKeeps
<1> QED BY <1>1, <1>2, <1>3, <1>4, <1>5 DEF Next, Returning, Calling

(***************************************************************************)
(* The theorems                                                            *)
(***************************************************************************)
(* main alone, in the outmost interpreter.                                 *)
LEMMA InitKeeps ==
  ASSUME Init
  PROVE  TypeInv /\ NamesCurrent /\ Linked /\ HaveCallers
<1> DEFINE m == NewContext("method", "main", Null, Null, 1, NoBlocks)
           x == Interpret(1, 1, "fetch")
           f == [c \in 1 .. 1 |-> 1]
<1>1. /\ prog \in Programs /\ ctx = <<m>> /\ stack = <<x>> /\ trace = <<>>
      /\ failed = FALSE
  BY DEF Init
<1>2. NoBlocks \in [Names -> Nat] /\ \A b \in Names : NoBlocks[b] = Null
  BY DEF NoBlocks, Null
<1>3. /\ m \in Context /\ m.kind = "method" /\ m.code \in Methods /\ m.messenger = Null
      /\ m.origin = Null /\ m.here = 1 /\ m.locals = NoBlocks
  <2>1. /\ Null \in Nat /\ 1 \in Nat /\ 1 \in Nat \ {0} /\ FALSE \in BOOLEAN
        /\ {} \in SUBSET {"break", "continue"}
        /\ "main" \in Methods /\ "main" \in Codes \union Selectors
    BY CodesAssumption DEF Null, Codes
  <2>2. m = [kind |-> "method", code |-> "main", messenger |-> Null, origin |-> Null,
             ip |-> 1, done |-> FALSE, called |-> {}, traps |-> {}, here |-> 1,
             locals |-> NoBlocks]
    BY DEF NewContext
  <2> HIDE DEF m
  <2>3. m \in Context
    BY <1>2, <2>1, <2>2 DEF Context
  <2> QED BY <2>1, <2>2, <2>3
<1> HIDE DEF m
<1>4. /\ ctx \in Seq(Context) /\ Len(ctx) = 1 /\ ctx[1] = m
  BY <1>1, <1>3
<1>5. ContextsOK(ctx)
  <2>1. ContextOK(ctx, 1)
    BY <1>2, <1>3, <1>4 DEF ContextOK, Null
  <2> QED BY <1>3, <1>4, <2>1 DEF ContextsOK
<1>6. /\ x \in Call /\ x.fn = "interpret" /\ x.ctx = 1 /\ x.phase = "fetch"
      /\ CallOK(ctx, x)
  <2>1. 1 \in Nat /\ 1 \in Nat \ {0} /\ 1 \in 1 .. Len(ctx) /\ ctx[1].kind # "native"
    BY <1>3, <1>4
  <2>2. /\ x \in Call /\ x.fn = "interpret" /\ x.ctx = 1 /\ x.phase = "fetch"
        /\ \A cx : 1 \in 1 .. Len(cx) /\ cx[1].kind # "native" => CallOK(cx, x)
    BY ONLY <2>1, InterpretIs
  <2> HIDE DEF x
  <2> QED BY <2>1, <2>2
<1> HIDE DEF x
<1>7. /\ stack \in Seq(Call) /\ Len(stack) = 1 /\ Calls(stack)[1] = x
  BY <1>1, <1>6 DEF Calls
<1> DEFINE cl == Calls(stack)
<1>8. cl[1] = x
  BY <1>7
<1> HIDE DEF cl
<1>9. ShapeOK(ctx, cl, 1)
  <2>1. \A d \in 1 .. 1 : d = 1
    OBVIOUS
  <2>2. NestedOK(cl, 1, 1)
    BY <1>6, <1>8 DEF NestedOK
  <2> QED BY <1>6, <1>8, <2>1, <2>2 DEF ShapeOK
<1>10. TypeInv
  <2>1. trace \in Seq(Codes \X Nat) /\ failed \in BOOLEAN
    <3>1. <<>> \in Seq(Codes \X Nat) /\ FALSE \in BOOLEAN
      OBVIOUS
    <3> QED BY <1>1, <3>1, Zenon
  <2>2. Sound(ctx, Calls(stack), Len(stack))
    BY <1>5, <1>7, <1>9 DEF Sound, cl
  <2> QED BY <1>1, <1>7, <2>1, <2>2 DEF TypeInv
<1>11. NamesCurrent
  <2>1. RootsOf(ctx)[1] = 1
    BY <1>3, <1>4, <1>5, RootsAreMethods
  <2>2. Current(ctx, cl, 1)
    BY <1>3, <1>4, <1>6, <1>8, <2>1 DEF Current
  <2> QED BY <1>7, <2>2 DEF NamesCurrent, cl
<1>12. Linked
  <2>1. f[1] = 1 /\ f \in [1 .. Len(ctx) -> 0 .. 1] /\ \A c \in 1 .. Len(ctx) : c = 1
    BY <1>4
  <2> HIDE DEF f
  <2>2. Base(ctx, cl, 1) = 1
    BY DEF Base
  <2>3. Member(ctx, cl, f, 1)
    BY <1>3, <1>4, <1>6, <1>8, <2>1, <2>2 DEF Member
  <2>4. Framed(ctx, cl, 1, f)
    <3>1. \A d \in 1 .. 1 : d = 1
      OBVIOUS
    <3> QED BY <1>6, <1>8, <2>1, <2>2, <2>3, <3>1 DEF Framed
  <2>5. GivenOK(ctx, cl, 1) /\ MessengersOK(ctx, cl, 1)
    <3>1. \A d \in 1 .. 1 : cl[d].fn = "interpret"
      BY <1>6, <1>8
    <3> QED BY <1>3, <1>4, <3>1 DEF GivenOK, MessengersOK
  <2>6. LinkedOK(ctx, cl, 1)
    BY <2>4, <2>5 DEF LinkedOK
  <2> QED BY <1>7, <2>6 DEF Linked, cl
<1>13. HaveCallers
  <2>1. \A c \in 1 .. Len(ctx) : ctx[c].kind # "block"
    BY <1>3, <1>4
  <2> QED BY <2>1 DEF HaveCallers, Callers, CallerOK
<1> QED BY <1>10, <1>11, <1>12, <1>13

(* TypeInv needs nothing of the programs but their types.                  *)
LEMMA StepTyped ==
  ASSUME TypeInv, [Next]_vars
  PROVE  TypeInv' /\ (NamesCurrent => NamesCurrent')
<1>1. CASE Next
  <2>1. Keeps
    BY <1>1, StepKeeps
  <2>2. /\ prog' = prog
        /\ trace' = trace \/ (Note /\ Running /\ top.phase = "fetch")
        /\ failed' = failed \/ failed' = TRUE
    BY <1>1, Noting
  <2>3. trace' \in Seq(Codes \X Nat)
    BY <2>2, FetchFacts DEF TypeInv
  <2> QED BY <2>1, <2>2, <2>3 DEF TypeInv, Keeps
<1>2. CASE UNCHANGED vars
  BY <1>2 DEF vars, TypeInv, Sound, NamesCurrent, Calls, Current
<1> QED BY <1>1, <1>2

(* The invariant that TypeCorrect and ContextCurrent follow from.          *)
LEMMA TypeInvariant == Spec => [](TypeInv /\ NamesCurrent)
<1>1. Init => TypeInv /\ NamesCurrent
  BY InitKeeps
<1>2. TypeInv /\ NamesCurrent /\ [Next]_vars => TypeInv' /\ NamesCurrent'
  BY StepTyped
<1> QED BY <1>1, <1>2, PTL DEF Spec

(* Contexts refer to contexts that exist, and the C++ stack is one of      *)
(* interpreters and natives in such contexts, whatever the programs are.   *)
THEOREM TypeCorrect == Spec => []TypeOK
<1>1. TypeInv => TypeOK
  <2> SUFFICES ASSUME TypeInv PROVE TypeOK
    OBVIOUS
  <2>1. ContextsOK(ctx) /\ stack \in Seq(Call) /\ ShapeOK(ctx, Calls(stack), Len(stack))
        /\ failed \in BOOLEAN
    BY DEF TypeInv, Sound
  <2>2. Contexts = 1 .. Len(ctx) /\ Len(ctx) \in Nat /\ DOMAIN stack = 1 .. Len(stack)
    BY <2>1 DEF Contexts, ContextsOK
  <2>3. \A m \in 0 .. Len(ctx) : m \in Contexts \union {Null}
    BY <2>2 DEF Null
  <2>4. ASSUME NEW c \in Contexts
        PROVE  /\ ctx[c].kind \in {"method", "block", "native"}
               /\ ctx[c].messenger \in Contexts \union {Null}
               /\ ctx[c].origin \in Contexts \union {Null}
               /\ ctx[c].here \in Contexts \union {Null}
               /\ ctx[c].ip \in Nat \ {0}
               /\ ctx[c].done \in BOOLEAN
               /\ ctx[c].called \subseteq {"break", "continue"}
               /\ ctx[c].traps \subseteq {"break", "continue"}
    <3>1. ctx[c] \in Context /\ ContextOK(ctx, c) /\ c \in 1 .. Len(ctx)
      BY <2>1, <2>2, ContextFacts
    <3>2. ctx[c].messenger \in 0 .. Len(ctx) /\ ctx[c].here \in 0 .. Len(ctx)
      BY <3>1 DEF ContextOK
    <3>3. ctx[c].origin \in Contexts \union {Null}
      BY <2>2, <3>1 DEF ContextOK
    <3> QED BY <2>3, <3>1, <3>2, <3>3 DEF Context
  <2>5. ASSUME NEW i \in DOMAIN stack
        PROVE  /\ stack[i].fn \in {"interpret", "native"}
               /\ stack[i].ctx \in Contexts
               /\ stack[i].left \in 0 .. Items
    <3>1. stack[i] \in Call
      BY <2>1
    <3>2. Len(stack) + 1 - i \in 1 .. Len(stack) /\ Calls(stack)[Len(stack) + 1 - i] = stack[i]
      <4>1. i \in 1 .. Len(stack) /\ Len(stack) \in Nat
        BY <2>1
      <4>2. /\ Len(stack) + 1 - i \in 1 .. Len(stack)
            /\ Len(stack) + 1 - (Len(stack) + 1 - i) = i
        BY <4>1
      <4> QED BY <4>2 DEF Calls
    <3>3. CallOK(ctx, stack[i])
      BY <2>1, <3>2 DEF ShapeOK
    <3> QED BY <2>2, <3>1, <3>3 DEF CallOK, Call
  <2> QED BY <2>1, <2>4, <2>5 DEF TypeOK
<1> QED BY <1>1, TypeInvariant, PTL

(* "context" is the context that is running.                               *)
THEOREM ContextCurrent == Spec => []ContextIsCurrent
<1>1. TypeInv /\ NamesCurrent => ContextIsCurrent
  <2> SUFFICES ASSUME TypeInv, NamesCurrent, Running, top.phase = "fetch"
               PROVE  ctx[Root(cur)].here = cur
    BY DEF ContextIsCurrent
  <2>1. /\ Len(stack) > 0 /\ Calls(stack)[Len(stack)] = top /\ top.fn = "interpret"
        /\ Root(cur) = RootsOf(ctx)[cur]
    BY TopFacts, FetchFacts DEF Running
  <2> QED BY <2>1 DEF NamesCurrent, Current, cur
<1> QED BY <1>1, TypeInvariant, PTL

(* If no native is given a block that is under way, the inner loop of      *)
(* execute always finds its way back to the native that called it.         *)
THEOREM FindsBack == Spec /\ []Nests => []WayBack
<1>1. Init => Linked
  BY InitKeeps
<1>2. TypeInv /\ Linked /\ Nests /\ [Next]_vars => Linked'
  <2> SUFFICES ASSUME TypeInv, Linked, Nests, [Next]_vars
               PROVE  Linked'
    OBVIOUS
  <2>1. CASE Next
    BY <2>1, StepKeeps DEF Keeps
  <2>2. CASE UNCHANGED vars
    BY <2>2 DEF vars, Linked, Calls
  <2> QED BY <2>1, <2>2
<1>3. TypeInv /\ Linked => WayBack
  BY LinkedFindsBack DEF TypeInv, Sound, Linked
<1> QED BY <1>1, <1>2, <1>3, TypeInvariant, PTL DEF Spec

(* What has been thrown stays in the trace.                                *)
LEMMA ThrewStays ==
  ASSUME TypeInv, [Next]_vars, Threw
  PROVE  Threw'
<1>1. prog' = prog /\ (trace' = trace \/ (Note /\ Running /\ top.phase = "fetch"))
  BY Noting DEF vars
<1>2. trace \in Seq(Codes \X Nat)
  BY DEF TypeInv
<1>3. DOMAIN trace \subseteq DOMAIN trace' /\ \A i \in DOMAIN trace : trace'[i] = trace[i]
  <2>1. CASE trace' = trace
    BY <2>1
  <2>2. CASE trace' = Append(trace, <<ctx[cur].code, top.ip>>) /\ trace' \in Seq(Codes \X Nat)
    BY <1>2, <2>2
  <2> QED BY <1>1, <2>1, <2>2, FetchFacts DEF Note
<1> QED BY <1>1, <1>3 DEF Threw

(* And then a block that is done keeps no native for its messenger, unless *)
(* an exception has been thrown or a list was empty.                       *)
THEOREM ReleasesCallers ==
  ASSUME Items # 0
  PROVE  Spec /\ []Nests => []CallersReleased
<1>1. Init => Linked /\ HaveCallers
  BY InitKeeps
<1>2. TypeInv /\ Linked /\ Nests /\ [Next]_vars => Linked'
  <2> SUFFICES ASSUME TypeInv, Linked, Nests, [Next]_vars
               PROVE  Linked'
    OBVIOUS
  <2>1. CASE Next
    BY <2>1, StepKeeps DEF Keeps
  <2>2. CASE UNCHANGED vars
    BY <2>2 DEF vars, Linked, Calls
  <2> QED BY <2>1, <2>2
<1>3. TypeInv /\ Linked /\ Nests /\ (Threw \/ HaveCallers) /\ [Next]_vars
      => (Threw \/ HaveCallers)'
  <2> SUFFICES ASSUME TypeInv, Linked, Nests, Threw \/ HaveCallers, [Next]_vars
               PROVE  Threw' \/ HaveCallers'
    OBVIOUS
  <2>1. CASE Threw
    BY <2>1, ThrewStays
  <2>2. CASE HaveCallers /\ Next
    BY <2>2, StepKeeps DEF Keeps
  <2>3. CASE HaveCallers /\ UNCHANGED vars
    BY <2>3 DEF vars, HaveCallers, Calls
  <2> QED BY <2>1, <2>2, <2>3
<1>4. TypeInv /\ (Threw \/ HaveCallers) => CallersReleased
  <2> SUFFICES ASSUME TypeInv, HaveCallers, stack = <<>>, NEW c \in Contexts,
                      ctx[c].kind = "block", ctx[c].messenger \in Natives
               PROVE  FALSE
    BY DEF CallersReleased
  <2>1. Len(stack) = 0 /\ c \in 1 .. Len(ctx) /\ DOMAIN ctx = 1 .. Len(ctx)
    BY DEF TypeInv, Sound, ContextsOK, Contexts
  <2>2. ctx[c].messenger # Null /\ ctx[ctx[c].messenger].kind = "native"
    BY <2>1 DEF Natives, Null
  <2>3. \E d \in 1 .. Len(stack) - 1 : TRUE
    BY <2>1, <2>2 DEF HaveCallers, Callers, CallerOK
  <2> QED BY <2>1, <2>3
<1> QED BY <1>1, <1>2, <1>3, <1>4, TypeInvariant, PTL DEF Spec
=============================================================================
