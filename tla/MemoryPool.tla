----------------------------- MODULE MemoryPool -----------------------------
(***************************************************************************)
(* memory::gc: the allocator below references and their control blocks.    *)
(* Deleted blocks go to a free list that later allocations are served      *)
(* from; blocks the list has no room for, and those a collection finds old *)
(* enough, go back to the system.                                          *)
(*                                                                         *)
(* free_memory is a multimap from sizes to blocks, here a set of pairs.    *)
(* Which of several blocks of one size lower_bound finds is left open.     *)
(***************************************************************************)
EXTENDS Integers, FiniteSetsExt

CONSTANTS
  Blocks,           (* The addresses the system's operator new can return. *)
  Sizes,            (* The sizes callers ask for.                          *)
  Slack,            (* How much larger a recycled block must not be.       *)
  Limit,            (* gc::limit: the free list stays below this size.     *)
  CollectionAge,    (* gc::collection_age, in seconds.                     *)
  Times             (* The values time() returns; the clock can be set.    *)

ASSUME SizesAssumption == Sizes \subseteq Nat
ASSUME SlackAssumption == Slack \in Nat \ {0}
ASSUME LimitAssumption == Limit \in Nat \ {0}
ASSUME CollectionAgeAssumption == CollectionAge \in Nat \ {0}
ASSUME TimesAssumption == Times \subseteq Nat

VARIABLES
  heap,             (* The blocks obtained from the system.                *)
  used,             (* The blocks handed out to callers.                   *)
  size,             (* size[b]: the size in the header of block b.         *)
  collected_time,   (* collected_time[b]: the time stamp in the header.    *)
  asked,            (* History: the size the present caller asked for.     *)
  free_memory,      (* The free list: pairs of a size and a block.         *)
  free_size,        (* What gc believes the size of the free list to be.   *)
  now,              (* The system's clock.                                 *)
  swept             (* History: the last operation was a collection.       *)

headers == <<size, collected_time>>
vars == <<heap, used, size, collected_time, asked, free_memory, free_size, now,
          swept>>

pooled == {entry[2] : entry \in free_memory}

(* What free_memory.lower_bound(n) may return: a least entry not below n.  *)
LowerBound(n) ==
  {entry \in free_memory :
     /\ entry[1] >= n
     /\ \A other \in free_memory : other[1] >= n => entry[1] <= other[1]}

(* Mutant of Fits: the slack is allowed itself.                            *)
FitsInclusive(n) == {entry \in LowerBound(n) : entry[1] - n <= Slack}

(* A recycled block serves the request if it is not much too large.        *)
Fits(n) == {entry \in LowerBound(n) : entry[1] - n < Slack}

(* Mutant of AllocPooled: the block stays in the free list.                *)
AllocPooledKeepsEntry(n, entry) ==
  /\ entry \in Fits(n)
  /\ free_size' = free_size - size[entry[2]]
  /\ used' = used \union {entry[2]}
  /\ asked' = [asked EXCEPT ![entry[2]] = n]
  /\ swept' = FALSE
  /\ UNCHANGED <<heap, headers, free_memory, now>>

(* alloc, first branch: reuse a block from the free list.                  *)
AllocPooled(n, entry) ==
  /\ entry \in Fits(n)
  /\ free_memory' = free_memory \ {entry}
  /\ free_size' = free_size - size[entry[2]]
  /\ used' = used \union {entry[2]}
  /\ asked' = [asked EXCEPT ![entry[2]] = n]
  /\ swept' = FALSE
  /\ UNCHANGED <<heap, headers, now>>

(* alloc, second branch: get a new block of exactly the size asked for.    *)
AllocNew(n, b) ==
  /\ Fits(n) = {}
  /\ b \in Blocks \ heap
  /\ heap' = heap \union {b}
  /\ used' = used \union {b}
  /\ size' = [size EXCEPT ![b] = n]
  /\ asked' = [asked EXCEPT ![b] = n]
  /\ swept' = FALSE
  /\ UNCHANGED <<collected_time, free_memory, free_size, now>>

(* Mutant of Recycle: free_size does not grow with the list.               *)
RecycleUncounted(b) ==
  /\ b \in used
  /\ used' = used \ {b}
  /\ IF size[b] + free_size < Limit
       THEN /\ free_memory' = free_memory \union {<<size[b], b>>}
            /\ collected_time' = [collected_time EXCEPT ![b] = now]
            /\ UNCHANGED <<heap, free_size>>
       ELSE /\ heap' = heap \ {b}
            /\ UNCHANGED <<free_memory, free_size, collected_time>>
  /\ asked' = [asked EXCEPT ![b] = 0]
  /\ swept' = FALSE
  /\ UNCHANGED <<size, now>>

(* recycle: keep the block if the free list stays below its limit, else    *)
(* give it back to the system.                                             *)
Recycle(b) ==
  /\ b \in used
  /\ used' = used \ {b}
  /\ IF size[b] + free_size < Limit
       THEN /\ free_memory' = free_memory \union {<<size[b], b>>}
            /\ free_size' = free_size + size[b]
            /\ collected_time' = [collected_time EXCEPT ![b] = now]
            /\ UNCHANGED heap
       ELSE /\ heap' = heap \ {b}
            /\ UNCHANGED <<free_memory, free_size, collected_time>>
  /\ asked' = [asked EXCEPT ![b] = 0]
  /\ swept' = FALSE
  /\ UNCHANGED <<size, now>>

(* collect, at the end of every Context: the code subtracts the clock from *)
(* the time stamp.  free_size is not reduced.                              *)
OldEntries ==
  {entry \in free_memory : collected_time[entry[2]] - now >= CollectionAge}

Collect ==
  /\ free_memory' = free_memory \ OldEntries
  /\ heap' = heap \ {entry[2] : entry \in OldEntries}
  /\ swept' = TRUE
  /\ UNCHANGED <<used, headers, asked, free_size, now>>

(* collect_all, in meat::cleanup: the whole list goes; free_size stays.    *)
CollectAll ==
  /\ free_memory' = {}
  /\ heap' = heap \ pooled
  /\ swept' = TRUE
  /\ UNCHANGED <<used, headers, asked, free_size, now>>

(* Time passes, or somebody sets the clock.                                *)
SetClock(t) ==
  /\ now' = t
  /\ swept' = FALSE
  /\ UNCHANGED <<heap, used, headers, asked, free_memory, free_size>>

Init ==
  /\ heap = {}
  /\ used = {}
  /\ size = [b \in Blocks |-> 0]
  /\ collected_time = [b \in Blocks |-> 0]
  /\ asked = [b \in Blocks |-> 0]
  /\ free_memory = {}
  /\ free_size = 0
  /\ now \in Times
  /\ swept = FALSE

Next ==
  \/ \E n \in Sizes : \/ \E entry \in free_memory : AllocPooled(n, entry)
                      \/ \E b \in Blocks : AllocNew(n, b)
  \/ \E b \in Blocks : Recycle(b)
  \/ Collect
  \/ CollectAll
  \/ \E t \in Times : SetClock(t)

Spec == Init /\ [][Next]_vars

(***************************************************************************)
(* Properties                                                              *)
(***************************************************************************)

(* The variables hold values of the types the code declares; free_size is  *)
(* unsigned and never wraps below zero.                                    *)
TypeOK ==
  /\ heap \subseteq Blocks
  /\ used \subseteq Blocks
  /\ size \in [Blocks -> Nat]
  /\ collected_time \in [Blocks -> Times \union {0}]
  /\ asked \in [Blocks -> Nat]
  /\ free_memory \subseteq Nat \X Blocks
  /\ free_size \in Nat
  /\ now \in Times
  /\ swept \in BOOLEAN

(* Every block obtained from the system is in the hands of one caller or   *)
(* in the free list, once and under its own size: alloc, recycle and the   *)
(* collections lose no block and hand none out twice.                      *)
BlocksAccounted ==
  /\ used \union pooled = heap
  /\ used \intersect pooled = {}
  /\ \A entry \in free_memory : entry[1] = size[entry[2]]

(* A caller's block is large enough, and smaller than the slack allows.    *)
FitsRequest ==
  \A b \in used : asked[b] <= size[b] /\ size[b] < asked[b] + Slack

(* The real size of the free list, which free_size stands for.             *)
Total(entries) == MapThenSumSet(LAMBDA entry : entry[1], entries)
ListSize == Total(free_memory)

(* gc never underestimates its free list, whatever the collections leave   *)
(* out of account, so that the list stays below its limit.                 *)
FreeSizeCovers == ListSize <= free_size /\ free_size < Limit

(* collect gives the blocks that are older than the collection_age back to *)
(* the system (memory.cpp:83): none is left right after it.  The code      *)
(* leaves them (README).                                                   *)
CollectReturnsOld ==
  swept => \A entry \in free_memory :
             now - collected_time[entry[2]] <= CollectionAge
=============================================================================
