---------------------------- MODULE VTableSearch ----------------------------
(***************************************************************************)
(* Class::VTable::find and class_find: the binary search for the entry of  *)
(* a message in one of the two virtual tables of a class, by the hash of   *)
(* the message, one step per turn of the loop.  Positions count from 0, as *)
(* in the code.                                                            *)
(*                                                                         *)
(* The two searches differ in where they start: find below the number of   *)
(* entries, class_find at it, so that class_find may read what lies behind *)
(* the table.  Whatever is there is taken for the hash of an entry.        *)
(***************************************************************************)
EXTENDS Integers, Sequences

CONSTANTS
  Half,       (* Half the range of a word: hashes are below, 2^31.         *)
  Tables,     (* The tables of hashes considered.                          *)
  MaxEntries  (* What the counters of the entries can hold: 255.           *)

Hashes == 0 .. Half - 1
Words  == 0 .. 2 * Half - 1

(* Tables are sorted, each hash is there once.                             *)
Sorted(t) == \A i, j \in 1 .. Len(t) : i < j => t[i] < t[j]

ASSUME HalfAssumption == Half \in Nat \ {0}
ASSUME MaxEntriesAssumption == MaxEntries \in Nat
ASSUME TablesAssumption ==
  \A t \in Tables : t \in Seq(Hashes) /\ Sorted(t) /\ Len(t) <= MaxEntries

VARIABLES
  table,      (* The table: of methods, or of class methods.               *)
  hash_id,    (* The hash looked for.                                      *)
  search,     (* Which of the two functions is running.                    *)
  lo, hi,     (* The positions between which the entry may be.             *)
  result,     (* The position returned, or Null.                           *)
  done        (* Whether the function has returned.                        *)

vars == <<table, hash_id, search, lo, hi, result, done>>

Null == -1
no_entries == Len(table)
Positions == 0 .. no_entries - 1

(* What is read at a position: an entry's hash, or what is in memory.      *)
Read(p) == IF p \in Positions THEN {table[p + 1]} ELSE Words

(* Mutant of Difference: without a sign.                                   *)
Unsigned(a, b) == IF a < b THEN a - b + 2 * Half ELSE a - b

(* The difference of two unsigned words, taken for a signed one.           *)
Difference(a, b) ==
  LET d == a - b
  IN IF d >= Half THEN d - 2 * Half ELSE IF d < -Half THEN d + 2 * Half ELSE d

Looping == no_entries > 0 /\ lo <= hi
pivot == (hi + lo) \div 2

(* Mutant of Highest: find starts as class_find does.                      *)
HighestBehind(s, t) == Len(t)
(* Mutant of Highest: the last entry is left out.                          *)
HighestShort(s, t) == Len(t) - 2

Highest(s, t) == IF s = "find" THEN Len(t) - 1 ELSE Len(t)

Hit ==
  /\ ~done /\ Looping
  /\ \E word \in Read(pivot) : Difference(hash_id, word) = 0
  /\ result' = pivot
  /\ done' = TRUE
  /\ UNCHANGED <<table, hash_id, search, lo, hi>>

(* Mutant of Below: the position just compared stays in.                   *)
BelowAgain ==
  /\ ~done /\ Looping
  /\ \E word \in Read(pivot) : Difference(hash_id, word) < 0
  /\ hi' = pivot
  /\ UNCHANGED <<table, hash_id, search, lo, result, done>>
Below ==
  /\ ~done /\ Looping
  /\ \E word \in Read(pivot) : Difference(hash_id, word) < 0
  /\ hi' = pivot - 1
  /\ UNCHANGED <<table, hash_id, search, lo, result, done>>

Above ==
  /\ ~done /\ Looping
  /\ \E word \in Read(pivot) : Difference(hash_id, word) > 0
  /\ lo' = pivot + 1
  /\ UNCHANGED <<table, hash_id, search, hi, result, done>>

Miss ==
  /\ ~done /\ ~Looping
  /\ result' = Null
  /\ done' = TRUE
  /\ UNCHANGED <<table, hash_id, search, lo, hi>>

Init ==
  /\ table \in Tables
  /\ hash_id \in Hashes
  /\ search \in {"find", "class_find"}
  /\ lo = 0
  /\ hi = Highest(search, table)
  /\ result = Null
  /\ done = FALSE

Next == Hit \/ Below \/ Above \/ Miss

Spec == Init /\ [][Next]_vars

(* The loop runs on in the thread that sends the message.                  *)
FairSpec == Spec /\ WF_vars(Next)

(***************************************************************************)
(* Properties                                                              *)
(***************************************************************************)

(* The variables have the types the code declares; the positions leave the *)
(* table by one at most, below and above, and by two after class_find has  *)
(* read behind it.                                                         *)
TypeOK ==
  /\ table \in Tables
  /\ hash_id \in Hashes
  /\ search \in {"find", "class_find"}
  /\ lo \in 0 .. Highest(search, table) + 1
  /\ hi \in -1 .. Highest(search, table)
  /\ result \in Null .. Highest(search, table)
  /\ done \in BOOLEAN

(* The loop's invariant: what is left out on either side differs from the  *)
(* hash on that side.                                                      *)
Narrowing ==
  /\ \A p \in Positions : p < lo => table[p + 1] < hash_id
  /\ \A p \in Positions : p > hi => hash_id < table[p + 1]

(* A result in the table is the entry's.                                   *)
ResultMatches ==
  done /\ result \in Positions => table[result + 1] = hash_id

(* What has been left out when a search returns nothing, or what lies      *)
(* behind the table.                                                       *)
NothingLeft ==
  /\ ~done => result = Null
  /\ done /\ result = Null => ~Looping
  /\ done /\ result \notin Positions /\ result # Null => lo >= no_entries

IInv == TypeOK /\ Narrowing /\ ResultMatches /\ NothingLeft

(* An entry that is in the table is found, by either search.               *)
FindsEntries ==
  done => \A p \in Positions : table[p + 1] = hash_id => result = p

(* find returns an entry of the table, with this hash, or null.            *)
FindsOnlyEntries ==
  done /\ search = "find" /\ result # Null =>
    result \in Positions /\ table[result + 1] = hash_id

(* find reads entries of the table only; class_find reads at most the word *)
(* behind them.                                                            *)
ReadsTable ==
  ~done /\ Looping =>
    /\ pivot \in 0 .. no_entries
    /\ search = "find" => pivot \in Positions

(* Both loops end, whatever class_find reads behind the table.             *)
Ends == <>done
=============================================================================
