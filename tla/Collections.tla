---------------------------- MODULE Collections ----------------------------
(***************************************************************************)
(* The natives of List, Set and Index (src/src/builtin.cpp), which are a   *)
(* std::deque, a std::set and a std::map of references ordered by obj_less *)
(* (src/src/meat.cpp).  A list is a sequence of items, a set one whose     *)
(* items ascend, an index one of entries whose keys ascend.                *)
(***************************************************************************)
EXTENDS Receiver

CONSTANTS Rank(_),              \* items of one rank are equal to < and are two objects
          CollectionMessages,   \* the messages each class is sent
          MaxItems              \* how many items a collection is made to hold

Messaged(c) ==
    \E message \in CollectionMessages[c] :
        /\ message.method \in {"append:", "push:", "pushFront:", "at:insert:"} =>
              Len(self) + Len(message.value) <= MaxItems
        /\ message.loop = "push:" => 2 * Len(self) <= MaxItems
        /\ Receives(c, message, [at |-> 1, end |-> Len(self), given |-> << >>])

At(c, method) == class = c /\ Working("entered") /\ Is(method)

item == call.value[1]
(* What the methods answer that only look.                                 *)
Looks(c) ==
    /\ UNCHANGED self
    /\ \/ At(c, "copy") /\ Returns(0, self)
       \/ At(c, "entries") /\ Returns(Len(self), << >>)
       \/ At(c, "isEmpty") /\ Returns(Boolean(self = << >>), << >>)

Changes(content) == self' = content /\ Returns(0, << >>)

-----------------------------------------------------------------------------
(* List.  What the code does not check is undefined where it is wrong.     *)

Within(index) == index \in DOMAIN self
Position(index) == index \in 1 .. Len(self) + 1

ListReceives == Messaged("List")

ListLooks ==
    \/ Looks("List")
    \/ At("List", "sort") /\ UNCHANGED self /\ Returns(0, << >>)
    \/ /\ At("List", "get:") /\ UNCHANGED self
       /\ IF Within(call.index) THEN Returns(0, <<self[call.index]>>)
          ELSE Fails("exception")
    \/ /\ At("List", "front") /\ UNCHANGED self
       /\ IF self = << >> THEN Fails("undefined") ELSE Returns(0, <<Head(self)>>)
    \/ /\ At("List", "last") /\ UNCHANGED self
       /\ IF self = << >> THEN Fails("undefined") ELSE Returns(0, <<Last(self)>>)

(* append: takes the items of a list as it takes one that is no list.      *)
ListGrows ==
    \/ At("List", "append:") /\ Changes(self \o call.value)
    \/ At("List", "push:") /\ Changes(Append(self, item))
    \/ At("List", "pushFront:") /\ Changes(<<item>> \o self)
    \/ /\ At("List", "at:insert:")
       /\ IF Position(call.index) THEN Changes(InsertAt(self, call.index, item))
          ELSE Fails("undefined") /\ UNCHANGED self

(* pop and popFront both take the last; removeFrom:to: leaves the one that *)
(* "to" says.                                                              *)
ListShrinks ==
    \/ At("List", "clear") /\ Changes(<< >>)
    \/ /\ At("List", "pop") \/ At("List", "popFront")
       /\ IF self = << >> THEN Fails("undefined") /\ UNCHANGED self
          ELSE Changes(Front(self))
    \/ /\ At("List", "removeAt:")
       /\ IF Within(call.index) THEN Changes(RemoveAt(self, call.index))
          ELSE Fails("undefined") /\ UNCHANGED self
    \/ /\ At("List", "removeFrom:to:")
       /\ IF Position(call.index) /\ Position(call.count) /\ call.index <= call.count
          THEN Changes(SubSeq(self, 1, call.index - 1)
                       \o SubSeq(self, call.count, Len(self)))
          ELSE Fails("undefined") /\ UNCHANGED self

ListAssigns ==
    \/ /\ At("List", "set:to:")
       /\ IF Within(call.index) THEN Changes([self EXCEPT ![call.index] = item])
          ELSE Fails("exception") /\ UNCHANGED self
    \/ /\ At("List", "swap:with:")
       /\ IF Within(call.index) /\ Within(call.count)
          THEN Changes([self EXCEPT ![call.index] = self[call.count],
                                    ![call.count] = self[call.index]])
          ELSE Fails("exception") /\ UNCHANGED self

(* remove: erases what the iterator is at and increments the iterator.     *)
(* std::deque moves the side that is shorter: the items before, and the    *)
(* iterator is left at what was in front of it; or those behind, and it is *)
(* left at the next, which is then passed over.  When there is no next it  *)
(* goes beyond the end.                                                    *)

(* Mutant of ListRemoves: the iterator is incremented before it is used.   *)
ListRemovesNext ==
    /\ At("List", "remove:")
    /\ \/ local.at > Len(self) /\ Changes(self)
       \/ /\ local.at <= Len(self) /\ self[local.at] # item
          /\ UNCHANGED self /\ Goes("entered", [local EXCEPT !.at = @ + 1])
       \/ /\ local.at <= Len(self) /\ self[local.at] = item
          /\ self' = RemoveAt(self, Min({local.at + 1, Len(self)}))
          /\ Goes("entered", local)

ListRemoves ==
    /\ At("List", "remove:")
    /\ \/ local.at = Len(self) + 1 /\ Changes(self)
       \/ /\ local.at <= Len(self) /\ self[local.at] # item
          /\ UNCHANGED self /\ Goes("entered", [local EXCEPT !.at = @ + 1])
       \/ /\ local.at <= Len(self) /\ self[local.at] = item
          /\ self' = RemoveAt(self, local.at)
          /\ LET skips == IF local.at - 1 < Len(self) \div 2 THEN 0 ELSE 1
             IN  Goes("entered", [local EXCEPT !.at = @ + skips])
       \/ local.at > Len(self) + 1 /\ Fails("undefined") /\ UNCHANGED self

(* forEach:do: goes to the end that the list had at first.  A block that   *)
(* pushes makes the iterators invalid, which may be noticed or not; one    *)
(* that pops takes away items that are still to come.                      *)
ListGives ==
    LET given == [local EXCEPT !.at = @ + 1, !.given = Append(@, self[local.at])]
        more  == At("List", "forEach:do:") /\ local.at <= local.end
        there == local.at <= Len(self)
    IN  \/ /\ At("List", "forEach:do:") /\ local.at > local.end
           /\ Returns(0, local.given) /\ UNCHANGED self
        \/ more /\ ~ there /\ Fails("undefined") /\ UNCHANGED self
        \/ /\ more /\ there /\ call.loop = "break"
           /\ Returns(0, given.given) /\ UNCHANGED self
        \/ /\ more /\ there /\ call.loop = "nothing"
           /\ Goes("entered", given) /\ UNCHANGED self
        \/ /\ more /\ there /\ call.loop = "push:"
           /\ self' = Append(self, item)
           /\ Goes("entered", given) \/ Fails("undefined")
        \/ /\ more /\ there /\ call.loop = "pop"
           /\ self' = Front(self)
           /\ Goes("entered", given)

ListStep == ListLooks \/ ListGrows \/ ListShrinks \/ ListAssigns \/ ListRemoves \/ ListGives

-----------------------------------------------------------------------------
(* Set: an item is found by its rank and removed by its identity.          *)

SameRank(a, b) == Rank(a) = Rank(b)
(* Where an item of this rank is among those that ascend, or would be put. *)
Below(ranks, rank) == Cardinality({i \in DOMAIN ranks : ranks[i] < rank})
Ranks(content) == [i \in DOMAIN content |-> Rank(content[i])]
Has(content, value) == \E i \in DOMAIN content : SameRank(content[i], value)

SetReceives == Messaged("Set")

SetActs ==
    \/ Looks("Set")
    \/ At("Set", "clear") /\ Changes(<< >>)
    \/ /\ At("Set", "hasEntry:") /\ UNCHANGED self
       /\ Returns(Boolean(Has(self, item)), << >>)
    \/ /\ At("Set", "insert:")
       /\ Changes(IF Has(self, item) THEN self
                  ELSE InsertAt(self, Below(Ranks(self), Rank(item)) + 1, item))
    \/ At("Set", "swap:") /\ Changes(call.value)

(* The iterator is incremented from the node that has been erased: it may  *)
(* find the next one there or not.                                         *)
SetRemoves ==
    /\ At("Set", "remove:")
    /\ \/ local.at > Len(self) /\ Changes(self)
       \/ /\ local.at <= Len(self) /\ self[local.at] # item
          /\ UNCHANGED self /\ Goes("entered", [local EXCEPT !.at = @ + 1])
       \/ /\ local.at <= Len(self) /\ self[local.at] = item
          /\ self' = RemoveAt(self, local.at)
          /\ Goes("entered", local) \/ Fails("undefined")

(* forEach:do: leaves the loop when the block is done, which it is after   *)
(* the first item.                                                         *)
SetGives ==
    /\ At("Set", "forEach:do:") /\ UNCHANGED self
    /\ Returns(0, IF self = << >> THEN << >> ELSE <<Head(self)>>)

SetStep == SetActs \/ SetRemoves \/ SetGives

-----------------------------------------------------------------------------
(* Index: the entry that has a key of the same rank keeps its own key.     *)

Entry(key, value) == [key |-> key, value |-> value]
Keys == [i \in DOMAIN self |-> self[i].key]
EntriesOf(key) == {i \in DOMAIN self : SameRank(self[i].key, key)}

IndexReceives == Messaged("Index")

IndexStep ==
    LET key == item
        own == EntriesOf(key)
    IN  \/ Looks("Index")
        \/ /\ At("Index", "has:") /\ UNCHANGED self
           /\ Returns(Boolean(own # {}), << >>)
        \/ /\ At("Index", "get:") /\ UNCHANGED self
           /\ IF own = {} THEN Fails("exception")
              ELSE Returns(0, <<self[Min(own)].value>>)
        \/ /\ At("Index", "remove:")
           /\ Changes(IF own = {} THEN self ELSE RemoveAt(self, Min(own)))
        \/ /\ At("Index", "set:to:")
           /\ Changes(IF own = {}
                      THEN InsertAt(self, Below(Ranks(Keys), Rank(key)) + 1,
                                    Entry(key, call.with[1]))
                      ELSE [self EXCEPT ![Min(own)].value = call.with[1]])
=============================================================================
