----------------------------- MODULE Ownership ------------------------------
(***************************************************************************)
(* What reference counting promises, without counts, control blocks or     *)
(* destructors: every object has a set of owners (the strong references to *)
(* it) and lives exactly until the last owner lets go.  An object can also *)
(* be pinned at birth; then it lives for ever.                             *)
(***************************************************************************)
CONSTANTS Slots, Cells

VARIABLES
  owners,   (* owners[c]: the slots that own the object of c.              *)
  life,     (* life[c]: whether the object is unborn, alive or dead.       *)
  pinned    (* The objects that are never destroyed.                       *)

ownershipVars == <<owners, life, pinned>>

Init ==
  /\ owners = [c \in Cells |-> {}]
  /\ life = [c \in Cells |-> "unborn"]
  /\ pinned = {}

(* A new object with its first owner.                                      *)
Birth(c, s) ==
  /\ life[c] = "unborn"
  /\ life' = [life EXCEPT ![c] = "alive"]
  /\ owners' = [owners EXCEPT ![c] = {s}]
  /\ UNCHANGED pinned

(* A new object that nobody owns and nothing will destroy.                 *)
PinnedBirth(c) ==
  /\ life[c] = "unborn"
  /\ life' = [life EXCEPT ![c] = "alive"]
  /\ pinned' = pinned \union {c}
  /\ UNCHANGED owners

(* One more owner; for a dead object it makes no difference.               *)
Acquire(c, s) ==
  /\ life[c] # "unborn"
  /\ owners' = [owners EXCEPT ![c] = @ \union {s}]
  /\ UNCHANGED <<life, pinned>>

(* An owner lets go, and the last one takes the object with it.            *)
Release(c, s) ==
  /\ s \in owners[c]
  /\ owners' = [owners EXCEPT ![c] = @ \ {s}]
  /\ life' = IF owners[c] = {s} /\ c \notin pinned
               THEN [life EXCEPT ![c] = "dead"] ELSE life
  /\ UNCHANGED pinned

Next ==
  \E c \in Cells :
    \/ PinnedBirth(c)
    \/ \E s \in Slots : Birth(c, s) \/ Acquire(c, s) \/ Release(c, s)

Spec == Init /\ [][Next]_ownershipVars
=============================================================================
