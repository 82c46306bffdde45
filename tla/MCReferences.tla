---------------------------- MODULE MCReferences ----------------------------
(***************************************************************************)
(* Small instance of References: a few variables and objects with one      *)
(* reference member each, so that lists, cycles and self references occur. *)
(***************************************************************************)
EXTENDS References, TLC

CONSTANTS v1, v2, v3, c1, c2, f1, f2

MCVariables == {v1, v2, v3}
MCSlots == MCVariables \union {f1, f2}
MCCells == {c1, c2}
MCOwner == [s \in MCSlots |-> CASE s = f1 -> c1 [] s = f2 -> c2
                                [] OTHER -> None]
MCSymmetry == Permutations(MCVariables)
=============================================================================
