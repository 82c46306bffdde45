--------------------------- MODULE MCVTableSearch ---------------------------
(***************************************************************************)
(* All sorted tables of the hashes below Half.                             *)
(***************************************************************************)
EXTENDS VTableSearch

MCTables ==
  UNION {{t \in [1 .. n -> Hashes] : Sorted(t)} : n \in 0 .. MaxEntries}
=============================================================================
