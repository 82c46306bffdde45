----------------------------- MODULE MCDispatch -----------------------------
(***************************************************************************)
(* A chain of three classes.                                               *)
(***************************************************************************)
EXTENDS Dispatch

CONSTANTS Object, Shape, Square

MCClasses == {Object, Shape, Square}
MCSuper == [c \in {Shape, Square} |-> IF c = Shape THEN Object ELSE Shape]
=============================================================================
