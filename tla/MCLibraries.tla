---------------------------- MODULE MCLibraries -----------------------------
(***************************************************************************)
(* Small instances of Libraries: ui needs core and subclasses its class,   *)
(* bad needs core and a library that has no file, dup has a class of the   *)
(* name of core's.  LoopNames are two that need each other.                *)
(***************************************************************************)
EXTENDS Libraries

CONSTANTS h1, h2

MCHolders == {h1, h2}

MCNames == {"core", "ui", "bad", "gone", "dup"}
MCFound == MCNames \ {"gone"}
MCRequires ==
  [n \in MCNames |-> CASE n = "ui"  -> <<"core">>
                       [] n = "bad" -> <<"core", "gone">>
                       [] OTHER     -> <<>>]
MCClasses ==
  [n \in MCNames |-> CASE n = "core" -> <<"Model">>
                       [] n = "ui"   -> <<"View", "Button">>
                       [] n = "dup"  -> <<"Extra", "Model">>
                       [] OTHER      -> <<>>]
MCSuper ==
  [c \in {"Model", "View", "Button", "Extra"} |->
     CASE c = "View" -> "Model" [] c = "Button" -> "View" [] OTHER -> "Object"]

LoopNames == {"left", "right"}
LoopRequires ==
  [n \in LoopNames |-> IF n = "left" THEN <<"right">> ELSE <<"left">>]
LoopClasses == [n \in LoopNames |-> IF n = "left" THEN <<"Left">> ELSE <<"Right">>]
LoopSuper == [c \in {"Left", "Right"} |-> "Object"]
=============================================================================
