----------------------------- MODULE MCArchive ------------------------------
(***************************************************************************)
(* Three objects: a has up to two properties, b up to one element, c up to *)
(* one property.                                                           *)
(***************************************************************************)
EXTENDS Archive

CONSTANTS a, b, c

MCObjects == {a, b, c}
Refs == [to : MCObjects, weak : BOOLEAN] \union {[to |-> Null, weak |-> FALSE]}
UpTo(n) == UNION {[1 .. k -> Refs] : k \in 0 .. n}
MCGraphs == {[o \in MCObjects |-> CASE o = a -> r [] o = b -> s [] OTHER -> t] :
             r \in UpTo(2), s \in UpTo(1), t \in UpTo(1)}
=============================================================================
