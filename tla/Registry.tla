------------------------------- MODULE Registry -------------------------------
(***************************************************************************)
(* What each table of the source mapping promises: things are registered   *)
(* one at a time, each gets the number of things registered before it, and *)
(* keeps it.  A number in one output file may therefore be looked up as a  *)
(* position in another.                                                    *)
(***************************************************************************)
EXTENDS Naturals, FiniteSets, Functions

VARIABLE ids  \* the things registered, with their numbers

Init == ids = <<>>

Next ==
  \E x \in DOMAIN ids' \ DOMAIN ids :
    /\ DOMAIN ids' = DOMAIN ids \cup {x}
    /\ ids'[x] = Cardinality(DOMAIN ids)
    /\ Restrict(ids', DOMAIN ids) = ids

Spec == Init /\ [][Next]_ids
===============================================================================
