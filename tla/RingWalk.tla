------------------------------ MODULE RingWalk ------------------------------
(***************************************************************************)
(* What a pointer-chasing benchmark promises about its footprint: every    *)
(* load touches an element, and a lap of the walk touches every element of *)
(* the array exactly once before the next lap begins.                      *)
(***************************************************************************)
EXTENDS Integers

CONSTANT Elem       \* the elements (cache lines or pages) of the array

VARIABLES loads,    \* how many loads the walk has made
          todo      \* the elements this lap has still to touch

vars == <<loads, todo>>

Init == loads = 0 /\ todo = Elem

\* A load touches an element this lap has not touched yet; after the last one
\* a new lap begins, anywhere.
Load == LET open == IF todo = {} THEN Elem ELSE todo
        IN  \E e \in open : /\ todo' = open \ {e}
                            /\ loads' = loads + 1

Spec == Init /\ [][Load]_vars
=============================================================================
