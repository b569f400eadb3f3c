--------------------------- MODULE MCPointerChase ---------------------------
(* Instances of PointerChase for TLC: two elements to a cache line and four *)
(* lines to a page, instead of 16 and 64.                                   *)
EXTENDS PointerChase

\* Two laps and a half.
MCIterations == 2 * Count + Count \div 2
=============================================================================
