--------------------------- MODULE MCGem5Capacity ---------------------------
(* An instance of Gem5Capacity for TLC: a test whose cycles jump, one whose  *)
(* cycles rise with every point, and one whose cycles rise, fall and rise    *)
(* without ever being doubled; a name without a range, and what the point    *)
(* script and a capacity script with other arguments build meanwhile.        *)
EXTENDS Gem5Capacity

MCRanges == [t \in {"ldq", "stq", "rob"} |->
    CASE t = "ldq" -> <<2, 9, 2>> [] t = "stq" -> <<3, 7, 1>> [] t = "rob" -> <<1, 5, 1>>]

MCCurve == [t \in {"ldq", "stq", "rob"} |->
    CASE t = "ldq" -> [x \in 1..12 |-> IF x < 7 THEN 2 ELSE 4 + x \div 9]
      [] t = "stq" -> [x \in 1..12 |-> x]
      [] t = "rob" -> [x \in 1..5 |-> <<3, 4, 6, 3, 6>>[x]]]

MCArgs == { <<"stq", "typo", "ldq">>, <<"rob", "ldq">> }

MCStrangers == { [test |-> "ldq", counts |-> <<7>>], [test |-> "btb", counts |-> <<4>>],
                 [test |-> "stq", counts |-> <<3, 5, 6>>] }
=============================================================================
