---------------------------- MODULE MCGem5Points ----------------------------
(* Instances of Gem5Points for TLC: two tests whose names begin alike, one   *)
(* without a count array, a name that continues a test's, a group of tests,  *)
(* a name in capitals and names that are none; two arguments of the same     *)
(* test and one more for the summary; and for the stale rows tests that      *)
(* AsmGen can build.                                                         *)
EXTENDS Gem5Points

Ldq == <<"ldq">>
AddSched == <<"add", "sched">>
AddLat == <<"add", "lat">>
Btb == <<"btb">>

MCTests == {Ldq, AddSched, AddLat, Btb}
MCRanged == MCTests \ {Btb}
MCFold(word) == IF word = "LDQ" THEN "ldq" ELSE word

Point(test, range) == [test |-> test, range |-> range]

MCRepeated == { <<Point(Ldq, <<1, 2>>), Point(<<"ldq", "x">>, <<2, 2>>)>> }

MCArgs == MCRepeated \cup
    { <<Point(<<"rob">>, <<>>), Point(Ldq, <<0, 2, 1>>), Point(Btb, <<1, 1>>)>>,
      <<Point(<<"LDQ">>, <<2, 2>>), Point(<<"add">>, <<2, 2>>), Point(AddSched, <<2, 4, 2>>)>>,
      <<Point(Ldq, <<3, 3>>), Point(Ldq, <<1, 3>>)>>,
      <<Point(Ldq, <<1, 4>>)>> }

MCStaleArgs == { <<Point(Ldq, <<1, 3>>), Point(AddSched, <<2, 4, 2>>)>> }
=============================================================================
