------------------------------- MODULE Sattolo ------------------------------
(***************************************************************************)
(* The shuffle that FillPatternArr(), FillPatternArr64() and RunTlbTest()  *)
(* of MemoryLatency.c and GenerateBinaryDataFile() of AsmGen/Program.cs    *)
(* share: starting from the identity, every position from the last one     *)
(* down is swapped with a position below it.  pattern[e] is the element a  *)
(* pointer chase visits after e.                                           *)
(***************************************************************************)
EXTENDS Integers

CONSTANT Count      \* element_count
ASSUME CountAssumption == Count \in Nat \ {0}

VARIABLES pattern,  \* pattern_arr, in units of elements
          iter      \* the loop variable: positions not yet settled
shuffleVars == <<pattern, iter>>

Elem == 0..(Count - 1)

\* pattern_arr[i] = i, iter = element_count
FillIdentity == /\ pattern = [e \in Elem |-> e]
                /\ iter = Count

\* Mutant of RandPick: the position may be swapped with itself.
RandPickSelf(k) == 0..k

\* j = iter - 1 == 0 ? 0 : rand() % (iter - 1), with iter already decremented.
RandPick(k) == IF k - 1 = 0 THEN {0} ELSE 0..(k - 2)

Swap(f, a, b) == [f EXCEPT ![a] = f[b], ![b] = f[a]]

\* One round of the loop.
Shuffle == /\ iter > 1
           /\ iter' = iter - 1
           /\ \E j \in RandPick(iter - 1) :
                 pattern' = Swap(pattern, iter - 1, j)

SpecShuffle == FillIdentity /\ [][Shuffle]_shuffleVars
-----------------------------------------------------------------------------
ShuffleTypeOK == /\ pattern \in [Elem -> Elem]
                 /\ iter \in 1..Count

Closed(S) == \A e \in S : pattern[e] \in S

\* The finished pattern is one cycle through all elements: a set of elements
\* the chase cannot leave is the whole array.  With two cycles the benchmark
\* would measure a smaller footprint than it reports.
OneCycle ==
    iter = 1 => \A S \in (SUBSET Elem) \ {{}} : Closed(S) => S = Elem

\* No two elements point to the same one.
Injective == \A a, b \in Elem : pattern[a] = pattern[b] => a = b

\* The narrowed choice of j keeps the chase from ever stepping back to the
\* element just below (0 excepted): a backward stride of one never occurs.
NeverStepsBack ==
    iter = 1 => \A e \in Elem : e > 1 => pattern[e] # e - 1
=============================================================================
