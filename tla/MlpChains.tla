------------------------------ MODULE MlpChains -----------------------------
(***************************************************************************)
(* RunMlpTest() of MemoryLatency.c: one ring of cache lines, chased by     *)
(* several chains that start on neighbouring lines and advance in turn.    *)
(* The bandwidth it reports counts every load of every chain, so no two    *)
(* chains may share a line.  main() runs it for 1 to 32 chains, and its    *)
(* smallest array of 2 KB has exactly 32 lines.                            *)
(***************************************************************************)
EXTENDS Sattolo

CONSTANTS
    MaxParallelism, \* mlpTest, 32 in main()
    Rounds          \* the values scale_iterations() / parallelism may have

ASSUME ParallelismAssumption == MaxParallelism \in 1..Count
ASSUME RoundsAssumption == Rounds \subseteq Nat

VARIABLES
    parallelism,
    rounds,         \* scaled_iterations
    pc,
    offsets,        \* where each chain is
    turn,           \* j of the inner loop: the chain to advance
    round,          \* i of the outer loop
    from            \* history: the line each chain loaded last

chainVars == <<offsets, turn, round, from>>
testVars == <<parallelism, rounds>>
vars == <<shuffleVars, testVars, pc, chainVars>>

Chain == 0..(parallelism - 1)

Init == /\ FillIdentity
        /\ parallelism \in 1..MaxParallelism
        /\ rounds \in Rounds
        /\ pc = "shuffle"
        /\ offsets = [c \in Chain |-> 0]
        /\ turn = 0 /\ round = 0
        /\ from = [c \in Chain |-> 0]

ShuffleRound == /\ pc = "shuffle" /\ Shuffle
                /\ UNCHANGED <<testVars, pc, chainVars>>

\* Mutant of PlaceChains: all chains start at the first line.
PlaceTogether ==
    /\ pc = "shuffle" /\ iter <= 1
    /\ offsets' = [c \in Chain |-> 0]
    /\ pc' = "run"
    /\ UNCHANGED <<shuffleVars, testVars, turn, round, from>>

\* offsets[i] = i * (CACHELINE_SIZE / sizeof(int))
PlaceChains ==
    /\ pc = "shuffle" /\ iter <= 1
    /\ offsets' = [c \in Chain |-> c]
    /\ pc' = "run"
    /\ UNCHANGED <<shuffleVars, testVars, turn, round, from>>

\* offsets[j] = A[offsets[j]]
Advance ==
    /\ pc = "run" /\ round < rounds /\ turn < parallelism
    /\ from' = [from EXCEPT ![turn] = offsets[turn]]
    /\ offsets' = [offsets EXCEPT ![turn] = pattern[offsets[turn]]]
    /\ turn' = turn + 1
    /\ UNCHANGED <<shuffleVars, testVars, pc, round>>

NextRound ==
    /\ pc = "run" /\ round < rounds /\ turn >= parallelism
    /\ turn' = 0
    /\ round' = round + 1
    /\ UNCHANGED <<shuffleVars, testVars, pc, offsets, from>>

Report == /\ pc = "run" /\ round >= rounds
          /\ pc' = "done"
          /\ UNCHANGED <<shuffleVars, testVars, chainVars>>

Finished == pc = "done" /\ UNCHANGED vars

Next == \/ ShuffleRound \/ PlaceChains \/ Advance \/ NextRound \/ Report
        \/ Finished

Spec == Init /\ [][Next]_vars
-----------------------------------------------------------------------------
TypeOK ==
    /\ ShuffleTypeOK
    /\ parallelism \in 1..MaxParallelism
    /\ pc \in {"shuffle", "run", "done"}
    /\ offsets \in [Chain -> Elem]
    /\ turn \in 0..parallelism
    /\ rounds \in Rounds
    /\ round \in 0..rounds
    /\ from \in [Chain -> Elem]

\* The loads that one round makes: what a chain before `turn' loaded, and what
\* the others are about to load.
LoadOf(c) == IF c < turn THEN from[c] ELSE offsets[c]

\* The loads of one round go to as many lines as there are chains.
NoSharedLine ==
    pc = "run" => \A c, d \in Chain : LoadOf(c) = LoadOf(d) => c = d
=============================================================================
