---------------------------- MODULE BandwidthPlan ----------------------------
(***************************************************************************)
(* How MemoryBandwidth.c divides a test among threads: the iterations and  *)
(* the array length each thread's kernel is called with.  The kernels      *)
(* (BandwidthKernel) and the test driver (MemoryBandwidth) share it.       *)
(***************************************************************************)
EXTENDS Integers

CONSTANTS
    KbPerGb,        \* 1024 * 1024
    SmallKb,        \* 64: larger tests override gbToTransfer
    LargeGb         \* 64: what they override it with

ASSUME PlanAssumption == /\ KbPerGb \in Nat \ {0}
                         /\ SmallKb \in Nat
                         /\ LargeGb \in Nat \ {0}

KbElems == 256      \* floats in a KB

\* The global gbToTransfer after GetIterationCount(testSize).
GbAfter(gb, testSize) == IF testSize > SmallKb THEN LargeGb ELSE gb

\* Mutant of RoundUp: odd counts stay odd.
LeaveOdd(n) == n

\* "must be even"
RoundUp(n) == n + (n % 2)

\* What GetIterationCount(testSize) returns when it leaves gb in gbToTransfer.
GetIterationCount(gb, testSize) ==
    LET n == RoundUp((gb * KbPerGb) \div testSize)
    IN  IF n < 8 THEN 8 ELSE n

\* ceil(sizeKb / threads)
KbPerThread(sizeKb, threads) == (sizeKb + threads - 1) \div threads

\* Both MeasureBw() and the kernels count elements of four bytes.
Elements(sizeKb, threads, shared) ==
    KbElems * (IF shared THEN sizeKb ELSE KbPerThread(sizeKb, threads))

ThreadIterations(iterations, threads, shared) ==
    IF shared THEN iterations ELSE iterations * threads
=============================================================================
