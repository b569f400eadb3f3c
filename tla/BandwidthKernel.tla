--------------------------- MODULE BandwidthKernel ---------------------------
(***************************************************************************)
(* The bandwidth kernels of MemoryBandwidth_x86.s and _arm.s and           *)
(* scalar_read(): an unrolled block repeated over the array, pass after    *)
(* pass.  All of them have one control structure and differ in the         *)
(* parameters of Kernel below.  MeasureBw() divides the bytes of arr_length*)
(* elements per iteration by the time, so a kernel must stay in the array, *)
(* come by every element in every pass, and stop.                          *)
(***************************************************************************)
EXTENDS BandwidthPlan

CONSTANTS
    Kernels,        \* the kernels to run
    SizesKb,        \* test sizes
    ThreadCounts,
    BaseGb,         \* gbToTransfer when the kernel is called
    Wrap            \* 2^64, the range of the iteration register

\* A kernel reads (or writes, or both) span elements, moves its index by step
\* and its pointers by stride, and starts the next pass once the index is
\* beyond end - slack; ends is the number of accesses per element, which is
\* what a pass takes from the iteration register.  A copy runs over the first
\* half and writes the second.  "exact" kernels stop at zero (jnz, cbnz), the
\* others at zero or below (jg, b.gt).
Kernel(name, copy, span, step, stride, slack, cost, exact) ==
    [name |-> name, copy |-> copy, span |-> span, step |-> step,
     stride |-> stride, slack |-> slack, cost |-> cost, exact |-> exact]

Read(name) == Kernel(name, FALSE, 128, 128, 128, 128, 1, TRUE)

ScalarRead == Kernel("scalar_read", FALSE, 8, 8, 8, 8, 1, FALSE)
AsmRead    == Read("asm_read")
AsmWrite   == Read("asm_write")
SseRead    == Read("sse_read")
SseWrite   == Read("sse_write")
Avx512Read == Read("avx512_read")
Avx512Write == Read("avx512_write")
AsmCflip   == Kernel("asm_cflip", FALSE, 128, 128, 128, 128, 2, TRUE)
AsmAdd     == Kernel("asm_add", FALSE, 128, 128, 128, 128, 2, FALSE)
Avx512Add  == Kernel("avx512_add", FALSE, 128, 128, 128, 128, 2, FALSE)
\* Mutant of AsmCopy: the pointers move by half a block.
AsmCopyHalfStride == Kernel("asm_copy", TRUE, 64, 64, 32, 64, 1, TRUE)
AsmCopy    == Kernel("asm_copy", TRUE, 64, 64, 64, 64, 1, TRUE)
Avx512Copy == Kernel("avx512_copy", TRUE, 128, 128, 64, 128, 1, TRUE)
ArmRead    == Read("arm_asm_read")
ArmWrite   == Read("arm_asm_write")
ArmCflip   == Kernel("arm_asm_cflip", FALSE, 128, 96, 96, 128, 2, TRUE)
ArmCopy    == Kernel("arm_asm_copy", TRUE, 64, 64, 64, 128, 1, TRUE)
ArmAdd     == Kernel("arm_asm_add", FALSE, 128, 128, 128, 128, 2, FALSE)

WholeKernels == {ScalarRead, AsmRead, AsmWrite, SseRead, SseWrite, Avx512Read,
                 Avx512Write, AsmCflip, AsmAdd, Avx512Add, AsmCopy, ArmRead,
                 ArmWrite, ArmAdd}
AllKernels == WholeKernels \cup {Avx512Copy, ArmCflip, ArmCopy}

ASSUME KernelsAssumption ==
    /\ Kernels \subseteq AllKernels
    /\ SizesKb \subseteq Nat \ {0}
    /\ ThreadCounts \subseteq Nat \ {0}
    /\ BaseGb \in Nat
    /\ Wrap \in Nat \ {0}
    /\ \A s \in SizesKb, t \in ThreadCounts :
         2 * t * GetIterationCount(GbAfter(BaseGb, s), s) < Wrap

VARIABLES
    kernel, arr_length, iterations,     \* the arguments; start is always 0
    pc,
    index,          \* rsi, x14, i
    pointer,        \* rdi, in elements from arr
    left,           \* r8, x2
    covered,        \* history: elements accessed in this pass
    moved           \* history: accesses so far, up to one more than are due

vars == <<kernel, arr_length, iterations, pc, index, pointer, left, covered,
          moved>>

Half == arr_length \div 2
End  == IF kernel.copy THEN Half ELSE arr_length

Block(from) == from..(from + kernel.span - 1)

\* The elements one loop pass accesses.
Accessed == IF kernel.copy THEN Block(pointer) \cup Block(Half + pointer)
                           ELSE Block(pointer)

Whole == 0..(arr_length - 1)

\* A subtraction in the iteration register.
Minus(x, y) == IF x >= y THEN x - y ELSE x - y + Wrap

Exhausted(x) == IF kernel.exact THEN x = 0 ELSE x = 0 \/ 2 * x >= Wrap

Init == \E size \in SizesKb, threads \in ThreadCounts, shared \in BOOLEAN :
    /\ shared \/ size >= threads
    /\ kernel \in Kernels
    /\ arr_length = Elements(size, threads, shared)
    /\ iterations = ThreadIterations(
                        GetIterationCount(GbAfter(BaseGb, size), size),
                        threads, shared)
    /\ pc = "loop"
    /\ index = 0 /\ pointer = 0
    /\ left = iterations
    /\ covered = {} /\ moved = 0

\* Mutant of LastBlock: one block less of slack.
LastBlockLate == index + kernel.step > End

\* Mutant of LastBlock: the last block is left out.
LastBlockEarly == index + kernel.step >= End - kernel.slack

\* The block that ends a pass.
LastBlock == index + kernel.step > End - kernel.slack

\* What MeasureBw() takes the call for.
Due == iterations * arr_length

\* Loads and stores in one loop pass.
AccessCount == kernel.span * (IF kernel.copy THEN 2 ELSE kernel.cost)

Access ==
    /\ covered' = Accessed \cup (IF index = 0 THEN {} ELSE covered)
    /\ moved' = IF moved + AccessCount > Due THEN Due + 1
                                             ELSE moved + AccessCount

NextBlock == /\ pc = "loop" /\ ~LastBlock
             /\ Access
             /\ index' = index + kernel.step
             /\ pointer' = pointer + kernel.stride
             /\ UNCHANGED <<kernel, arr_length, iterations, pc, left>>

NextPass == /\ pc = "loop" /\ LastBlock
            /\ Access
            /\ index' = 0 /\ pointer' = 0
            /\ left' = Minus(left, kernel.cost)
            /\ pc' = IF Exhausted(left') THEN "returned" ELSE "loop"
            /\ UNCHANGED <<kernel, arr_length, iterations>>

Returned == pc = "returned" /\ UNCHANGED vars

Next == NextBlock \/ NextPass \/ Returned

Spec == Init /\ [][Next]_vars
FairSpec == Spec /\ WF_vars(NextBlock \/ NextPass)
-----------------------------------------------------------------------------
TypeOK ==
    /\ kernel \in Kernels
    /\ arr_length \in Nat /\ iterations \in Nat
    /\ pc \in {"loop", "returned"}
    /\ index \in Nat /\ pointer \in Nat /\ moved \in Nat
    /\ left \in 0..(Wrap - 1)
    /\ covered \subseteq Whole

\* The unrolled block has no bounds check of its own: wherever it runs, all of
\* it lies inside the array MeasureBw() allocated.
AccessesInBounds == pc = "loop" => Accessed \subseteq Whole

\* When a pass ends it has come by every element; a copy has read all of one
\* half and written all of the other.  Three kernels fall short of it.
PassCoversArray ==
    kernel \in WholeKernels /\ index = 0 /\ moved > 0 => covered = Whole

\* A kernel that returns has made the accesses MeasureBw() divides by the time:
\* arr_length per iteration.
CountsWhatItMoves ==
    kernel \in WholeKernels /\ pc = "returned" => moved = Due

\* "Copies one half of the array to the other" (README): asm_copy for x86 does,
\* avx512_copy only where the whole half is one block, asm_copy for ARM never.
CopiesOneHalf ==
    kernel.copy /\ index = 0 /\ moved > 0 =>
        (covered = Whole <=> \/ kernel = AsmCopy
                             \/ kernel = Avx512Copy /\ arr_length = KbElems)

\* The kernel returns: the register hits zero although some kernels count down
\* in twos and stop at zero only.
Returns == <>(pc = "returned")
=============================================================================
