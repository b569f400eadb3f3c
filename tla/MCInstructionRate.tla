-------------------------- MODULE MCInstructionRate --------------------------
(***************************************************************************)
(* RateLoop with the kernels and calls of InstructionRate.  600 stands for *)
(* the 1500000000 of main(): every call leaves the same remainder of its   *)
(* count by the kernel's step (SameRemainders).                            *)
(***************************************************************************)
EXTENDS RateLoop, RateCalls

RatePrograms == {"x86", "arm"}
RateKernelsOf == [x86 |-> X86Kernels, arm |-> ArmKernels]
RateCallsOf == [x86 |-> X86Calls, arm |-> ArmCalls]
MCClockCall == Call("clktest", "clktest", 5)
MCIterations == 600
MCScales == [x86 |-> {1, 2}, arm |-> {1}]
MCMaxPasses == 2000

\* Tests that count loop control as one instruction, or whose iteration count
\* is no multiple of the step, or that go round once more at zero.
RateInexact ==
    [x86 |-> {"noptest", "noptest1b", "addmultest", "mixfmaadd512",
              "mixfma512add256", "mixfmaadd256", "mixfmaandmem256",
              "mixfmaaddmem256", "mix21fma256fma512", "mixmul16mul64_21"},
     arm |-> {}]

\* Tests with a wrong branch target, or a function in main() that executes other
\* kinds of instructions than the text names (256-bit instead of 512-bit adds,
\* nops instead of movs, FADDs instead of FMAs, 32-bit instead of 64-bit
\* multiplications).
RateMisnamed ==
    [x86 |-> {"vecsubzerotest", "latadd512int", "addmovtest", "mix256fmaintadd"},
     arm |-> {"mixaddjmptest", "mul64test"}]

Remainder(n, c, step) == ((c.times % step) * (n % step)) % step

ASSUME SameRemainders ==
    \A p \in RatePrograms : \A c \in RateCallsOf[p], k \in RateKernelsOf[p] :
        c.kernel = k.name =>
            Remainder(1500000000, c, k.step) = Remainder(MCIterations, c, k.step)
=============================================================================
