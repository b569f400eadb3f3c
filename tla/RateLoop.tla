------------------------------ MODULE RateLoop ------------------------------
(***************************************************************************)
(* InstructionRate: main() measures the clock with clktest, then the tests *)
(* that argv[1] and the CPU select.  measureFunction() times one call of a *)
(* kernel and divides the iterations it passed by the time, taking for     *)
(* granted that the kernel executed that many instructions of the kind the *)
(* result is printed for.  A behaviour is the clock measurement followed   *)
(* by one of the tests: nothing but the clock passes from test to test.    *)
(***************************************************************************)
EXTENDS Integers

CONSTANTS
    Programs,       \* x86instructionrate.c and arminstructionrate.c
    Kernels,        \* for each program, the kernels of its assembly file
    Calls,          \* for each program, the calls its main() makes
    ClockCall,      \* the first of them
    Iterations,     \* main()'s iterations
    Scales,         \* for each program, the values of argv[2]: 1 without it
    MaxPasses,      \* bound on the passes of one call
    Inexact,        \* tests that are not counted exactly: see CountsTheWork
    Misnamed        \* tests that measure another kernel: see OnlyKnownStrays

VARIABLES
    program,
    scale,
    stage,          \* "clock", "test", "done": which call main() is making
    call,
    loop,           \* the kernel whose loop the processor is in
    running,        \* FALSE once the loop has been left
    counter,        \* %rdi or x0: iterations left
    passes,         \* passes made by this call
    own, other      \* instructions of the kind printed, and of other kernels

vars == <<program, scale, stage, call, loop, running, counter, passes, own, other>>

AllCalls == {ClockCall} \cup UNION {Calls[p] : p \in Programs}

\* Loop control is at most one instruction of a step, and every branch and
\* every call finds its kernel; a branch to another kernel's loop finds one
\* that ends in the same way.
ASSUME RateAssumption ==
    /\ \A p \in Programs : \A k \in Kernels[p] :
          /\ k.step \in Nat \ {0} /\ k.work \in Nat
          /\ k.work <= k.step /\ k.step <= k.work + 1
          /\ k.branch \in {"ne", "gt", "ge"}
          /\ \E b \in Kernels[p] : b.name = k.back
          /\ \A b \in Kernels[p] : b.name = k.back => b.branch = k.branch
    /\ \A p \in Programs : \A c \in Calls[p] \cup {ClockCall} :
          /\ c.times \in Nat \ {0}
          /\ \E k \in Kernels[p] : k.name = c.kernel
    /\ Iterations \in Nat \ {0}
    /\ \A p \in Programs : Scales[p] \subseteq Nat \ {0}
    /\ MaxPasses \in Nat

\* n is a positive multiple of step.
Fits(step, n) == \E q \in 1..n : n = q * step

\* The tests that should come out even: no instruction of a step is loop
\* control, and where the branch does not insist on zero, in a loop that stays
\* with its own kernel, the count is a multiple of the step.
ASSUME ExactAssumption ==
    \A p \in Programs :
        /\ \A k, b \in Kernels[p] :
              k.work = k.step /\ b.name = k.back => b.work = b.step
        /\ \A c \in Calls[p] \cup {ClockCall}, k \in Kernels[p] :
              c.label \notin Inexact[p] /\ k.name = c.kernel =>
                 /\ k.work = k.step
                 /\ k.branch # "ne" =>
                       /\ k.branch = "gt"
                       /\ \A b \in Kernels[p] : b.name = k.back => b = k
                       /\ Fits(k.step, c.times * Iterations)

\* A pass of any kernel does some work, and a call whose loop branches away from
\* the kernel of its label is long enough to get there.
ASSUME StrayAssumption ==
    \A p \in Programs :
        /\ \A k \in Kernels[p] : k.work > 0
        /\ \A c \in Calls[p] \cup {ClockCall}, k \in Kernels[p] :
              k.name = c.kernel /\ k.back # c.label => k.step < c.times * Iterations

-----------------------------------------------------------------------------
\* The loop at a label of the program's own assembly file.
Named(p, name) == CHOOSE k \in Kernels[p] : k.name = name

\* The count measureFunction() passes and divides by.
Due == scale * call.times * Iterations

\* (mutant: every loop goes round again at zero)
TakenAtZero(branch, left) == left >= 0

\* The three conditional branches, after the subtraction that sets the flags.
Taken(branch, left) ==
    \/ branch = "ne" /\ left # 0
    \/ branch = "gt" /\ left > 0
    \/ branch = "ge" /\ left >= 0

\* (mutant: the kernel of the clock measurement, whatever the test)
EnterClockKernel(c) ==
    /\ call' = c
    /\ loop' = Named(program, ClockCall.kernel)
    /\ running' = TRUE
    /\ counter' = scale * c.times * Iterations
    /\ passes' = 0 /\ own' = 0 /\ other' = 0

\* measureFunction() calls the kernel.
Enter(c) ==
    /\ call' = c
    /\ loop' = Named(program, c.kernel)
    /\ running' = TRUE
    /\ counter' = scale * c.times * Iterations
    /\ passes' = 0 /\ own' = 0 /\ other' = 0

Init ==
    /\ program \in Programs
    /\ scale \in Scales[program]
    /\ stage = "clock"
    /\ call = ClockCall
    /\ loop = Named(program, ClockCall.kernel)
    /\ running = TRUE
    /\ counter = Due
    /\ passes = 0 /\ own = 0 /\ other = 0

\* One pass: the body, the subtraction and the branch.
Pass ==
    /\ running /\ passes < MaxPasses
    /\ counter' = counter - loop.step
    /\ passes' = passes + 1
    /\ IF loop.name = call.label
         THEN own' = own + loop.work /\ other' = other
         ELSE other' = other + loop.work /\ own' = own
    /\ running' = Taken(loop.branch, counter')
    /\ loop' = IF running' THEN Named(program, loop.back) ELSE loop
    /\ UNCHANGED <<program, scale, stage, call>>

\* main() has the clock speed and goes to a test.
StartTest ==
    /\ stage = "clock" /\ ~running
    /\ stage' = "test"
    /\ \E c \in Calls[program] : Enter(c)
    /\ UNCHANGED <<program, scale>>

Report ==
    /\ stage = "test" /\ ~running
    /\ stage' = "done"
    /\ UNCHANGED <<program, scale, call, loop, running, counter, passes, own, other>>

\* main() has returned; a loop that goes on past MaxPasses is left there.
Stop == ~(stage # "done" /\ passes < MaxPasses) /\ UNCHANGED vars

Next == Pass \/ StartTest \/ Report \/ Stop

Spec == Init /\ [][Next]_vars

\* The processor keeps executing.
FairSpec == Spec /\ WF_vars(Next)

-----------------------------------------------------------------------------
Returned == ~running
Done == own + other

(* Type invariant of InstructionRate: the processor is in a loop of the      *)
(* program's own assembly file, and the counters are numbers.                *)
TypeOK ==
    /\ program \in Programs
    /\ scale \in Scales[program]
    /\ stage \in {"clock", "test", "done"}
    /\ call \in Calls[program] \cup {ClockCall}
    /\ loop \in Kernels[program]
    /\ running \in BOOLEAN
    /\ counter \in Int
    /\ passes \in 0..MaxPasses
    /\ own \in Nat /\ other \in Nat

(* No kernel is off by more than its loop control: it falls short by at most *)
(* one instruction per pass and exceeds by at most one pass.                 *)
WithinLoopControl ==
    Returned => /\ Due <= Done + passes
                /\ Done <= Due + loop.step

(* When a kernel returns it has executed exactly the instructions that       *)
(* measureFunction() divides by, for every test but the inexact ones: the    *)
(* unroll factor, the step and the iteration count fit one another, whatever *)
(* loop the branch went to.  The inexact ones are off by no more than their  *)
(* loop control.                                                             *)
CountsTheWork ==
    /\ Returned /\ call.label \notin Inexact[program] => Done = Due
    /\ WithinLoopControl

(* Which results are about other kinds of instructions than their text names *)
(* (README: "the instruction execution rate on x86 and ARM architectures"):  *)
(* those of the tests known to stray, whatever argv[2] is, and of no other   *)
(* test.                                                                     *)
OnlyKnownStrays ==
    /\ other > 0 => call.label \in Misnamed[program]
    /\ stage = "done" => (other > 0 <=> call.label \in Misnamed[program])

(* Every kernel reaches the end of its count and main() prints its result.   *)
Ends == <>(stage = "done")

=============================================================================
