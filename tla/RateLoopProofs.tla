--------------------------- MODULE RateLoopProofs ---------------------------
(***************************************************************************)
(* Proofs about the countdown loops of InstructionRate, for every table of *)
(* kernels and calls that satisfies RateAssumption, every iteration count  *)
(* and every scale. Counted relates the register to the work done, Sign    *)
(* says which values a kernel can be running or have returned with, Even   *)
(* adds what the tests need that are counted exactly, and the last theorem *)
(* says which tests may stray.                                             *)
(***************************************************************************)
EXTENDS RateLoop, TLAPS

\* Each pass takes the work and at most one more from the register.
Counted == /\ Done <= Due - counter
           /\ Due - counter <= Done + passes

\* Only "ne" loops go on below zero; no loop stops above it, or more than a
\* pass below it.
Sign ==
    /\ running /\ loop.branch = "gt" => counter > 0
    /\ running /\ loop.branch = "ge" => counter >= 0
    /\ ~running => counter <= 0 /\ counter >= -loop.step
    /\ ~running /\ loop.branch = "ne" => counter = 0
    /\ ~running /\ loop.branch = "gt" => counter > -loop.step

IInv == TypeOK /\ Counted /\ Sign

-----------------------------------------------------------------------------
(* The functions of the model.                                             *)

\* Every label that is branched to or called is that of some kernel.
LEMMA NamedKernel ==
    ASSUME NEW p \in Programs, NEW name, \E k \in Kernels[p] : k.name = name
    PROVE  /\ Named(p, name) \in Kernels[p]
           /\ Named(p, name).name = name
  BY DEF Named

\* The kernel that a call names.
LEMMA CalledKernel ==
    ASSUME NEW p \in Programs, NEW c \in Calls[p] \cup {ClockCall}
    PROVE  /\ Named(p, c.kernel) \in Kernels[p]
           /\ Named(p, c.kernel).name = c.kernel
<1>1. \E k \in Kernels[p] : k.name = c.kernel
  BY RateAssumption
<1> QED
  BY <1>1, NamedKernel

\* The kernel a branch goes to ends in the same way.
LEMMA BackKernel ==
    ASSUME NEW p \in Programs, NEW k \in Kernels[p]
    PROVE  /\ Named(p, k.back) \in Kernels[p]
           /\ Named(p, k.back).name = k.back
           /\ Named(p, k.back).branch = k.branch
<1>1. \E b \in Kernels[p] : b.name = k.back
  BY RateAssumption
<1>2. Named(p, k.back) \in Kernels[p] /\ Named(p, k.back).name = k.back
  BY <1>1, NamedKernel
<1> QED
  BY <1>2, RateAssumption

\* What is known of a kernel's numbers.
LEMMA KernelNumbers ==
    ASSUME NEW p \in Programs, NEW k \in Kernels[p]
    PROVE  /\ k.step \in Nat /\ k.step > 0 /\ k.work \in Nat
           /\ k.work <= k.step /\ k.step <= k.work + 1
           /\ k.branch \in {"ne", "gt", "ge"}
  BY RateAssumption

\* A product of positive numbers is positive.
LEMMA ProductPositive ==
    ASSUME NEW a \in Nat \ {0}, NEW b \in Nat \ {0}
    PROVE  a * b \in Nat \ {0}
  OBVIOUS

\* The count of every call is positive.
LEMMA DuePositive ==
    ASSUME NEW p \in Programs, NEW s \in Scales[p], NEW c \in Calls[p] \cup {ClockCall}
    PROVE  s * c.times * Iterations \in Nat \ {0}
<1>1. s \in Nat \ {0} /\ c.times \in Nat \ {0} /\ Iterations \in Nat \ {0}
  BY RateAssumption
<1>2. s * c.times \in Nat \ {0}
  BY <1>1, ProductPositive
<1> QED
  BY <1>1, <1>2, ProductPositive

-----------------------------------------------------------------------------
(* The type invariant and the bounds on the work.                          *)

LEMMA InitIInv == Init => IInv
<1> SUFFICES ASSUME Init PROVE IInv
  OBVIOUS
<1>1. ClockCall \in Calls[program] \cup {ClockCall} /\ program \in Programs
      /\ scale \in Scales[program] /\ call = ClockCall
  BY DEF Init
<1>2. loop \in Kernels[program]
  BY <1>1, CalledKernel DEF Init
<1>3. Due \in Nat \ {0}
  BY <1>1, DuePositive DEF Due
<1>4. counter = Due /\ running = TRUE /\ passes = 0 /\ own = 0 /\ other = 0 /\ stage = "clock"
  BY DEF Init
<1>5. TypeOK
  BY <1>1, <1>2, <1>3, <1>4, RateAssumption DEF TypeOK
<1>6. Counted
  BY <1>3, <1>4 DEF Counted, Done
<1>7. Sign
  BY <1>3, <1>4 DEF Sign
<1> QED
  BY <1>5, <1>6, <1>7 DEF IInv

\* A pass keeps the type invariant.
LEMMA PassTypeOK ==
    ASSUME TypeOK, Pass
    PROVE  TypeOK'
<1> USE DEF TypeOK, Pass
<1>1. loop.step \in Nat /\ loop.work \in Nat
  BY KernelNumbers
<1>2. loop' \in Kernels[program]
  BY BackKernel
<1>3. counter' \in Int /\ passes' \in 0..MaxPasses
  BY <1>1, RateAssumption
<1>4. own' \in Nat /\ other' \in Nat
  BY <1>1
<1>5. running' \in BOOLEAN
  BY DEF Taken
<1> QED
  BY <1>2, <1>3, <1>4, <1>5

LEMMA PassIInv ==
    ASSUME IInv, Pass
    PROVE  IInv'
<1>1. TypeOK'
  BY PassTypeOK DEF IInv
<1>2. /\ loop.step \in Nat /\ loop.step > 0 /\ loop.work \in Nat
      /\ loop.work <= loop.step /\ loop.step <= loop.work + 1
      /\ loop.branch \in {"ne", "gt", "ge"}
  BY KernelNumbers DEF IInv, TypeOK
<1>3. counter \in Int /\ passes \in Nat /\ own \in Nat /\ other \in Nat
  BY RateAssumption DEF IInv, TypeOK
<1>4. counter' = counter - loop.step /\ passes' = passes + 1 /\ running
  BY DEF Pass
<1>5. Done' = Done + loop.work /\ Done \in Nat
  BY <1>2, <1>3 DEF Pass, Done
<1>6. Due' = Due /\ Due \in Nat
  <2>1. Due' = Due
    BY DEF Pass, Due
  <2>2. program \in Programs /\ scale \in Scales[program]
        /\ call \in Calls[program] \cup {ClockCall}
    BY DEF IInv, TypeOK
  <2> QED
    BY <2>1, <2>2, DuePositive DEF Due
<1>7. Counted'
  BY <1>2, <1>3, <1>4, <1>5, <1>6 DEF IInv, Counted
<1>8. Sign'
  <2>1. CASE running'
    <3>1. loop'.branch = loop.branch
      BY <2>1, BackKernel DEF Pass, IInv, TypeOK
    <3>2. Taken(loop.branch, counter')
      BY <2>1 DEF Pass
    <3> QED
      BY <2>1, <3>1, <3>2 DEF Sign, Taken
  <2>2. CASE ~running'
    <3>1. loop' = loop /\ ~Taken(loop.branch, counter')
      BY <2>2 DEF Pass
    <3>2. CASE loop.branch = "ne"
      BY <2>2, <3>1, <3>2, <1>2, <1>3, <1>4 DEF Sign, Taken
    <3>3. CASE loop.branch = "gt"
      BY <2>2, <3>1, <3>3, <1>2, <1>3, <1>4 DEF Sign, Taken, IInv
    <3>4. CASE loop.branch = "ge"
      BY <2>2, <3>1, <3>4, <1>2, <1>3, <1>4 DEF Sign, Taken, IInv
    <3> QED
      BY <1>2, <3>2, <3>3, <3>4
  <2> QED
    BY <2>1, <2>2
<1> QED
  BY <1>1, <1>7, <1>8 DEF IInv

\* Calling a kernel starts the account afresh.
LEMMA StartTestIInv ==
    ASSUME IInv, StartTest
    PROVE  IInv'
<1>1. PICK c \in Calls[program] : Enter(c)
  BY DEF StartTest
<1>2. /\ program' = program /\ scale' = scale /\ stage' = "test"
      /\ call' = c /\ loop' = Named(program, c.kernel) /\ running' = TRUE
      /\ counter' = scale * c.times * Iterations
      /\ passes' = 0 /\ own' = 0 /\ other' = 0
  BY <1>1 DEF StartTest, Enter
<1>3. program \in Programs /\ scale \in Scales[program]
  BY DEF IInv, TypeOK
<1>4. loop' \in Kernels[program]
  BY <1>2, <1>3, CalledKernel
<1>5. Due' = counter' /\ counter' \in Nat \ {0}
  BY <1>2, <1>3, DuePositive DEF Due
<1>6. TypeOK'
  BY <1>2, <1>3, <1>4, <1>5, RateAssumption DEF TypeOK
<1>7. Counted'
  BY <1>2, <1>5 DEF Counted, Done
<1>8. Sign'
  BY <1>2, <1>5 DEF Sign
<1> QED
  BY <1>6, <1>7, <1>8 DEF IInv

\* Nothing else touches the account.
LEMMA IdleIInv ==
    ASSUME IInv, Report \/ UNCHANGED vars
    PROVE  IInv'
<1>1. /\ UNCHANGED <<program, scale, call, loop, running, counter, passes, own, other>>
      /\ stage' \in {"clock", "test", "done"}
  BY DEF Report, vars, IInv, TypeOK
<1> QED
  BY <1>1 DEF IInv, TypeOK, Counted, Sign, Due, Done

LEMMA NextIInv ==
    ASSUME IInv, [Next]_vars
    PROVE  IInv'
<1>1. CASE Pass
  BY <1>1, PassIInv
<1>2. CASE StartTest
  BY <1>2, StartTestIInv
<1>3. CASE Report \/ UNCHANGED vars
  BY <1>3, IdleIInv
<1> QED
  BY <1>1, <1>2, <1>3 DEF Next, Stop

LEMMA AlwaysIInv == Spec => []IInv
<1>1. Init => IInv
  BY InitIInv
<1>2. IInv /\ [Next]_vars => IInv'
  BY NextIInv
<1> QED
  BY <1>1, <1>2, PTL DEF Spec

\* The processor is always in a loop of the program's own assembly file.
THEOREM RateTypeCorrect == Spec => []TypeOK
<1>1. IInv => TypeOK
  BY DEF IInv
<1> QED
  BY <1>1, AlwaysIInv, PTL

\* A kernel that returns has executed what measureFunction() divides by, give
\* or take an instruction per pass and one pass.
LEMMA IInvWithin == IInv => WithinLoopControl
<1> SUFFICES ASSUME IInv, Returned PROVE WithinLoopControl
  BY DEF WithinLoopControl
<1>1. loop.step \in Nat /\ counter \in Int /\ own \in Nat /\ other \in Nat /\ passes \in Nat
  BY KernelNumbers, RateAssumption DEF IInv, TypeOK
<1>2. Due \in Nat
  BY DuePositive DEF IInv, TypeOK, Due
<1>3. Done \in Nat
  BY <1>1 DEF Done
<1>4. counter <= 0 /\ counter >= -loop.step
  BY DEF IInv, Sign, Returned
<1> QED
  BY <1>1, <1>2, <1>3, <1>4 DEF IInv, Counted, WithinLoopControl

THEOREM KernelsCountTheirWork == Spec => []WithinLoopControl
  BY AlwaysIInv, IInvWithin, PTL

-----------------------------------------------------------------------------
(* The tests that are counted exactly.                                     *)

\* The work is what has been taken from the register; a loop that would not
\* insist on zero stays where it is and meets zero because it steps there.
Even ==
    call.label \notin Inexact[program] =>
        /\ loop.work = loop.step
        /\ Done = Due - counter
        /\ loop.branch # "ne" =>
              /\ loop.branch = "gt"
              /\ \A b \in Kernels[program] : b.name = loop.back => b = loop
              /\ \E q \in Int : counter = q * loop.step

LEMMA Reassociate ==
    ASSUME NEW a \in Int, NEW b \in Int, NEW c \in Int
    PROVE  a * (b * c) = a * b * c /\ a * b \in Int
  OBVIOUS

\* A multiple of the step less the step is a multiple of the step.
LEMMA OneLess ==
    ASSUME NEW q \in Int, NEW step \in Nat
    PROVE  q * step - step = (q - 1) * step /\ q - 1 \in Int
  OBVIOUS

\* The only multiple of the step that is within a step below zero is zero.
LEMMA OnlyZero ==
    ASSUME NEW q \in Int, NEW step \in Nat \ {0}, q * step <= 0, q * step > -step
    PROVE  q * step = 0
<1>1. CASE q = 0
  BY <1>1
<1>2. CASE q >= 1
  <2>1. q * step >= step
    BY <1>2
  <2> QED
    BY <2>1
<1>3. CASE q <= -1
  <2>1. q * step <= -step
    BY <1>3
  <2> QED
    BY <2>1
<1> QED
  BY <1>1, <1>2, <1>3

\* Any call begins even.
LEMMA BeginsEven ==
    ASSUME NEW p \in Programs, NEW s \in Scales[p], NEW c \in Calls[p] \cup {ClockCall},
           c.label \notin Inexact[p], NEW k \in Kernels[p], k.name = c.kernel
    PROVE  /\ k.work = k.step
           /\ k.branch # "ne" =>
                /\ k.branch = "gt"
                /\ \A b \in Kernels[p] : b.name = k.back => b = k
                /\ \E q \in Int : s * c.times * Iterations = q * k.step
<1>1. /\ k.work = k.step
      /\ k.branch # "ne" =>
           /\ k.branch = "gt"
           /\ \A b \in Kernels[p] : b.name = k.back => b = k
           /\ Fits(k.step, c.times * Iterations)
  BY ExactAssumption
<1>2. s \in Nat /\ c.times \in Nat /\ Iterations \in Nat /\ k.step \in Nat
  BY RateAssumption
<1>3. ASSUME Fits(k.step, c.times * Iterations)
      PROVE  \E q \in Int : s * c.times * Iterations = q * k.step
  <2>1. PICK r \in Int : c.times * Iterations = r * k.step
    BY <1>2, <1>3 DEF Fits
  <2>2. s * (c.times * Iterations) = s * c.times * Iterations
    BY <1>2, Reassociate
  <2>3. s * (r * k.step) = (s * r) * k.step /\ s * r \in Int
    BY <1>2, Reassociate
  <2> QED
    BY <2>1, <2>2, <2>3
<1> QED
  BY <1>1, <1>3

LEMMA InitEven == Init => Even
<1> SUFFICES ASSUME Init, call.label \notin Inexact[program] PROVE Even
  BY DEF Even
<1>1. /\ program \in Programs /\ scale \in Scales[program] /\ call = ClockCall
      /\ loop = Named(program, call.kernel) /\ counter = scale * call.times * Iterations
      /\ Due = counter /\ own = 0 /\ other = 0
  BY DEF Init, Due
<1>2. loop \in Kernels[program] /\ loop.name = call.kernel
  BY <1>1, CalledKernel
<1>3. counter \in Nat
  BY <1>1, DuePositive
<1>4. Done = Due - counter
  BY <1>1, <1>3 DEF Done
<1> QED
  BY <1>1, <1>2, <1>4, BeginsEven DEF Even

LEMMA StartTestEven ==
    ASSUME IInv, StartTest
    PROVE  Even'
<1>1. PICK c \in Calls[program] : Enter(c)
  BY DEF StartTest
<1>2. /\ program' = program /\ scale' = scale /\ call' = c
      /\ loop' = Named(program, c.kernel)
      /\ counter' = scale * c.times * Iterations
      /\ own' = 0 /\ other' = 0
  BY <1>1 DEF StartTest, Enter
<1>3. program \in Programs /\ scale \in Scales[program]
  BY DEF IInv, TypeOK
<1>4. loop' \in Kernels[program] /\ loop'.name = c.kernel
  BY <1>2, <1>3, CalledKernel
<1>5. Due' = counter' /\ counter' \in Nat
  BY <1>2, <1>3, DuePositive DEF Due
<1>6. Done' = Due' - counter'
  BY <1>2, <1>5 DEF Done
<1> QED
  BY <1>2, <1>3, <1>4, <1>6, BeginsEven DEF Even

LEMMA PassEven ==
    ASSUME IInv, Even, Pass
    PROVE  Even'
<1> SUFFICES ASSUME call'.label \notin Inexact[program'] PROVE Even'
  BY DEF Even
<1>1. call' = call /\ program' = program /\ scale' = scale
      /\ counter' = counter - loop.step
  BY DEF Pass
<1>2. program \in Programs /\ loop \in Kernels[program]
      /\ counter \in Int /\ own \in Nat /\ other \in Nat
  BY DEF IInv, TypeOK
<1>3. loop.step \in Nat /\ loop.work = loop.step
  BY <1>1, <1>2, KernelNumbers DEF Even
<1>4. Done' = Due' - counter'
  <2>1. Due' = Due /\ Due \in Nat
    BY <1>1, DuePositive DEF Due, IInv, TypeOK
  <2>2. Done' = Done + loop.work
    BY <1>2, <1>3 DEF Pass, Done
  <2>3. Done = Due - counter
    BY <1>1 DEF Even
  <2> QED
    BY <1>1, <1>2, <1>3, <2>1, <2>2, <2>3
<1>5. CASE loop' = loop
  <2>1. loop.branch # "ne" => \E q \in Int : counter' = q * loop.step
    <3> SUFFICES ASSUME loop.branch # "ne" PROVE \E q \in Int : counter' = q * loop.step
      OBVIOUS
    <3>1. PICK q \in Int : counter = q * loop.step
      BY <1>1 DEF Even
    <3>2. q * loop.step - loop.step = (q - 1) * loop.step /\ q - 1 \in Int
      BY <1>3, OneLess
    <3>3. counter' = (q - 1) * loop.step
      BY <1>1, <3>1, <3>2
    <3> QED
      BY <3>2, <3>3
  <2> QED
    BY <1>1, <1>3, <1>4, <1>5, <2>1 DEF Even
<1>6. CASE loop' # loop
  <2>1. loop' = Named(program, loop.back)
    BY <1>6 DEF Pass
  <2>2. loop' \in Kernels[program] /\ loop'.name = loop.back /\ loop'.branch = loop.branch
    BY <1>2, <2>1, BackKernel
  <2>3. loop.branch = "ne"
    BY <1>1, <1>6, <2>2 DEF Even
  <2>4. loop'.work = loop'.step
    BY <1>2, <1>3, <2>2, ExactAssumption
  <2> QED
    BY <1>4, <2>2, <2>3, <2>4 DEF Even
<1> QED
  BY <1>5, <1>6

LEMMA AlwaysEven == Spec => []Even
<1>1. Init => Even
  BY InitEven
<1>2. IInv /\ Even /\ [Next]_vars => Even'
  <2> SUFFICES ASSUME IInv, Even, [Next]_vars PROVE Even'
    OBVIOUS
  <2>1. CASE Pass
    BY <2>1, PassEven
  <2>2. CASE StartTest
    BY <2>2, StartTestEven
  <2>3. CASE Report \/ UNCHANGED vars
    <3>1. UNCHANGED <<program, scale, call, loop, counter, own, other>>
      BY <2>3 DEF Report, vars
    <3> QED
      BY <3>1 DEF Even, Done, Due
  <2> QED
    BY <2>1, <2>2, <2>3 DEF Next, Stop
<1> QED
  BY <1>1, <1>2, AlwaysIInv, PTL DEF Spec

\* The tests outside Inexact execute exactly what measureFunction() divides
\* by, wherever their branches go.
LEMMA EvenCounts == IInv /\ Even => CountsTheWork
<1> SUFFICES ASSUME IInv, Even, Returned, call.label \notin Inexact[program]
             PROVE  Done = Due
  BY IInvWithin DEF CountsTheWork
<1>1. /\ program \in Programs /\ loop \in Kernels[program] /\ counter \in Int
      /\ loop.step \in Nat \ {0} /\ ~running
  BY KernelNumbers DEF IInv, TypeOK, Returned
<1>2. Due \in Nat
  BY DuePositive DEF IInv, TypeOK, Due
<1>3. counter = 0
  <2>1. CASE loop.branch = "ne"
    BY <1>1, <2>1 DEF IInv, Sign
  <2>2. CASE loop.branch # "ne"
    <3>1. loop.branch = "gt"
      BY <2>2 DEF Even
    <3>2. counter <= 0 /\ counter > -loop.step
      BY <1>1, <3>1 DEF IInv, Sign
    <3>3. PICK q \in Int : counter = q * loop.step
      BY <2>2 DEF Even
    <3> QED
      BY <1>1, <3>2, <3>3, OnlyZero
  <2> QED
    BY <2>1, <2>2
<1> QED
  BY <1>2, <1>3 DEF Even

THEOREM ExactKernelsCount == Spec => []CountsTheWork
  BY AlwaysIInv, AlwaysEven, EvenCounts, PTL
-----------------------------------------------------------------------------
(* The tests that stray.                                                   *)

\* A call strays if main() calls a kernel that is not the one of its label, or
\* if the loop of that kernel branches back to another one.
Strays(c) ==
    LET k == Named(program, c.kernel)
    IN  k.name # c.label \/ k.back # c.label

\* Before its first pass a test is at the kernel it calls.  One that does not
\* stray stays there; one that does has either done work of another kernel, or
\* is about to.
Astray ==
    /\ stage = "done" => ~running
    /\ passes = 0 => /\ running /\ counter = Due
                     /\ loop = Named(program, call.kernel)
    /\ ~Strays(call) => other = 0 /\ loop = Named(program, call.kernel)
    /\ Strays(call) =>
           \/ other > 0
           \/ passes = 0
           \/ running /\ loop.name # call.label

\* The first pass of a test whose loop branches away does not end it.
LEMMA LongEnough ==
    ASSUME NEW p \in Programs, NEW s \in Scales[p],
           NEW c \in Calls[p] \cup {ClockCall}, NEW k \in Kernels[p],
           k.name = c.kernel, k.back # c.label
    PROVE  k.step < s * c.times * Iterations
<1>1. /\ s \in Nat \ {0} /\ c.times \in Nat \ {0} /\ Iterations \in Nat \ {0}
      /\ k.step \in Nat
  BY RateAssumption
<1> DEFINE n == c.times * Iterations
<1>2. k.step < n /\ n \in Nat
  BY <1>1, StrayAssumption
<1>3. s * c.times * Iterations = s * n
  BY <1>1, Reassociate
<1> HIDE DEF n
<1>4. s * n >= n
  BY <1>1, <1>2
<1>5. s * n \in Nat
  BY <1>1, <1>2
<1> QED
  BY <1>1, <1>2, <1>3, <1>4, <1>5

LEMMA InitAstray == Init => Astray
<1> SUFFICES ASSUME Init PROVE Astray
  OBVIOUS
<1> QED
  BY DEF Init, Astray

LEMMA StartTestAstray ==
    ASSUME IInv, StartTest
    PROVE  Astray'
<1>1. PICK c \in Calls[program] : Enter(c)
  BY DEF StartTest
<1>2. /\ program' = program /\ scale' = scale /\ stage' = "test" /\ call' = c
      /\ loop' = Named(program, c.kernel) /\ running' = TRUE
      /\ counter' = scale * c.times * Iterations
      /\ passes' = 0 /\ other' = 0
  BY <1>1 DEF StartTest, Enter
<1>3. Named(program, c.kernel)' = Named(program, c.kernel)
  BY <1>2 DEF Named
<1> QED
  BY <1>2, <1>3 DEF Astray, Due, Named

LEMMA PassAstray ==
    ASSUME IInv, Astray, Pass
    PROVE  Astray'
<1>1. /\ UNCHANGED <<program, scale, stage, call>> /\ running
      /\ counter' = counter - loop.step /\ passes' = passes + 1
      /\ stage # "done"
  BY DEF Pass, Astray
<1>2. /\ program \in Programs /\ scale \in Scales[program]
      /\ call \in Calls[program] \cup {ClockCall} /\ loop \in Kernels[program]
      /\ counter \in Int /\ own \in Nat /\ other \in Nat /\ passes \in Nat
  BY RateAssumption DEF IInv, TypeOK
<1> DEFINE k == Named(program, call.kernel)
<1>3. k \in Kernels[program] /\ k.name = call.kernel
  BY <1>2, CalledKernel
<1>4. /\ Strays(call) <=> k.name # call.label \/ k.back # call.label
      /\ loop.work > 0 /\ loop.work \in Nat
  BY <1>2, <1>3, StrayAssumption, KernelNumbers DEF Strays
<1>5. other' = IF loop.name = call.label THEN other ELSE other + loop.work
  BY DEF Pass
<1>6. passes' # 0
  BY <1>1, <1>2
<1>7. ASSUME ~Strays(call)
      PROVE  other' = 0 /\ loop' = k
  <2>1. loop = k /\ other = 0 /\ k.name = call.label /\ k.back = k.name
    BY <1>4, <1>7 DEF Astray
  <2>2. Named(program, k.back) = k
    BY <1>3, <2>1
  <2> QED
    BY <1>5, <2>1, <2>2 DEF Pass
<1>8. ASSUME Strays(call)
      PROVE  other' > 0 \/ (running' /\ loop'.name # call.label)
  <2>1. CASE other > 0
    BY <1>2, <1>4, <1>5, <2>1
  <2>2. CASE loop.name # call.label
    BY <1>2, <1>4, <1>5, <2>2
  <2>3. CASE passes = 0 /\ loop.name = call.label
    <3>1. loop = k /\ counter = Due /\ k.back # call.label
      BY <1>4, <1>8, <2>3 DEF Astray
    <3>2. k.step < Due
      BY <1>2, <1>3, <3>1, LongEnough DEF Due
    <3>3. loop.step \in Nat /\ loop.branch \in {"ne", "gt", "ge"}
      BY <1>2, KernelNumbers
    <3>4. counter' > 0 /\ counter' \in Int
      BY <1>1, <1>2, <3>1, <3>2, <3>3
    <3>7. Taken(loop.branch, counter')
      BY <3>3, <3>4 DEF Taken
    <3>5. running' /\ loop' = Named(program, k.back)
      BY <3>1, <3>7 DEF Pass
    <3>6. loop'.name = k.back
      BY <1>2, <1>3, <3>5, BackKernel
    <3> QED
      BY <3>1, <3>5, <3>6
  <2> QED
    BY <1>1, <1>8, <2>1, <2>2, <2>3 DEF Astray
<1>9. Named(program, call.kernel)' = k /\ (Strays(call)' <=> Strays(call))
  BY <1>1 DEF Named, Strays
<1> HIDE DEF k
<1> QED
  BY <1>1, <1>6, <1>7, <1>8, <1>9 DEF Astray

LEMMA AlwaysAstray == Spec => []Astray
<1>1. IInv /\ Astray /\ [Next]_vars => Astray'
  <2> SUFFICES ASSUME IInv, Astray, [Next]_vars PROVE Astray'
    OBVIOUS
  <2>1. CASE Pass
    BY <2>1, PassAstray
  <2>2. CASE StartTest
    BY <2>2, StartTestAstray
  <2>3. CASE Report
    BY <2>3 DEF Report, Astray, Strays, Due, Named
  <2>4. CASE UNCHANGED vars
    BY <2>4 DEF vars, Astray, Strays, Due, Named
  <2> QED
    BY <2>1, <2>2, <2>3, <2>4 DEF Next, Stop
<1> QED
  BY <1>1, InitAstray, AlwaysIInv, PTL DEF Spec

\* What a result is about, told from the labels of its call.
ToldByLabels ==
    /\ other > 0 => Strays(call)
    /\ stage = "done" => (other > 0 <=> Strays(call))

\* A result is about other instructions than its text names exactly if the call
\* or the branch at the end of its loop names another kernel: what the labels say
\* is what is executed, for every kernel, count and value of argv[2].
THEOREM StraysAreAstray == Spec => []ToldByLabels
<1>1. IInv /\ Astray => ToldByLabels
  BY DEF Astray, ToldByLabels
<1> QED
  BY <1>1, AlwaysIInv, AlwaysAstray, PTL
=============================================================================
