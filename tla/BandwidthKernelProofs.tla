------------------------ MODULE BandwidthKernelProofs ------------------------
(***************************************************************************)
(* For every test size, thread count and amount of data: all kernels stay  *)
(* in the array; those of WholeKernels come by every element in every pass *)
(* and make exactly the accesses MeasureBw() counts; and of the copy       *)
(* kernels only asm_copy for x86 copies the whole half, but for an array   *)
(* of one KB.                                                              *)
(***************************************************************************)
EXTENDS BandwidthKernel, TLAPS

\* The arguments: MeasureBw() allocates whole KBs, and GetIterationCount()
\* returns an even number that leaves room in the register.
ArgsInv ==
    /\ kernel \in Kernels
    /\ arr_length \in Nat /\ iterations \in Nat
    /\ \E kb \in Nat \ {0} : arr_length = 256 * kb
    /\ \E n \in Nat \ {0} : iterations = 2 * n
    /\ 2 * iterations < Wrap

\* Where the loop is: at a block that fits before the end.
PlaceInv ==
    /\ pc \in {"loop", "returned"}
    /\ index \in Nat /\ pointer \in Nat
    /\ pointer <= index
    /\ index = 0 \/ index + kernel.slack <= End
    /\ pc = "returned" => index = 0
    /\ covered \subseteq Whole

\* The iteration register never passes zero.
LeftInv ==
    /\ left \in Nat /\ left <= iterations
    /\ kernel.cost = 2 => \E n \in Nat : left = 2 * n
    /\ pc = "loop" <=> left > 0

MovedInv == moved \in Nat /\ moved <= Due + 1

IInv == ArgsInv /\ PlaceInv /\ LeftInv /\ MovedInv
-----------------------------------------------------------------------------
\* The parameters of the kernels, as far as the bounds depend on them.
LEMMA KernelShape ==
    ASSUME NEW k \in AllKernels
    PROVE  /\ k.span \in 1..128 /\ k.step \in 1..128 /\ k.stride \in 1..128
           /\ k.slack \in 1..128 /\ k.cost \in {1, 2}
           /\ k.span <= k.slack /\ k.stride <= k.step
<1>1. CASE k \in {AsmRead, AsmWrite, SseRead, SseWrite, Avx512Read,
                 Avx512Write, ArmRead, ArmWrite}
  BY <1>1 DEF AsmRead, AsmWrite, SseRead, SseWrite, Avx512Read, Avx512Write,
              ArmRead, ArmWrite, Read, Kernel
<1>2. CASE k \in {AsmCflip, AsmAdd, Avx512Add, ArmAdd, ArmCflip}
  BY <1>2 DEF AsmCflip, AsmAdd, Avx512Add, ArmAdd, ArmCflip, Kernel
<1>3. CASE k \in {ScalarRead, AsmCopy, Avx512Copy, ArmCopy}
  BY <1>3 DEF ScalarRead, AsmCopy, Avx512Copy, ArmCopy, Kernel
<1> QED
  BY <1>1, <1>2, <1>3, Zenon DEF AllKernels, WholeKernels

\* In the kernels that cover the array, index, pointer and slack all move by
\* one block, and blocks divide a KB (half a KB when copying).
LEMMA WholeShape ==
    ASSUME NEW k \in WholeKernels
    PROVE  /\ k.step = k.span /\ k.stride = k.span /\ k.slack = k.span
           /\ k.span \in {8, 64, 128}
           /\ k.copy => k.cost = 1
<1>1. CASE k \in {AsmRead, AsmWrite, SseRead, SseWrite, Avx512Read,
                 Avx512Write, ArmRead, ArmWrite}
  BY <1>1 DEF AsmRead, AsmWrite, SseRead, SseWrite, Avx512Read, Avx512Write,
              ArmRead, ArmWrite, Read, Kernel
<1>2. CASE k \in {AsmCflip, AsmAdd, Avx512Add, ArmAdd}
  BY <1>2 DEF AsmCflip, AsmAdd, Avx512Add, ArmAdd, Kernel
<1>3. CASE k \in {ScalarRead, AsmCopy}
  BY <1>3 DEF ScalarRead, AsmCopy, Kernel
<1> QED
  BY <1>1, <1>2, <1>3, Zenon DEF WholeKernels

\* GetIterationCount() returns a positive even number.
LEMMA IterationCountIsEven ==
    ASSUME NEW gb \in Nat, NEW testSize \in Nat \ {0}
    PROVE  /\ GetIterationCount(gb, testSize) \in Nat
           /\ \E n \in Nat \ {0} : GetIterationCount(gb, testSize) = 2 * n
<1> DEFINE q == (gb * KbPerGb) \div testSize
<1>1. gb * KbPerGb \in Nat
  BY PlanAssumption
<1>2. q \in Nat
  BY <1>1
<1> HIDE DEF q
<1>3. \E m \in Nat : q + (q % 2) = 2 * m
  BY <1>2
<1>4. PICK m \in Nat : q + (q % 2) = 2 * m
  BY <1>3
<1>5. GetIterationCount(gb, testSize) = IF 2 * m < 8 THEN 8 ELSE 2 * m
  BY <1>4 DEF GetIterationCount, RoundUp, q
<1>6. CASE 2 * m < 8
  BY <1>5, <1>6
<1>7. CASE ~(2 * m < 8)
  BY <1>4, <1>5, <1>7
<1> QED
  BY <1>6, <1>7

\* MeasureBw() hands every thread a positive number of whole KBs.
LEMMA LengthIsWholeKb ==
    ASSUME NEW size \in Nat \ {0}, NEW threads \in Nat \ {0},
           NEW shared \in BOOLEAN
    PROVE  \E kb \in Nat \ {0} : Elements(size, threads, shared) = 256 * kb
<1>1. KbPerThread(size, threads) \in Nat \ {0}
  <2> DEFINE a == size + threads - 1
  <2>1. a \in Nat /\ a >= threads
    OBVIOUS
  <2> HIDE DEF a
  <2>2. a \div threads \in Nat /\ a \div threads >= 1
    BY <2>1, Z3
  <2> QED
    BY <2>2 DEF a, KbPerThread
<1> QED
  BY <1>1 DEF Elements, KbElems

\* Each thread is asked for an even number of iterations that fits the register.
LEMMA IterationsFit ==
    ASSUME NEW size \in SizesKb, NEW threads \in ThreadCounts,
           NEW shared \in BOOLEAN
    PROVE  LET n == ThreadIterations(
                        GetIterationCount(GbAfter(BaseGb, size), size),
                        threads, shared)
           IN  n \in Nat /\ 2 * n < Wrap /\ \E m \in Nat \ {0} : n = 2 * m
<1> DEFINE g == GetIterationCount(GbAfter(BaseGb, size), size)
<1>1. GbAfter(BaseGb, size) \in Nat /\ size \in Nat \ {0}
  BY KernelsAssumption, PlanAssumption DEF GbAfter
<1>2. /\ g \in Nat
      /\ \E m \in Nat \ {0} : g = 2 * m
  BY <1>1, IterationCountIsEven
<1>3. 2 * threads * g < Wrap /\ threads \in Nat \ {0}
  BY KernelsAssumption
<1> HIDE DEF g
<1>4. PICK m \in Nat \ {0} : g = 2 * m
  BY <1>2
<1>5. threads * g = 2 * (threads * m) /\ threads * m \in Nat \ {0}
  BY <1>3, <1>4
<1>6. threads * g >= g
  BY <1>2, <1>3
<1>7. 2 * (g * threads) < Wrap /\ g * threads = threads * g /\ g * threads \in Nat
  BY <1>2, <1>3
<1>8. CASE shared
  <2>1. 2 * g < Wrap
    BY <1>2, <1>6, <1>7, KernelsAssumption
  <2> QED
    BY <1>2, <1>8, <2>1 DEF ThreadIterations, g
<1>9. CASE ~shared
  BY <1>5, <1>7, <1>9 DEF ThreadIterations, g
<1> QED
  BY <1>8, <1>9
-----------------------------------------------------------------------------
LEMMA InitIInv == Init => IInv
<1> SUFFICES ASSUME Init PROVE IInv
  OBVIOUS
<1>1. PICK size \in SizesKb, threads \in ThreadCounts, shared \in BOOLEAN :
        /\ arr_length = Elements(size, threads, shared)
        /\ iterations = ThreadIterations(
                            GetIterationCount(GbAfter(BaseGb, size), size),
                            threads, shared)
  BY DEF Init
<1>2. kernel \in Kernels /\ pc = "loop" /\ index = 0 /\ pointer = 0
      /\ left = iterations /\ covered = {} /\ moved = 0
  BY DEF Init
<1>3. ArgsInv
  <2>1. \E kb \in Nat \ {0} : arr_length = 256 * kb
    BY <1>1, LengthIsWholeKb, KernelsAssumption
  <2>2. iterations \in Nat /\ 2 * iterations < Wrap
        /\ \E m \in Nat \ {0} : iterations = 2 * m
    BY <1>1, IterationsFit
  <2> QED
    BY <1>2, <2>1, <2>2 DEF ArgsInv
<1>4. LeftInv
  BY <1>2, <1>3 DEF ArgsInv, LeftInv
<1> QED
  BY <1>2, <1>3, <1>4 DEF IInv, ArgsInv, PlaceInv, MovedInv, Due

\* One loop pass accesses only elements of the array: the pointer is never
\* ahead of the index, and the index leaves room for a block.
LEMMA BlockFits ==
    ASSUME IInv, pc = "loop"
    PROVE  Accessed \subseteq Whole
<1>1. PICK kb \in Nat \ {0} : arr_length = 256 * kb
  BY DEF IInv, ArgsInv
<1>2. /\ kernel.span \in 1..128 /\ kernel.slack \in 1..128
      /\ kernel.span <= kernel.slack
  BY KernelShape, KernelsAssumption DEF IInv, ArgsInv
<1>3. Half = 128 * kb /\ End \in {Half, arr_length}
      /\ (kernel.copy => End = Half)
  BY <1>1 DEF Half, End
<1>4. pointer \in Nat /\ pointer + kernel.span <= End
  <2>1. End \in Nat /\ End >= 128
    BY <1>1, <1>3
  <2>2. index \in Nat /\ pointer \in Nat /\ pointer <= index
        /\ (index = 0 \/ index + kernel.slack <= End)
    BY DEF IInv, PlaceInv
  <2>3. \A span, slack, end, i, p \in Nat :
           /\ span <= slack /\ p <= i /\ i + slack <= end
           => p + span <= end
    OBVIOUS
  <2>4. kernel.span \in Nat /\ kernel.slack \in Nat /\ kernel.span <= 128
    BY <1>2
  <2>5. CASE index = 0
    BY <2>1, <2>2, <2>4, <2>5
  <2>6. CASE index + kernel.slack <= End
    BY <1>2, <2>1, <2>2, <2>3, <2>4, <2>6
  <2> QED
    BY <2>2, <2>5, <2>6
<1>5. CASE kernel.copy
  BY <1>1, <1>2, <1>3, <1>4, <1>5 DEF Accessed, Block, Whole
<1>6. CASE ~kernel.copy
  BY <1>1, <1>2, <1>3, <1>4, <1>6 DEF Accessed, Block, Whole
<1> QED
  BY <1>5, <1>6

LEMMA AccessKeepsTypes ==
    ASSUME IInv, pc = "loop", Access, UNCHANGED <<kernel, arr_length, iterations>>
    PROVE  /\ (covered \subseteq Whole)'
           /\ MovedInv'
<1>1. (covered \subseteq Whole)'
  BY BlockFits DEF Access, IInv, PlaceInv, Whole
<1>2. MovedInv'
  <2>1. AccessCount \in Nat
    <3>1. kernel.span \in Nat /\ kernel.cost \in Nat
      BY KernelShape, KernelsAssumption DEF IInv, ArgsInv
    <3> QED
      BY <3>1 DEF AccessCount
  <2>2. Due \in Nat /\ Due' = Due
    BY DEF Due, IInv, ArgsInv
  <2> QED
    BY <2>1, <2>2 DEF Access, IInv, MovedInv
<1> QED
  BY <1>1, <1>2

LEMMA NextIInv ==
    ASSUME IInv, [Next]_vars
    PROVE  IInv'
<1>1. CASE NextBlock
  <2>1. /\ pc = "loop" /\ Access /\ ~LastBlock
        /\ index' = index + kernel.step /\ pointer' = pointer + kernel.stride
        /\ UNCHANGED <<kernel, arr_length, iterations, pc, left>>
    BY <1>1 DEF NextBlock
  <2>2. /\ kernel.step \in 1..128 /\ kernel.stride \in 1..128
        /\ kernel.stride <= kernel.step /\ kernel.slack \in 1..128
    BY KernelShape, KernelsAssumption DEF IInv, ArgsInv
  <2>3. End \in Int /\ End' = End
    BY <2>1 DEF End, Half, IInv, ArgsInv
  <2>4. PlaceInv'
    <3>1. index \in Nat /\ pointer \in Nat /\ pointer <= index
          /\ pc \in {"loop", "returned"}
      BY DEF IInv, PlaceInv
    <3>2. index' \in Nat /\ pointer' \in Nat /\ pointer' <= index'
      <4>1. kernel.step \in Nat /\ kernel.stride \in Nat
            /\ kernel.stride <= kernel.step
        BY <2>2
      <4>2. index' = index + kernel.step /\ pointer' = pointer + kernel.stride
        BY <2>1
      <4> QED
        BY <3>1, <4>1, <4>2
    <3>3. index' + kernel.slack <= End
      BY <2>1, <2>2, <2>3, <3>1 DEF LastBlock
    <3>4. (covered \subseteq Whole)'
      BY <2>1, AccessKeepsTypes
    <3> QED
      BY <2>1, <2>3, <3>1, <3>2, <3>3, <3>4 DEF PlaceInv
  <2>5. ArgsInv' /\ LeftInv'
    BY <2>1 DEF IInv, ArgsInv, LeftInv
  <2> QED
    BY <2>1, <2>4, <2>5, AccessKeepsTypes DEF IInv
<1>2. CASE NextPass
  <2>1. /\ pc = "loop" /\ Access /\ index' = 0 /\ pointer' = 0
        /\ left' = Minus(left, kernel.cost)
        /\ pc' = IF Exhausted(left') THEN "returned" ELSE "loop"
        /\ UNCHANGED <<kernel, arr_length, iterations>>
    BY <1>2 DEF NextPass
  <2>2. PlaceInv'
    BY <2>1, AccessKeepsTypes DEF IInv, PlaceInv
  <2>3. LeftInv'
    <3>1. kernel.cost \in {1, 2}
      BY KernelShape, KernelsAssumption DEF IInv, ArgsInv
    <3>2. left' \in Nat /\ left' = left - kernel.cost
      BY <2>1, <3>1 DEF Minus, IInv, LeftInv
    <3>3. Exhausted(left') <=> left' = 0
      <4>1. left' <= iterations /\ 2 * iterations < Wrap /\ iterations \in Nat
        BY <3>1, <3>2 DEF IInv, ArgsInv, LeftInv
      <4>2. ~(2 * left' >= Wrap)
        BY <3>2, <4>1, KernelsAssumption
      <4> QED
        BY <4>2 DEF Exhausted
    <3>4. kernel.cost = 2 => \E n \in Nat : left' = 2 * n
      <4> SUFFICES ASSUME kernel.cost = 2
                   PROVE  \E n \in Nat : left' = 2 * n
        OBVIOUS
      <4>1. PICK n \in Nat : left = 2 * n
        BY DEF IInv, LeftInv
      <4>2. n - 1 \in Nat /\ left' = 2 * (n - 1)
        BY <3>2, <4>1
      <4> QED
        BY <4>2
    <3> QED
      <4>1. pc' = "loop" <=> left' > 0
        BY <2>1, <3>2, <3>3
      <4>2. left' <= iterations /\ iterations' = iterations /\ kernel' = kernel
        BY <2>1, <3>1, <3>2 DEF IInv, ArgsInv, LeftInv
      <4> QED
        BY <3>2, <3>4, <4>1, <4>2 DEF LeftInv
  <2>4. ArgsInv'
    BY <2>1 DEF IInv, ArgsInv
  <2> QED
    BY <2>1, <2>2, <2>3, <2>4, AccessKeepsTypes DEF IInv
<1>3. CASE UNCHANGED vars
  BY <1>3 DEF IInv, ArgsInv, PlaceInv, LeftInv, MovedInv, vars, End, Half, Due,
              Whole
<1> QED
  BY <1>1, <1>2, <1>3 DEF Next, Returned

LEMMA Invariance == Spec => []IInv
  BY InitIInv, NextIInv, PTL DEF Spec

\* The type invariant, for every test size, thread count and amount of data.
THEOREM KernelTypeCorrect == Spec => []TypeOK
<1>1. IInv => TypeOK
  BY KernelsAssumption
     DEF IInv, ArgsInv, PlaceInv, LeftInv, MovedInv, TypeOK, Due
<1> QED
  BY <1>1, Invariance, PTL

\* Every kernel, the three short ones included, accesses only the array it was
\* given: the unrolled loops need no more than whole KBs.
THEOREM KernelsStayInBounds == Spec => []AccessesInBounds
<1>1. IInv => AccessesInBounds
  BY BlockFits DEF AccessesInBounds
<1> QED
  BY <1>1, Invariance, PTL

-----------------------------------------------------------------------------
\* The elements before the index, and their copies.
Reached == IF kernel.copy THEN (0..(index - 1)) \cup (Half..(Half + index - 1))
                          ELSE 0..(index - 1)

\* Accesses per element of the index's range.
PerElement == IF kernel.copy THEN 2 ELSE kernel.cost

\* Within a pass index and pointer move together, block by block, and what has
\* been accessed is what lies before them.
WholeInv ==
    /\ pointer = index
    /\ \E m \in Nat : index = kernel.span * m
    /\ index > 0 => covered = Reached
    /\ moved = (iterations - left) * arr_length + index * PerElement
    /\ PassCoversArray

\* The last block of a pass ends where the array (a copy: its half) ends.
LEMMA LastBlockEnds ==
    ASSUME IInv, WholeInv, kernel \in WholeKernels, LastBlock
    PROVE  index + kernel.span = End
<1>1. PICK kb \in Nat \ {0} : arr_length = 256 * kb
  BY DEF IInv, ArgsInv
<1>2. PICK m \in Nat : index = kernel.span * m
  BY DEF WholeInv
<1>3. /\ kernel.span \in {8, 64, 128}
      /\ kernel.slack = kernel.span /\ kernel.step = kernel.span
  BY WholeShape
<1>4. End = 128 * kb \/ End = 256 * kb
  BY <1>1 DEF End, Half
<1>5. index = 0 \/ index + kernel.span <= End
  BY <1>3 DEF IInv, PlaceInv
<1>6. index + kernel.span > End - kernel.span
  BY <1>3 DEF LastBlock
<1>7. CASE kernel.span = 8
  BY <1>2, <1>4, <1>5, <1>6, <1>7
<1>8. CASE kernel.span = 64
  BY <1>2, <1>4, <1>5, <1>6, <1>8
<1>9. CASE kernel.span = 128
  BY <1>2, <1>4, <1>5, <1>6, <1>9
<1> QED
  BY <1>3, <1>7, <1>8, <1>9

LEMMA IntervalsJoin ==
    ASSUME NEW a \in Int, NEW b \in Int, NEW c \in Int, a <= b, b <= c
    PROVE  (a..(b - 1)) \cup (b..(c - 1)) = a..(c - 1)
  OBVIOUS

\* A block extends what was reached by span elements.
LEMMA AccessExtends ==
    ASSUME IInv, WholeInv, kernel \in WholeKernels, pc = "loop", Access
    PROVE  covered' = IF kernel.copy
                      THEN (0..(index + kernel.span - 1))
                             \cup (Half..(Half + index + kernel.span - 1))
                      ELSE 0..(index + kernel.span - 1)
<1>1. kernel.span \in 1..128 /\ index \in Nat /\ Half \in Nat
  BY KernelShape, KernelsAssumption DEF IInv, ArgsInv, PlaceInv, Half
<1>2. pointer = index /\ (index > 0 => covered = Reached)
  BY DEF WholeInv
<1>3. covered' = Accessed \cup (IF index = 0 THEN {} ELSE covered)
  BY DEF Access
<1>4. CASE kernel.copy
  <2>1. Accessed = (index..(index + kernel.span - 1))
                     \cup ((Half + index)..(Half + index + kernel.span - 1))
    BY <1>2, <1>4 DEF Accessed, Block
  <2>2. CASE index = 0
    <3>1. covered' = Accessed
      BY <1>3, <2>2
    <3> QED
      BY <1>1, <1>4, <2>1, <2>2, <3>1
  <2>3. CASE index > 0
    <3>1. covered = (0..(index - 1)) \cup (Half..(Half + index - 1))
      BY <1>2, <1>4, <2>3 DEF Reached
    <3> QED
      BY <1>1, <1>3, <1>4, <2>1, <2>3, <3>1
  <2> QED
    BY <1>1, <2>2, <2>3
<1>5. CASE ~kernel.copy
  <2>1. Accessed = index..(index + kernel.span - 1)
    BY <1>2, <1>5 DEF Accessed, Block
  <2>2. CASE index = 0
    <3>1. covered' = Accessed
      BY <1>3, <2>2
    <3> QED
      BY <1>1, <1>5, <2>1, <2>2, <3>1
  <2>3. CASE index > 0
    <3>1. covered = 0..(index - 1)
      BY <1>2, <1>5, <2>3 DEF Reached
    <3>2. covered' = Accessed \cup (0..(index - 1))
      BY <1>1, <1>3, <2>3, <3>1
    <3>3. Accessed \cup (0..(index - 1)) = 0..(index + kernel.span - 1)
      <4>1. index + kernel.span \in Int /\ index <= index + kernel.span
        BY <1>1
      <4>2. (0..(index - 1)) \cup (index..((index + kernel.span) - 1))
              = 0..((index + kernel.span) - 1)
        BY <1>1, <4>1, IntervalsJoin
      <4>3. index + kernel.span - 1 = (index + kernel.span) - 1
        BY <1>1
      <4> QED
        BY <2>1, <4>2, <4>3, Zenon
    <3> QED
      BY <1>5, <3>2, <3>3
  <2> QED
    BY <1>1, <2>2, <2>3
<1> QED
  BY <1>4, <1>5

\* What is due leaves room for the pass in progress, so the count of accesses
\* is never cut off.
LEMMA MovedIsExact ==
    ASSUME IInv, WholeInv, kernel \in WholeKernels, pc = "loop", Access
    PROVE  moved' = (iterations - left) * arr_length
                      + (index + kernel.span) * PerElement
<1>1. /\ kernel.span \in {8, 64, 128} /\ kernel.cost \in {1, 2}
      /\ kernel.slack = kernel.span
      /\ kernel.copy => kernel.cost = 1
  BY KernelShape, WholeShape, KernelsAssumption DEF IInv, ArgsInv
<1>2. PICK kb \in Nat \ {0} : arr_length = 256 * kb
  BY DEF IInv, ArgsInv
<1>3. /\ index \in Nat /\ left \in Nat /\ iterations \in Nat
      /\ arr_length \in Nat /\ left <= iterations /\ left >= kernel.cost
  <2>1. left > 0 /\ (kernel.cost = 2 => \E n \in Nat : left = 2 * n)
    BY DEF IInv, LeftInv
  <2>2. left \in Nat
    BY DEF IInv, LeftInv
  <2>3. left >= kernel.cost
    BY <1>1, <2>1, <2>2
  <2> QED
    BY <2>3 DEF IInv, ArgsInv, PlaceInv, LeftInv
<1>4. PerElement \in {1, 2} /\ AccessCount = kernel.span * PerElement
  BY <1>1 DEF PerElement, AccessCount
<1>5. (index + kernel.span) * PerElement <= kernel.cost * arr_length
  <2>1. index = 0 \/ index + kernel.span <= End
    BY <1>1 DEF IInv, PlaceInv
  <2>2. CASE kernel.copy
    <3>1. End = 128 * kb /\ PerElement = 2 /\ kernel.cost = 1
      BY <1>1, <1>2, <2>2 DEF End, Half, PerElement
    <3> QED
      BY <1>1, <1>2, <1>3, <2>1, <3>1
  <2>3. CASE ~kernel.copy
    <3>1. End = 256 * kb /\ PerElement = kernel.cost
      BY <1>2, <2>3 DEF End, PerElement
    <3>2. index + kernel.span <= arr_length
      BY <1>1, <1>2, <1>3, <2>1, <3>1
    <3> QED
      BY <1>1, <1>3, <3>1, <3>2
  <2> QED
    BY <2>2, <2>3
<1>6. left * arr_length >= kernel.cost * arr_length
  BY <1>1, <1>3
<1>7. (iterations - left) * arr_length = iterations * arr_length - left * arr_length
  BY <1>3
<1>8. moved + AccessCount = (iterations - left) * arr_length
                              + (index + kernel.span) * PerElement
  BY <1>1, <1>3, <1>4 DEF WholeInv
<1>9. moved + AccessCount <= Due
  <2>1. /\ left * arr_length \in Nat /\ iterations * arr_length \in Nat
        /\ kernel.cost * arr_length \in Nat
        /\ (index + kernel.span) * PerElement \in Nat
    BY <1>1, <1>3, <1>4
  <2> QED
    BY <1>5, <1>6, <1>7, <1>8, <2>1 DEF Due
<1> QED
  <2>1. moved + AccessCount \in Int /\ Due \in Int
    BY <1>1, <1>3, <1>4 DEF IInv, MovedInv, Due
  <2> QED
    BY <1>8, <1>9, <2>1 DEF Access

LEMMA NextWholeInv ==
    ASSUME IInv, kernel \in WholeKernels, WholeInv, [Next]_vars
    PROVE  WholeInv'
<1>1. CASE NextBlock
  <2>1. /\ pc = "loop" /\ Access
        /\ index' = index + kernel.step /\ pointer' = pointer + kernel.stride
        /\ UNCHANGED <<kernel, arr_length, iterations, left>>
    BY <1>1 DEF NextBlock
  <2>2. /\ kernel.step = kernel.span /\ kernel.stride = kernel.span
        /\ kernel.span \in {8, 64, 128}
    BY WholeShape
  <2>3. index \in Nat /\ index' = index + kernel.span /\ index' > 0
        /\ pointer' = index'
    BY <2>1, <2>2 DEF IInv, PlaceInv, WholeInv
  <2>4. \E m \in Nat : index' = kernel.span * m
    <3>1. PICK m \in Nat : index = kernel.span * m
      BY DEF WholeInv
    <3>2. m + 1 \in Nat /\ index' = kernel.span * (m + 1)
      BY <2>2, <2>3, <3>1
    <3> QED
      BY <3>2
  <2>5. covered' = Reached'
    <3>1. Half' = Half /\ Half \in Int
      BY <2>1 DEF Half, IInv, ArgsInv
    <3>2. kernel.span \in Nat /\ index \in Nat /\ index' \in Nat
      BY <2>2, <2>3
    <3>3. CASE kernel.copy
      <4>1. covered' = (0..(index + kernel.span - 1))
                         \cup (Half..(Half + index + kernel.span - 1))
        BY <2>1, <3>3, AccessExtends
      <4>2. Half + index + kernel.span - 1 = Half + index' - 1
        BY <2>3, <3>1, <3>2
      <4>3. index + kernel.span - 1 = index' - 1
        BY <2>3, <3>2
      <4>4. covered' = (0..(index' - 1)) \cup (Half..(Half + index' - 1))
        BY <4>1, <4>2, <4>3, Zenon
      <4> QED
        BY <2>1, <3>1, <3>3, <4>4 DEF Reached
    <3>4. CASE ~kernel.copy
      <4>1. covered' = 0..(index + kernel.span - 1)
        BY <2>1, <3>4, AccessExtends
      <4>2. index + kernel.span - 1 = index' - 1
        BY <2>3, <3>2
      <4>3. covered' = 0..(index' - 1)
        BY <4>1, <4>2, Zenon
      <4> QED
        BY <2>1, <3>4, <4>3 DEF Reached
    <3> QED
      BY <3>3, <3>4
  <2>6. moved' = ((iterations - left) * arr_length + index * PerElement)'
    BY <2>1, <2>3, MovedIsExact DEF PerElement
  <2> QED
    BY <2>1, <2>3, <2>4, <2>5, <2>6 DEF WholeInv, PassCoversArray
<1>2. CASE NextPass
  <2>1. /\ pc = "loop" /\ Access /\ LastBlock
        /\ index' = 0 /\ pointer' = 0
        /\ left' = Minus(left, kernel.cost)
        /\ UNCHANGED <<kernel, arr_length, iterations>>
    BY <1>2 DEF NextPass
  <2>2. index + kernel.span = End
    BY <2>1, LastBlockEnds
  <2>3. covered' = Whole'
    <3>1. PICK kb \in Nat \ {0} : arr_length = 256 * kb
      BY DEF IInv, ArgsInv
    <3>2. CASE kernel.copy
      <4>1. End = Half /\ Half = 128 * kb
        BY <3>1, <3>2 DEF End, Half
      <4>2. covered' = (0..(Half - 1)) \cup (Half..(Half + Half - 1))
        <5>1. covered' = (0..(index + kernel.span - 1))
                           \cup (Half..(Half + index + kernel.span - 1))
          BY <2>1, <3>2, AccessExtends
        <5>2. index \in Nat /\ kernel.span \in Nat
          BY WholeShape DEF IInv, PlaceInv
        <5>3. Half + index + kernel.span = Half + Half
          BY <2>2, <4>1, <5>2
        <5> QED
          BY <2>2, <4>1, <5>1, <5>2, <5>3
      <4>3. arr_length = Half + Half
        BY <3>1, <4>1
      <4> QED
        BY <2>1, <3>1, <4>1, <4>2, <4>3 DEF Whole
    <3>3. CASE ~kernel.copy
      <4>1. covered' = 0..(index + kernel.span - 1)
        BY <2>1, <3>3, AccessExtends
      <4>2. index + kernel.span - 1 = arr_length - 1
        BY <2>2, <3>1, <3>3, WholeShape DEF End, IInv, PlaceInv
      <4>3. covered' = 0..(arr_length - 1)
        BY <4>1, <4>2, Zenon
      <4> QED
        BY <2>1, <4>3 DEF Whole
    <3> QED
      BY <3>2, <3>3
  <2>4. moved' = (iterations - left') * arr_length
    <3>1. PICK kb \in Nat \ {0} : arr_length = 256 * kb
      BY DEF IInv, ArgsInv
    <3>2. kernel.cost \in {1, 2} /\ (kernel.copy => kernel.cost = 1)
      BY KernelShape, WholeShape, KernelsAssumption DEF IInv, ArgsInv
    <3>3. End * PerElement = kernel.cost * arr_length
      BY <3>1, <3>2 DEF End, Half, PerElement
    <3>4. left \in Nat /\ iterations \in Nat /\ left' = left - kernel.cost
      <4>1. left \in Nat /\ iterations \in Nat /\ left > 0
            /\ (kernel.cost = 2 => \E n \in Nat : left = 2 * n)
        BY <2>1 DEF IInv, ArgsInv, LeftInv
      <4>2. left >= kernel.cost
        BY <3>2, <4>1
      <4> QED
        BY <2>1, <4>1, <4>2 DEF Minus
    <3>5. moved' = (iterations - left) * arr_length + kernel.cost * arr_length
      BY <2>1, <2>2, <3>3, MovedIsExact
    <3> QED
      BY <3>1, <3>2, <3>4, <3>5
  <2>5. (0 = kernel.span * 0)
    BY WholeShape
  <2>6. moved' = ((iterations - left) * arr_length + index * PerElement)'
    <3>1. PerElement' = PerElement /\ PerElement \in Int
      BY <2>1, KernelShape, KernelsAssumption DEF PerElement, IInv, ArgsInv
    <3>2. (index * PerElement)' = 0
      <4>1. (index * PerElement)' = 0 * PerElement
        BY <2>1, <3>1
      <4> QED
        BY <3>1, <4>1
    <3>3. ((iterations - left') * arr_length) \in Int
      BY <2>1, KernelShape, KernelsAssumption DEF IInv, ArgsInv, LeftInv, Minus
    <3> QED
      BY <2>1, <2>4, <3>2, <3>3
  <2> QED
    BY <2>1, <2>3, <2>5, <2>6 DEF WholeInv, PassCoversArray
<1>3. CASE UNCHANGED vars
  BY <1>3 DEF WholeInv, vars, PassCoversArray, Reached, PerElement, Half, Whole
<1> QED
  BY <1>1, <1>2, <1>3 DEF Next, Returned

LEMMA InitWholeInv == Init => WholeInv
<1> SUFFICES ASSUME Init PROVE WholeInv
  OBVIOUS
<1>1. kernel \in Kernels /\ index = 0 /\ pointer = 0
      /\ left = iterations /\ moved = 0
  BY DEF Init
<1>2. arr_length \in Nat /\ iterations \in Nat
  BY InitIInv DEF IInv, ArgsInv
<1>3. kernel.span \in 1..128 /\ PerElement \in Int
  BY <1>1, KernelShape, KernelsAssumption DEF PerElement
<1>4. index = kernel.span * 0
  BY <1>1, <1>3
<1>5. moved = (iterations - left) * arr_length + index * PerElement
  BY <1>1, <1>2, <1>3
<1> QED
  BY <1>1, <1>4, <1>5 DEF WholeInv, PassCoversArray

LEMMA WholeInvariance ==
    Spec => [](IInv /\ (kernel \in WholeKernels => WholeInv))
<1>1. Init => IInv /\ WholeInv
  BY InitIInv, InitWholeInv
<1>2. IInv /\ (kernel \in WholeKernels => WholeInv) /\ [Next]_vars
      => (IInv /\ (kernel \in WholeKernels => WholeInv))'
  <2>1. [Next]_vars => kernel' = kernel
    BY DEF Next, NextBlock, NextPass, Returned, vars
  <2> QED
    BY <2>1, NextIInv, NextWholeInv
<1> QED
  BY <1>1, <1>2, PTL DEF Spec

\* Every kernel but avx512_copy and the two short ones for ARM comes by every
\* element of the array in every pass.
THEOREM WholeKernelsCover == Spec => []PassCoversArray
<1>1. IInv /\ (kernel \in WholeKernels => WholeInv) => PassCoversArray
  BY DEF WholeInv, PassCoversArray
<1> QED
  BY <1>1, WholeInvariance, PTL

\* ... and has made, when it returns, exactly the accesses MeasureBw() divides
\* by the elapsed time.
THEOREM WholeKernelsCount == Spec => []CountsWhatItMoves
<1>1. ASSUME IInv, kernel \in WholeKernels => WholeInv PROVE CountsWhatItMoves
  <2> SUFFICES ASSUME kernel \in WholeKernels, pc = "returned" PROVE moved = Due
    BY DEF CountsWhatItMoves
  <2>1. left = 0 /\ iterations \in Nat /\ arr_length \in Nat
    BY <1>1 DEF IInv, LeftInv, ArgsInv
  <2>2. index = 0
    BY <1>1 DEF IInv, PlaceInv
  <2>3. PerElement \in Int
    BY <1>1, KernelShape, KernelsAssumption DEF PerElement, IInv, ArgsInv
  <2>4. index * PerElement = 0
    BY <2>2, <2>3
  <2>5. moved = (iterations - left) * arr_length + index * PerElement
    BY <1>1 DEF WholeInv
  <2> QED
    BY <2>1, <2>4, <2>5 DEF Due
<1> QED
  BY <1>1, WholeInvariance, PTL

-----------------------------------------------------------------------------
(* The two copies that fall short. *)

ShortCopies == {Avx512Copy, ArmCopy}

OneBlock == kernel = Avx512Copy /\ arr_length = KbElems

\* ArmCopy stops 64 elements before the middle; the pointers of Avx512Copy move
\* at half the speed of its index.  Unless one block is the whole half, neither
\* comes by the last element of the first half.
ShortInv ==
    /\ kernel = ArmCopy => pointer = index
    /\ kernel = Avx512Copy => 2 * pointer = index
    /\ index <= Half - 128
    /\ OneBlock => (moved > 0 => covered = Whole)
    /\ ~OneBlock => Half - 1 \notin covered

LEMMA CopyShape ==
    ASSUME NEW k \in AllKernels
    PROVE  /\ k.copy => k \in {AsmCopy} \cup ShortCopies
           /\ k = ArmCopy => /\ k.span = 64 /\ k.step = 64 /\ k.stride = 64
                             /\ k.slack = 128 /\ k.copy
           /\ k = Avx512Copy => /\ k.span = 128 /\ k.step = 128 /\ k.stride = 64
                                /\ k.slack = 128 /\ k.copy
  BY DEF AllKernels, WholeKernels, ScalarRead, AsmRead, AsmWrite, SseRead,
         SseWrite, Avx512Read, Avx512Write, AsmCflip, AsmAdd, Avx512Add,
         AsmCopy, Avx512Copy, ArmRead, ArmWrite, ArmCflip, ArmCopy, ArmAdd,
         Read, Kernel, ShortCopies

LEMMA CopiesDiffer == ArmCopy # Avx512Copy /\ AsmCopy \notin ShortCopies
<1>1. ArmCopy.name = "arm_asm_copy" /\ Avx512Copy.name = "avx512_copy"
      /\ AsmCopy.name = "asm_copy"
  BY DEF ArmCopy, Avx512Copy, AsmCopy, Kernel
<1> QED
  BY <1>1 DEF ShortCopies

LEMMA InitShortInv == Init /\ kernel \in ShortCopies => ShortInv
<1> SUFFICES ASSUME Init, kernel \in ShortCopies PROVE ShortInv
  OBVIOUS
<1>1. PICK kb \in Nat \ {0} : arr_length = 256 * kb
  BY InitIInv DEF IInv, ArgsInv
<1>2. Half = 128 * kb
  BY <1>1 DEF Half
<1>3. index = 0 /\ pointer = 0 /\ covered = {} /\ moved = 0
  BY DEF Init
<1> QED
  BY <1>1, <1>2, <1>3 DEF ShortInv

\* What one block of a short copy adds.
LEMMA ShortAccess ==
    ASSUME IInv, kernel \in ShortCopies, ShortInv, pc = "loop", Access
    PROVE  /\ OneBlock => covered' = Whole
           /\ ~OneBlock => Half - 1 \notin covered'
<1>1. PICK kb \in Nat \ {0} : arr_length = 256 * kb
  BY DEF IInv, ArgsInv
<1>2. Half = 128 * kb
  BY <1>1 DEF Half
<1>3. /\ index \in Nat /\ pointer \in Nat /\ index <= Half - 128
  BY DEF IInv, PlaceInv, ShortInv
<1>4. kernel.copy /\ kernel \in {ArmCopy, Avx512Copy}
  BY CopyShape, KernelsAssumption DEF IInv, ArgsInv, ShortCopies
<1>5. covered' = (pointer..(pointer + kernel.span - 1))
                    \cup ((Half + pointer)..(Half + pointer + kernel.span - 1))
                    \cup (IF index = 0 THEN {} ELSE covered)
  BY <1>4 DEF Access, Accessed, Block
<1>6. CASE kernel = ArmCopy
  <2>1. kernel.span = 64 /\ pointer = index /\ ~OneBlock
    BY <1>6, CopyShape, CopiesDiffer, KernelsAssumption
       DEF IInv, ArgsInv, ShortInv, OneBlock
  <2>2. Half - 1 \notin covered
    BY <2>1 DEF ShortInv
  <2> HIDE DEF Half
  <2> QED
    BY <1>1, <1>2, <1>3, <1>5, <2>1, <2>2
<1>7. CASE kernel = Avx512Copy
  <2>1. kernel.span = 128 /\ 2 * pointer = index
    BY <1>7, CopyShape, KernelsAssumption DEF IInv, ArgsInv, ShortInv
  <2>2. CASE OneBlock
    <3>1. arr_length = 256 /\ kb = 1 /\ Half = 128
      BY <1>1, <1>2, <2>2 DEF OneBlock, KbElems
    <3>2. index = 0 /\ pointer = 0
      BY <1>3, <2>1, <3>1
    <3> QED
      BY <1>5, <2>1, <2>2, <3>1, <3>2 DEF Whole
  <2>3. CASE ~OneBlock
    <3>1. kb >= 2
      BY <1>1, <1>7, <2>3 DEF OneBlock, KbElems
    <3>2. pointer + 127 < Half - 1
      BY <1>2, <1>3, <2>1, <3>1
    <3>3. Half - 1 \notin covered
      BY <2>3 DEF ShortInv
    <3>4. Half \in Nat
      BY <1>2
    <3> QED
      BY <1>3, <1>5, <2>1, <2>3, <3>2, <3>3, <3>4
  <2> QED
    BY <2>2, <2>3
<1> QED
  BY <1>4, <1>6, <1>7

LEMMA NextShortInv ==
    ASSUME IInv, kernel \in ShortCopies, ShortInv, [Next]_vars
    PROVE  ShortInv'
<1>1. PICK kb \in Nat \ {0} : arr_length = 256 * kb
  BY DEF IInv, ArgsInv
<1>2. Half = 128 * kb /\ (kernel.copy => End = Half)
  BY <1>1 DEF Half, End
<1>3. /\ index \in Nat /\ pointer \in Nat /\ index <= Half - 128
      /\ kernel = ArmCopy => pointer = index
      /\ kernel = Avx512Copy => 2 * pointer = index
  BY DEF IInv, PlaceInv, ShortInv
<1>4. /\ kernel = ArmCopy => kernel.step = 64 /\ kernel.stride = 64
      /\ kernel = Avx512Copy => kernel.step = 128 /\ kernel.stride = 64
      /\ kernel.slack = 128 /\ kernel.copy
      /\ kernel = ArmCopy \/ kernel = Avx512Copy
  BY CopyShape, KernelsAssumption DEF IInv, ArgsInv, ShortCopies
<1>a. ASSUME UNCHANGED <<kernel, arr_length>>
      PROVE  Half' = Half /\ Whole' = Whole /\ OneBlock' = OneBlock
  BY <1>a DEF Half, Whole, OneBlock
<1>5. CASE NextBlock
  <2>1. /\ pc = "loop" /\ Access /\ ~LastBlock
        /\ index' = index + kernel.step /\ pointer' = pointer + kernel.stride
        /\ UNCHANGED <<kernel, arr_length>>
    BY <1>5 DEF NextBlock
  <2>2. index + kernel.step <= Half - 128
    BY <1>2, <1>3, <1>4, <2>1 DEF LastBlock
  <2>3. /\ kernel = ArmCopy => pointer' = index'
        /\ kernel = Avx512Copy => 2 * pointer' = index'
    BY <1>3, <1>4, <2>1
  <2> QED
    BY <1>a, <2>1, <2>2, <2>3, ShortAccess DEF ShortInv
<1>6. CASE NextPass
  <2>1. /\ pc = "loop" /\ Access /\ index' = 0 /\ pointer' = 0
        /\ UNCHANGED <<kernel, arr_length>>
    BY <1>6 DEF NextPass
  <2> QED
    BY <1>a, <1>2, <2>1, ShortAccess DEF ShortInv
<1>7. CASE UNCHANGED vars
  BY <1>7, <1>a DEF vars, ShortInv
<1> QED
  BY <1>5, <1>6, <1>7 DEF Next, Returned

\* A copy comes by all of one half and of the other only in asm_copy for x86,
\* and in avx512_copy on an array of one KB: in every other case the last
\* element of the first half is never read.
THEOREM OneCopyIsWhole == Spec => []CopiesOneHalf
<1> DEFINE Inv == /\ IInv
                  /\ kernel \in WholeKernels => WholeInv
                  /\ kernel \in ShortCopies => ShortInv
<1>1. Init => (kernel \in ShortCopies => ShortInv)
  BY InitShortInv
<1>2. IInv /\ (kernel \in ShortCopies => ShortInv) /\ [Next]_vars
      => (kernel \in ShortCopies => ShortInv)'
  <2>1. [Next]_vars => kernel' = kernel
    BY DEF Next, NextBlock, NextPass, Returned, vars
  <2> QED
    BY <2>1, NextShortInv
<1>3. Inv => CopiesOneHalf
  <2> SUFFICES ASSUME Inv, kernel.copy, index = 0, moved > 0
               PROVE  covered = Whole <=> \/ kernel = AsmCopy
                                          \/ kernel = Avx512Copy
                                             /\ arr_length = KbElems
    BY DEF CopiesOneHalf
  <2>1. kernel \in {AsmCopy} \cup ShortCopies
    BY CopyShape, KernelsAssumption DEF IInv, ArgsInv
  <2>2. CASE kernel = AsmCopy
    BY <2>2 DEF WholeInv, WholeKernels, PassCoversArray
  <2>3. CASE kernel \in ShortCopies
    <3>1. Half - 1 \in Whole
      <4>1. PICK kb \in Nat \ {0} : arr_length = 256 * kb
        BY DEF IInv, ArgsInv
      <4>2. Half = 128 * kb
        BY <4>1 DEF Half
      <4> QED
        BY <4>1, <4>2 DEF Whole
    <3> QED
      BY <2>3, <3>1, CopiesDiffer DEF ShortInv, OneBlock
  <2> QED
    BY <2>1, <2>2, <2>3
<1> QED
  BY <1>1, <1>2, <1>3, Invariance, WholeInvariance, PTL DEF Spec
=============================================================================
