------------------------ MODULE BandwidthMainProofs ------------------------
(***************************************************************************)
(* main() of MemoryBandwidth.c for every list of sizes, command line,      *)
(* processor and number of failing allocations and thread creations: the   *)
(* invariants that BandwidthMain states, from one inductive invariant that *)
(* has a part for the command line, the data test, the instruction test    *)
(* and the bank-conflict test.                                             *)
(***************************************************************************)
EXTENDS BandwidthMain, FiniteSetTheorems, TLAPS

\* The command line and what was read of it.
LineInv ==
    /\ machine \in Machines
    /\ cmdline \in Seq(Options)
    /\ \A k \in 1..Len(cmdline) : cmdline[k].opt = "threads" => cmdline[k].value # 0
    /\ argIdx \in 1..(Len(cmdline) + 1)
    /\ stage \in {"parse", "data", "instructions", "banks", "exit", "killed"}
    /\ args \in Args /\ gbToTransfer \in Nat

Seen(k) == {cmdline[j].name : j \in {i \in 1..(k - 1) : cmdline[i].opt = "method"}}

\* What one name leaves in bw_func.
KernelOf(name) ==
    CASE name = "scalar" -> "scalar_read"
      [] name = "asm" -> "asm_read"
      [] name = "write" -> Avx512Or("avx512_write", "asm_write")
      [] name = "copy" -> Avx512Or("avx512_copy", "asm_copy")
      [] name = "cflip" -> "asm_cflip"
      [] name = "add" -> Avx512Or("avx512_add", "asm_add")
      [] machine.arch = "x86" /\ name = "avx512" -> "avx512_read"
      [] machine.arch = "x86" /\ name = "sse_write" -> "sse_write"
      [] machine.arch = "x86" /\ name = "sse" -> "sse_read"
      [] OTHER -> "asm_read"

\* What the names seen so far have set.
MethodInv ==
    /\ stage \notin {"parse", "exit"} => argIdx = Len(cmdline) + 1
    /\ methodSet <=> Seen(argIdx) # {}
    /\ testInstructionBandwidth <=> \E m \in Seen(argIdx) : m \in {"instr8", "instr4"}
    /\ testBankConflict <=> (machine.arch = "x86" /\ "readbankconflict" \in Seen(argIdx))
    /\ stage = "parse" /\ ~methodSet => bw_func = "asm_read"
    /\ \A m : Seen(argIdx) = {m} => bw_func = KernelOf(m)
    /\ stage \notin {"parse", "exit"} =>
          /\ ~methodSet => bw_func = IF machine.arch = "x86" THEN BestKernel
                                     ELSE "asm_read"
          /\ stage = "instructions" <=> testInstructionBandwidth
          /\ stage = "banks" <=> (testBankConflict /\ ~testInstructionBandwidth)
    /\ stage = "killed" => ~Runnable
-----------------------------------------------------------------------------
Idle == pc \in {"test", "print", "done"}
Working == pc \in {"create", "join", "report", "crashed"}
Launched(t) == tstate[t] # "none"

\* The loops of main() and MeasureBw().
LoopInv ==
    /\ pc \in {"test", "alloc", "create", "join", "report", "print", "done", "crashed"}
    /\ iterations \in Nat /\ moved \in Nat
    /\ threadIdx \in Nat \ {0} /\ sizeIdx \in 1..Len(sizes) /\ n \in Nat \ {0}
    /\ n <= Max(args.threads, args.autothreads)
    /\ IF pc \in {"print", "done"} THEN threadIdx = lastRound + 1 /\ sizeIdx = 1
                                   ELSE threadIdx <= lastRound
    /\ ~Idle => n <= threads
    /\ stage \notin {"data", "killed"} => pc = "test" /\ threadIdx = 1 /\ n = 1
    /\ stage = "parse" => sizeIdx = 1
    /\ createFailures \in Nat /\ allocFailures \in Nat

\* Threads of the current test, and which of them are inside their kernels.
ThreadInv ==
    /\ \A t \in DOMAIN tstate : tstate[t] \in {"none", "running", "exited"}
    /\ Idle \/ pc = "report" => \A t \in DOMAIN tstate : tstate[t] # "running"
    /\ ~Idle => DOMAIN tstate = 1..threads
    /\ pc = "alloc" => \A t \in 1..threads : ~Launched(t)
    /\ pc = "create" => \A t \in n..threads : ~Launched(t)
    /\ pc = "join" => \A t \in 1..(n - 1) : tstate[t] # "running"
    /\ createFailures = 0 =>
         /\ pc = "create" => \A t \in 1..(n - 1) : Launched(t)
         /\ pc \in {"join", "report", "crashed"} => \A t \in 1..threads : Launched(t)

\* The blocks of the current test are live, and without a failed allocation no
\* other is.
HeapInv ==
    /\ \A b \in heap : b.block \in {"tables", "arr"}
    /\ pc = "alloc" /\ n > 1 =>
          ~args.shared /\ {Tables} \cup {Array(t) : t \in 1..(n - 1)} \subseteq heap
    /\ Working => Blocks \subseteq heap
    /\ allocFailures = 0 =>
         /\ heap \subseteq Blocks
         /\ Idle \/ (pc = "alloc" /\ n = 1) => heap = {}
    /\ stage \notin {"data", "killed"} => heap = {}

Exits == {t \in 1..threads : tstate[t] = "exited"}

\* What the threads have accessed is what will be reported.
WorkInv ==
    createFailures = 0 =>
        /\ ~Idle => moved = work * Cardinality(Exits)
        /\ \A r \in Results : r.counted = r.moved

Before(r, k) == r < threadIdx \/ (r = threadIdx /\ k < sizeIdx)

\* Results are kept and printed where they belong.
ResultInv ==
    /\ stage \notin {"data", "killed"} => printed = {}
    /\ stage \in {"data", "killed"} =>
         /\ DOMAIN threadResults = 0..(args.autothreads * Len(sizes) - 1)
         /\ auto => /\ \A r \in 1..args.autothreads, k \in 1..Len(sizes) :
                          Before(r, k) => threadResults[Cell(r, k)].test = <<r, sizes[k]>>
                    /\ pc # "done" => printed = {}
         /\ ~auto /\ pc \notin {"print", "done"} =>
               {p.test : p \in printed} =
                  {<<args.threads, sizes[k]>> : k \in 1..(sizeIdx - 1)}
         /\ ~auto /\ pc \in {"print", "done"} =>
               {p.test : p \in printed} = {<<args.threads, sizes[k]>> : k \in 1..Len(sizes)}
    /\ PrintsOwnResults
-----------------------------------------------------------------------------
LineCounts(l) ==
    IF l.bytes = 0 THEN allocFailures > 0
    ELSE l.bytes <= l.fetched /\ l.fetched - l.bytes < l.calls * RetBytes

\* The instruction test: what was fetched, and what will be reported.
CodeInv ==
    /\ codePc \in {"off", "alloc", "flush", "clear", "protect", "call", "returned",
                   "crashed"}
    /\ codePc # "off" => stage = "instructions"
    /\ codePc \in {"alloc", "flush", "clear", "protect", "call", "returned"} =>
         /\ codeKb = testSize
         /\ codeIterations \in Nat /\ codeIterations >= 8
         /\ calls \in 0..codeIterations
         /\ fetched = calls * (8 * elementsOf(codeKb) + RetBytes)
    /\ codePc = "returned" =>
          \/ measured = 0 /\ allocFailures > 0
          \/ calls = codeIterations /\ measured = Transferred(codeIterations, codeKb)
    /\ codePc \in {"alloc", "flush", "clear", "protect"} => calls = 0
    /\ codePc \notin {"off", "returned", "crashed"} => measured = 0
    /\ lost \in 0..allocFailures

LinesInv ==
    /\ lines \in Seq([kb : Nat, bytes : Nat, fetched : Nat, calls : Nat])
    /\ stage = "instructions" => Len(lines) = sizeIdx - 1
    /\ stage = "exit" => lines = <<>> \/ Len(lines) = Len(sizes)
    /\ stage \notin {"instructions", "exit"} => lines = <<>>
    /\ \A k \in 1..Len(lines) : lines[k].kb = sizes[k] /\ LineCounts(lines[k])

\* Which lines of the code may not be as written.
StaleInv ==
    /\ codePc \in {"protect", "call"} =>
         stale = IF OnArm /\ ~machine.coherent THEN {"return"} ELSE {}
    /\ codePc = "clear" => stale \subseteq {"rest", "return"}
    /\ codePc \in {"flush", "clear"} =>
         /\ OnArm
         /\ "return" \in stale <=> ~machine.coherent
         /\ stale \subseteq Lines
    /\ codePc = "crashed" => OnArm
-----------------------------------------------------------------------------
\* Where the last block of a full pass starts, and where its last load ends.
LastStart(len, s) == len - Ahead - 1 - ((len - Ahead - 1 - s * 8) % Steps)
FullReach(len, s) == LastStart(len, s) + Steps - 1 + Width8

\* A pass starts at the spacing and ends at its last block; until the first one
\* is complete, the loads are those of the blocks before rsi.
LoadsInv ==
    /\ rsi \in Nat /\ r9 \in Int /\ loads \in Nat /\ reach \in Nat
    /\ rsi >= spacing * 8 /\ rsi <= LastStart(length, spacing)
    /\ (LastStart(length, spacing) - rsi) % Steps = 0
    /\ reach <= FullReach(length, spacing)
    /\ reach = FullReach(length, spacing) \/ loads = 2 * (rsi - spacing * 8)
    /\ loads + r9 = TotalLoads

BankResultOK(r, s, k) ==
    /\ r.size = k /\ r.spacing = s
    /\ r.reach \in Nat /\ r.reach <= FullReach(BankSizes[k + 1], s)
    /\ r.loads >= 2 * (BankSizes[k + 1] - s * 8) => r.reach = FullReach(BankSizes[k + 1], s)
    /\ r.loads \in TotalLoads..(TotalLoads + 2 * Steps)

BankInv ==
    /\ bankPc \in {"off", "alloc", "call", "loop", "back", "returned"}
    /\ bankPc # "off" => stage = "banks"
    /\ bankIdx \in 0..testPoints /\ spacing \in 0..MaxSpacing
    /\ bankPc \in {"call", "loop", "back"} => bankIdx < testPoints
    /\ bankPc = "loop" => LoadsInv /\ r9 >= 0
    /\ bankPc = "back" => LoadsInv /\ r9 < 0 /\ r9 >= -(2 * Steps)
    /\ DOMAIN resultArr = 0..((MaxSpacing + 1) * testPoints - 1)
    /\ \A s \in 0..MaxSpacing, k \in 0..(testPoints - 1) :
          k < bankIdx \/ (bankPc \in {"call", "loop", "back"} /\ k = bankIdx /\ s < spacing)
             => BankResultOK(resultArr[BankCell(s, k)], s, k)
    /\ \A r \in BankResults :
          \E s \in 0..MaxSpacing, k \in 0..(testPoints - 1) : BankResultOK(r, s, k)
    /\ bankPc = "off" => bankIdx = 0 /\ bankTable = <<>>
    /\ bankPc = "alloc" => bankHeap = {"resultArr"}
    /\ bankPc \in {"call", "loop", "back"} => bankHeap = {"resultArr", "arr"}
    /\ bankPc # "returned" => bankTable = <<>>
    /\ BankTableIsOwn
-----------------------------------------------------------------------------
Step == [MainNext \/ Exited]_allVars

\* Which options are numbers.
LEMMA OptionTypes ==
    ASSUME LineInv, Parsing
    PROVE  /\ Option \in Options
           /\ HasValue /\ Current # "method" => Option.value \in Nat
           /\ HasValue /\ Current = "threads" => Option.value \in Nat \ {0}
           /\ argIdx + 1 \in 1..(Len(cmdline) + 1)
<1>1. argIdx \in 1..Len(cmdline) /\ Option \in Options
  BY DEF LineInv, Parsing, Option
<1>2. argIdx + 1 \in 1..(Len(cmdline) + 1)
  BY <1>1 DEF LineInv
<1>3. Current = "threads" => Option.value # 0
  BY <1>1 DEF LineInv, Current, Option
<1>4. Option.value \in Nat \cup {-1}
  BY <1>1 DEF Options, None
<1> HIDE DEF Option
<1> QED
  BY <1>1, <1>2, <1>3, <1>4 DEF HasValue, Current, None

\* The arguments of the code test and the data test.
LEMMA SizesTypes ==
    ASSUME args \in Args
    PROVE  /\ sizes \in Seq(Nat \ {0}) /\ Len(sizes) \in Nat \ {0}
           /\ \A k \in 1..Len(sizes) : sizes[k] \in Nat \ {0}
<1>1. CASE args.singleSize # 0
  BY <1>1 DEF sizes, Args
<1>2. CASE args.singleSize = 0
  <2>1. Len(TestSizes) # 0
    BY SizesAssumption
  <2> QED
    BY <1>2, <2>1, SizesAssumption DEF sizes
<1> QED
  BY <1>1, <1>2

LEMMA GbType ==
    ASSUME NEW gb \in Nat, NEW size \in Nat \ {0}
    PROVE  /\ GbAfter(gb, size) \in Nat
           /\ GetIterationCount(gb, size) \in Nat
           /\ GetIterationCount(gb, size) >= 8
<1>1. (gb * KbPerGb) \in Nat
  BY PlanAssumption
<1> DEFINE q == (gb * KbPerGb) \div size
<1>2. q \in Nat
  BY <1>1
<1> HIDE DEF q
<1>3. RoundUp(q) \in Nat
  BY <1>2 DEF RoundUp
<1> QED
  BY <1>3, PlanAssumption DEF GbAfter, GetIterationCount, q

\* The groups of actions, and what each leaves alone.
ParseStep == ParseFlag \/ ParseNumber \/ ParseMethod \/ ParseFails
CodeTestPart == CodeTest \/ CodeTestStep \/ EndCodeTest

LEMMA Parts ==
    ASSUME Step
    PROVE  \/ ParseStep \/ Choose \/ DataTest \/ IllegalInstruction
           \/ CodeTestPart \/ BankTest \/ UNCHANGED allVars
BY DEF Step, MainNext, Exited, ParseStep, CodeTestPart

LEMMA ParseLeaves ==
    ASSUME ParseStep
    PROVE  /\ Parsing /\ stage' \in {stage, "exit"}
           /\ UNCHANGED <<codeVars, bankVars, machine, cmdline, lines>>
           /\ ArgsOnly
BY DEF ParseStep, ParseFlag, ParseNumber, ParseMethod, ParseFails, NotTesting, Parsing

LEMMA CodeLeaves ==
    ASSUME CodeTestPart
    PROVE  /\ stage = "instructions" /\ stage' \in {stage, "exit"}
           /\ UNCHANGED <<args, threadIdx, pc, iterations, n, tstate, moved, heap, outVars>>
           /\ UNCHANGED <<createFailures, bankVars, machine, cmdline, argIdx, optionVars>>
           /\ UNCHANGED gbToTransfer \/ gbToTransfer' = GbAfter(gbToTransfer, testSize)
<1>1. CASE CodeTest
  BY <1>1 DEF CodeTest, loopVars, outVars, failVars, mainVars
<1>2. CASE CodeTestStep
  BY <1>2 DEF CodeTestStep, CodeStep, loopVars, testVars, outVars, failVars, AllocFailure,
     FillCode, FlushICache, ClearCache, Protect, CallCode, EndCode, AllocCodeFails,
     ProtectFails
<1>3. CASE EndCodeTest
  BY <1>3 DEF EndCodeTest, testVars, failVars
<1> QED
  BY <1>1, <1>2, <1>3 DEF CodeTestPart
-----------------------------------------------------------------------------
LEMMA InitLine ==
    ASSUME MainInit
    PROVE  LineInv
<1>1. PICK r \in Runs : machine = r.machine /\ cmdline = r.cmdline
  BY DEF MainInit
<1>2. /\ machine \in Machines /\ cmdline \in Seq(Options)
      /\ \A k \in 1..Len(cmdline) : cmdline[k].opt = "threads" => cmdline[k].value # 0
  BY <1>1, RunsAssumption
<1>3. args \in Args /\ gbToTransfer \in Nat
  BY DEF MainInit, Init, NoOption, Args, DefaultGb
<1>4. argIdx \in 1..(Len(cmdline) + 1)
  <2>1. Len(cmdline) \in Nat
    BY <1>2
  <2> QED
    BY <2>1 DEF MainInit
<1> QED
  BY <1>2, <1>3, <1>4 DEF MainInit, LineInv

LEMMA StepLine ==
    ASSUME LineInv, sizeIdx \in 1..Len(sizes), Step
    PROVE  LineInv'
<1>1. testSize \in Nat \ {0}
  BY SizesTypes DEF LineInv, testSize
<1>2. /\ GbAfter(gbToTransfer, testSize) \in Nat
  BY <1>1, GbType DEF LineInv
<1>3. CASE ParseStep
  <2>1. UNCHANGED <<machine, cmdline>> /\ stage' \in {stage, "exit"}
    BY <1>3, ParseLeaves
  <2>2. argIdx' \in 1..(Len(cmdline) + 1)
    BY <1>3, OptionTypes
       DEF ParseStep, ParseFlag, ParseNumber, ParseMethod, ParseFails, LineInv
  <2>3. args' \in Args /\ gbToTransfer' \in Nat
    <3>1. CASE ParseFlag
      BY <3>1 DEF ParseFlag, LineInv, Args
    <3>2. CASE ParseNumber
      <4>1. Option.value \in Nat /\ (Current = "threads" => Option.value # 0)
        BY <3>2, OptionTypes DEF ParseNumber
      <4>2. CASE Current \in {"threads", "autothreads"} /\ args' = [args EXCEPT ![Current] = Option.value] /\ UNCHANGED gbToTransfer
        <5>1. CASE Current = "threads"
          BY <4>1, <4>2, <5>1 DEF LineInv, Args
        <5>2. CASE Current = "autothreads"
          BY <4>1, <4>2, <5>2 DEF LineInv, Args
        <5> QED
          BY <4>2, <5>1, <5>2
      <4>3. CASE args' = [args EXCEPT !.singleSize = Option.value] /\ UNCHANGED gbToTransfer
        BY <4>1, <4>3 DEF LineInv, Args
      <4>4. CASE gbToTransfer' = Option.value /\ UNCHANGED args
        BY <4>1, <4>4 DEF LineInv
      <4> QED
        BY <3>2, <4>2, <4>3, <4>4 DEF ParseNumber, LineInv
    <3> QED
      BY <1>3, <3>1, <3>2 DEF ParseStep, ParseMethod, ParseFails, LineInv
  <2> QED
    BY <2>1, <2>2, <2>3 DEF LineInv
<1>4. CASE Choose
  BY <1>4 DEF Choose, NotTesting, LineInv
<1>5. CASE DataTest
  <2>1. UNCHANGED mainVars
    BY <1>5 DEF DataTest
  <2>2. UNCHANGED args /\ gbToTransfer' \in {gbToTransfer, GbAfter(gbToTransfer, testSize)}
    BY <1>5 DEF DataTest, Main, AThread, StartTest, TooManyThreads, Alloc, AllocFails,
       CreateThread, CreateThreadFails, Join, JoinGarbage, Report, PrintTable, RunKernel,
       Return, loopVars, testVars
  <2> QED
    BY <1>2, <2>1, <2>2 DEF mainVars, LineInv
<1>6. CASE IllegalInstruction
  BY <1>6 DEF IllegalInstruction, LineInv, vars, loopVars, testVars
<1>7. CASE CodeTestPart
  BY <1>2, <1>7, CodeLeaves DEF LineInv
<1>8. CASE BankTest
  BY <1>8 DEF BankTest, mainVars, loopVars, testVars, LineInv
<1>9. CASE UNCHANGED allVars
  BY <1>9 DEF allVars, mainVars, vars, loopVars, testVars, LineInv
<1> QED
  BY <1>3, <1>4, <1>5, <1>6, <1>7, <1>8, <1>9, Parts
-----------------------------------------------------------------------------
\* The names seen grow by the option that is read.
LEMMA SeenGrows ==
    ASSUME LineInv, Parsing
    PROVE  Seen(argIdx + 1) = Seen(argIdx) \cup (IF Current = "method" THEN {Option.name} ELSE {})
<1>1. argIdx \in Nat \ {0}
  BY DEF LineInv
<1>2. 1..(argIdx + 1 - 1) = 1..(argIdx - 1) \cup {argIdx}
  BY <1>1
<1> QED
  BY <1>2 DEF Seen, Current, Option

LEMMA SameSeen ==
    ASSUME UNCHANGED <<cmdline, argIdx>>
    PROVE  Seen(argIdx)' = Seen(argIdx)
BY DEF Seen

LEMMA SameKernels ==
    ASSUME UNCHANGED machine
    PROVE  /\ \A m : KernelOf(m)' = KernelOf(m)
           /\ BestKernel' = BestKernel
           /\ bw_func' = bw_func => Runnable' = Runnable
BY DEF KernelOf, BestKernel, Runnable, Needs, Avx512Or, Has

LEMMA BestKernelRuns ==
    ASSUME bw_func = IF machine.arch = "x86" THEN BestKernel ELSE "asm_read",
           machine \in Machines
    PROVE  Runnable
<1>1. machine.arch \in {"x86", "arm"}
  BY MachineAssumption
<1> QED
  BY <1>1 DEF Runnable, Needs, BestKernel, Has

LEMMA InitMethod ==
    ASSUME MainInit
    PROVE  MethodInv
<1>1. Seen(1) = {}
  <2>1. 1..(1 - 1) = {}
    OBVIOUS
  <2> QED
    BY <2>1 DEF Seen
<1> QED
  BY <1>1 DEF MainInit, MethodInv

LEMMA StepMethod ==
    ASSUME LineInv, MethodInv, Step
    PROVE  MethodInv'
<1>1. CASE ParseStep
  <2>1. Parsing /\ stage = "parse" /\ UNCHANGED machine
    BY <1>1, ParseLeaves DEF Parsing
  <2>2. CASE ParseFails
    BY <2>1, <2>2, SameSeen, SameKernels DEF ParseFails, NotTesting, optionVars, MethodInv
  <2>3. CASE ParseFlag \/ ParseNumber
    <3>1. Seen(argIdx)' = Seen(argIdx)
      <4>1. Current # "method"
        BY <2>3 DEF ParseFlag, ParseNumber
      <4>2. Seen(argIdx)' = Seen(argIdx + 1)
        BY <2>3 DEF ParseFlag, ParseNumber, NotTesting, Seen
      <4> QED
        BY <2>1, <4>1, <4>2, SeenGrows
    <3> QED
      BY <2>1, <2>3, <3>1, SameKernels
         DEF ParseFlag, ParseNumber, optionVars, MethodInv
  <2>4. CASE ParseMethod
    <3>1. Seen(argIdx)' = Seen(argIdx) \cup {Option.name}
      <4>1. Seen(argIdx)' = Seen(argIdx + 1)
        BY <2>4 DEF ParseMethod, NotTesting, Seen
      <4> QED
        BY <2>1, <2>4, <4>1, SeenGrows DEF ParseMethod
    <3>2. ASSUME NEW m, Seen(argIdx)' = {m}
          PROVE  bw_func' = KernelOf(m)
      <4>1. Option.name = m /\ (Seen(argIdx) = {} \/ Seen(argIdx) = {m})
        BY <3>1, <3>2
      <4>2. bw_func = "asm_read" \/ bw_func = KernelOf(m)
        BY <2>1, <4>1 DEF MethodInv
      <4>3. bw_func' = KernelFor(m)
        BY <2>4, <4>1 DEF ParseMethod
      <4> QED
        BY <4>2, <4>3 DEF KernelFor, KernelOf
    <3>3. /\ methodSet' = TRUE
          /\ testInstructionBandwidth' = (testInstructionBandwidth
                                          \/ Option.name \in {"instr8", "instr4"})
          /\ testBankConflict' = (testBankConflict
                \/ (machine.arch = "x86" /\ Option.name = "readbankconflict"))
          /\ stage' = stage
      BY <2>4 DEF ParseMethod
    <3> HIDE DEF Option
    <3>4. /\ Seen(argIdx)' # {}
          /\ testInstructionBandwidth' <=>
                \E m \in Seen(argIdx)' : m \in {"instr8", "instr4"}
          /\ testBankConflict' <=>
                (machine.arch = "x86" /\ "readbankconflict" \in Seen(argIdx)')
      BY <3>1, <3>3 DEF MethodInv
    <3> QED
      BY <2>1, <3>2, <3>3, <3>4, SameKernels DEF MethodInv
  <2> QED
    BY <1>1, <2>2, <2>3, <2>4 DEF ParseStep
<1>2. CASE Choose
  <2>1. UNCHANGED <<machine, cmdline, argIdx, methodSet, testInstructionBandwidth,
                    testBankConflict>>
    BY <1>2 DEF Choose, NotTesting
  <2>2. stage = "parse" /\ argIdx = Len(cmdline) + 1
    BY <1>2 DEF Choose, LineInv
  <2>3. /\ bw_func' = IF ~methodSet /\ machine.arch = "x86" THEN BestKernel ELSE bw_func
        /\ stage' = IF testInstructionBandwidth THEN "instructions"
                    ELSE IF testBankConflict THEN "banks" ELSE "data"
    BY <1>2 DEF Choose
  <2> QED
    BY <2>1, <2>2, <2>3, SameSeen, SameKernels DEF MethodInv
<1>3. CASE DataTest \/ BankTest \/ UNCHANGED allVars
  BY <1>3, SameSeen, SameKernels DEF DataTest, BankTest, allVars, mainVars, optionVars, MethodInv
<1>4. CASE IllegalInstruction
  BY <1>4, SameSeen, SameKernels DEF IllegalInstruction, optionVars, MethodInv
<1>5. CASE CodeTestPart
  BY <1>5, CodeLeaves, SameSeen, SameKernels DEF optionVars, MethodInv
<1> QED
  BY <1>1, <1>2, <1>3, <1>4, <1>5, Parts

\* For every processor and command line the method asked for is measured, but
\* for the exceptions of MeasuresTheMethod, and never one it cannot run without
\* having been asked for it.
LEMMA MethodIsMeasured ==
    ASSUME LineInv, MethodInv
    PROVE  MeasuresTheMethod
<1> SUFFICES ASSUME stage \notin {"parse", "exit"}
             PROVE  MeasuresTheMethod
  BY DEF MeasuresTheMethod
<1>1. Named = Seen(argIdx)
  <2>1. argIdx - 1 = Len(cmdline)
    BY DEF MethodInv, LineInv
  <2> QED
    BY <2>1 DEF Named, Seen
<1>2. machine \in Machines /\ machine.arch \in {"x86", "arm"}
  BY MachineAssumption DEF LineInv
<1>3. ASSUME Named = {}
      PROVE  Runnable /\ bw_func = IF machine.arch = "x86" THEN BestKernel ELSE "asm_read"
  BY <1>1, <1>2, <1>3, BestKernelRuns DEF MethodInv
<1>4. ASSUME Named = {}, machine.arch = "x86", NEW k \in 1..4, bw_func = Reads[k],
             NEW j \in (k + 1)..4
      PROVE  ~(Needs(Reads[j]) \subseteq machine.features)
  <2>1. bw_func = BestKernel
    BY <1>3, <1>4
  <2> QED
    BY <1>4, <2>1 DEF BestKernel, Has, Needs, Reads
<1>5. stage = "killed" => Named # {}
  BY <1>3 DEF MethodInv
<1>6. ASSUME NEW name \in Methods, Named = {name}
      PROVE  IF OnArm /\ name \in X86Only THEN stage = "data" /\ bw_func = "asm_read"
             ELSE CASE name = "readbankconflict" -> stage = "banks"
                    [] name \in {"instr8", "instr4"} -> stage = "instructions"
                    [] OTHER -> /\ stage \in {"data", "killed"}
                                /\ AccessBy(bw_func) = Access(name)
  <2>1. /\ bw_func = KernelOf(name)
        /\ testInstructionBandwidth <=> name \in {"instr8", "instr4"}
        /\ testBankConflict <=> (machine.arch = "x86" /\ name = "readbankconflict")
    BY <1>1, <1>6 DEF MethodInv
  <2>2. /\ stage = "instructions" <=> name \in {"instr8", "instr4"}
        /\ stage = "banks" <=> (machine.arch = "x86" /\ name = "readbankconflict")
        /\ stage \in {"data", "instructions", "banks", "killed"}
    BY <2>1 DEF MethodInv, LineInv
  <2>3. CASE OnArm /\ name \in X86Only
    <3>1. bw_func = "asm_read"
      BY <2>1, <2>3 DEF KernelOf, OnArm, X86Only
    <3>2. stage # "killed"
      BY <2>3 DEF MethodInv, Runnable, Needs, OnArm
    <3> QED
      BY <2>2, <2>3, <3>1, <3>2 DEF OnArm, X86Only
  <2>4. CASE ~(OnArm /\ name \in X86Only)
    <3>1. CASE name \in {"readbankconflict", "instr8", "instr4"}
      BY <1>2, <2>2, <2>4, <3>1 DEF OnArm, X86Only
    <3>2. CASE name \notin {"readbankconflict", "instr8", "instr4"}
      <4>1. AccessBy(bw_func) = Access(name)
        <5>1. (\E k \in 1..4 : bw_func = Reads[k])
                <=> bw_func \in {"scalar_read", "sse_read", "asm_read", "avx512_read"}
          <6>1. \A k \in 1..4 : k \in {1, 2, 3, 4}
            OBVIOUS
          <6> QED
            BY <6>1 DEF Reads
        <5>2. CASE name \in {"scalar", "asm", "sse", "avx512"}
          <6>1. bw_func \in {"scalar_read", "sse_read", "asm_read", "avx512_read"}
            BY <1>2, <2>1, <2>4, <5>2 DEF KernelOf, X86Only, OnArm
          <6> QED
            BY <5>1, <5>2, <6>1 DEF AccessBy, Access
        <5>3. CASE name \in {"write", "sse_write"}
          <6>1. bw_func \in {"asm_write", "sse_write", "avx512_write"}
            BY <1>2, <2>1, <2>4, <5>3 DEF KernelOf, Avx512Or, X86Only, OnArm
          <6> QED
            BY <5>1, <5>3, <6>1 DEF AccessBy, Access
        <5>4. CASE name \in {"copy", "add", "cflip"}
          <6>1. \/ name = "copy" /\ bw_func \in {"asm_copy", "avx512_copy"}
                \/ name = "add" /\ bw_func \in {"asm_add", "avx512_add"}
                \/ name = "cflip" /\ bw_func = "asm_cflip"
            BY <2>1, <5>4 DEF KernelOf, Avx512Or
          <6> QED
            BY <5>1, <6>1 DEF AccessBy, Access
        <5> QED
          BY <1>6, <3>2, <5>2, <5>3, <5>4 DEF Methods
      <4> QED
        BY <2>2, <2>4, <3>2, <4>1
    <3> QED
      BY <3>1, <3>2
  <2> QED
    BY <2>3, <2>4
<1> QED
  BY <1>3, <1>4, <1>5, <1>6 DEF MeasuresTheMethod
-----------------------------------------------------------------------------
LEMMA SameArgs ==
    ASSUME UNCHANGED args
    PROVE  sizes' = sizes /\ auto' = auto /\ lastRound' = lastRound
BY DEF sizes, auto, lastRound

LEMMA SameTest ==
    ASSUME UNCHANGED loopVars
    PROVE  /\ UNCHANGED <<args, threadIdx, sizeIdx>>
           /\ sizes' = sizes /\ auto' = auto /\ lastRound' = lastRound
           /\ testSize' = testSize /\ threads' = threads /\ elements' = elements
           /\ Test' = Test /\ Tables' = Tables /\ Blocks' = Blocks
           /\ \A t : Array(t)' = Array(t)
BY DEF loopVars, sizes, auto, lastRound, testSize, threads, elements, Test, Tables, Blocks,
       Array

\* The numbers of a test.
LEMMA TestTypes ==
    ASSUME LineInv, LoopInv
    PROVE  /\ testSize \in Nat \ {0} /\ threads \in Nat \ {0}
           /\ lastRound \in Nat \ {0} /\ Len(sizes) \in Nat \ {0}
           /\ threads <= Max(args.threads, args.autothreads) \/ pc \in {"print", "done"}
           /\ Max(args.threads, args.autothreads) \in Nat \ {0}
<1>1. testSize \in Nat \ {0} /\ Len(sizes) \in Nat \ {0}
  BY SizesTypes DEF LineInv, LoopInv, testSize
<1>2. /\ threads \in Nat \ {0} /\ lastRound \in Nat \ {0}
      /\ Max(args.threads, args.autothreads) \in Nat \ {0}
  BY DEF LineInv, LoopInv, Args, threads, auto, lastRound, Max
<1>3. threads <= Max(args.threads, args.autothreads) \/ pc \in {"print", "done"}
  BY DEF LineInv, LoopInv, Args, threads, auto, lastRound, Max
<1> QED
  BY <1>1, <1>2, <1>3

LEMMA WorkType ==
    ASSUME LineInv, LoopInv
    PROVE  /\ elements \in Nat
           /\ ThreadIterations(iterations, threads, args.shared) \in Nat
           /\ work \in Nat
<1>1. /\ testSize \in Nat \ {0} /\ threads \in Nat \ {0}
      /\ iterations \in Nat /\ args.shared \in BOOLEAN
  BY TestTypes DEF LineInv, LoopInv, Args
<1>2. KbPerThread(testSize, threads) \in Nat
  <2>1. testSize + threads - 1 \in Nat
    BY <1>1
  <2> HIDE DEF testSize, threads
  <2> QED
    BY <1>1, <2>1 DEF KbPerThread
<1>3. elements \in Nat
  BY <1>1, <1>2 DEF elements, Elements, KbElems
<1>4. ThreadIterations(iterations, threads, args.shared) \in Nat
  BY <1>1 DEF ThreadIterations
<1> QED
  BY <1>3, <1>4 DEF work

\* Where main() is after MeasureBw() has returned.
LEMMA ReturnPlace ==
    ASSUME LineInv, LoopInv, NEW c, Return(c), pc \notin {"print", "done"}
    PROVE  /\ UNCHANGED args
           /\ pc' \in {"test", "print"}
           /\ sizeIdx' \in 1..Len(sizes) /\ threadIdx' \in Nat \ {0}
           /\ IF pc' = "print" THEN threadIdx' = lastRound + 1 /\ sizeIdx' = 1
                               ELSE threadIdx' <= lastRound
<1>1. /\ sizeIdx \in 1..Len(sizes) /\ threadIdx \in Nat \ {0}
      /\ threadIdx <= lastRound /\ lastRound \in Nat \ {0} /\ Len(sizes) \in Nat \ {0}
  BY TestTypes DEF LoopInv
<1>2. /\ UNCHANGED args
      /\ pc' = IF sizeIdx < Len(sizes) \/ threadIdx < lastRound THEN "test" ELSE "print"
      /\ IF sizeIdx < Len(sizes) THEN sizeIdx' = sizeIdx + 1 /\ threadIdx' = threadIdx
         ELSE sizeIdx' = 1 /\ threadIdx' = threadIdx + 1
  BY DEF Return, NextRound
<1> HIDE DEF sizes, lastRound
<1> QED
  BY <1>1, <1>2

\* The actions of the data test that go on with the same test.
WithinTest == \/ StartTest \/ Alloc \/ CreateThread \/ CreateThreadFails
              \/ Join \/ JoinGarbage \/ AThread
LeaveTest == TooManyThreads \/ AllocFails \/ Report

LEMMA DataParts ==
    ASSUME DataTest
    PROVE  /\ WithinTest \/ LeaveTest \/ PrintTable
           /\ stage = "data" /\ UNCHANGED <<codeVars, bankVars, mainVars>>
BY DEF DataTest, Main, WithinTest, LeaveTest

LEMMA LeaveParts ==
    ASSUME LeaveTest
    PROVE  /\ \/ pc = "alloc" /\ Return(0)
              \/ pc = "report" /\ Return(Counted)
           /\ UNCHANGED <<gbToTransfer, iterations, n, tstate, moved, createFailures>>
           /\ allocFailures' \in {allocFailures, allocFailures + 1}
BY DEF LeaveTest, TooManyThreads, AllocFails, Report, testVars, failVars

LEMMA InitLoop ==
    ASSUME MainInit, LineInv
    PROVE  LoopInv
<1>1. /\ pc = "test" /\ iterations = 0 /\ moved = 0 /\ threadIdx = 1 /\ sizeIdx = 1 /\ n = 1
      /\ createFailures = 0 /\ allocFailures = 0 /\ args = NoOption
  BY DEF MainInit, Init
<1>2. Len(sizes) \in Nat \ {0}
  BY SizesTypes DEF LineInv
<1> QED
  BY <1>1, <1>2 DEF LoopInv, NoOption, Max, lastRound, auto, threads, Idle

LEMMA StepLoop ==
    ASSUME LineInv, LoopInv, LineInv', Step
    PROVE  LoopInv'
<1>1. CASE ParseStep
  <2>1. /\ stage = "parse" /\ stage' \in {stage, "exit"}
        /\ UNCHANGED <<pc, threadIdx, sizeIdx, iterations, n, moved, failVars>>
    BY <1>1, ParseLeaves DEF ArgsOnly, Parsing
  <2>2. args' \in Args /\ Len(sizes') \in Nat \ {0}
    <3>1. args' \in Args
      BY DEF LineInv
    <3>2. sizes' = TestSizes \/ \E kb : sizes' = <<kb>>
      BY DEF sizes
    <3>3. Len(TestSizes) \in Nat \ {0} /\ \A kb : Len(<<kb>>) = 1
      BY SizesAssumption
    <3>4. Len(sizes') \in Nat \ {0}
      BY <3>2, <3>3
    <3> QED
      BY <3>1, <3>4
  <2>3. 1 <= Max(args'.threads, args'.autothreads) /\ 1 <= lastRound'
    BY <2>2 DEF Args, Max, lastRound, auto
  <2>4. /\ sizeIdx = 1 /\ threadIdx = 1 /\ n = 1 /\ pc = "test" /\ iterations \in Nat
        /\ moved \in Nat /\ createFailures \in Nat /\ allocFailures \in Nat
    BY <2>1 DEF LoopInv
  <2> QED
    BY <2>1, <2>2, <2>3, <2>4 DEF LoopInv, failVars, Idle
<1>2. CASE Choose
  <2>1. /\ stage = "parse" /\ UNCHANGED loopVars
        /\ UNCHANGED <<pc, iterations, n, moved, failVars>>
        /\ stage' \in {"instructions", "banks", "data"}
    BY <1>2 DEF Choose, NotTesting, loopVars
  <2> QED
    BY <2>1, SameTest DEF LoopInv, failVars, Idle
<1>3. CASE DataTest
  <2>1. stage = "data" /\ stage' = "data"
    BY <1>3, DataParts DEF mainVars
  <2>2. CASE WithinTest
    <3>1. UNCHANGED loopVars
      BY <2>2 DEF WithinTest, StartTest, Alloc, CreateThread, CreateThreadFails, Join,
                  JoinGarbage, AThread, RunKernel
    <3>2. threads \in Nat \ {0} /\ pc \in {"test", "alloc", "create", "join", "crashed"}
               => threads <= Max(args.threads, args.autothreads)
      BY TestTypes
    <3>3. /\ pc' \in {"test", "alloc", "create", "join", "report", "print", "done", "crashed"}
          /\ n' \in Nat \ {0} /\ n' <= Max(args.threads, args.autothreads)
          /\ (~Idle)' => n' <= threads
          /\ pc' \in {"print", "done"} <=> pc \in {"print", "done"}
      <4>1. n \in Nat \ {0} /\ n <= Max(args.threads, args.autothreads) /\ (~Idle => n <= threads)
        BY DEF LoopInv
      <4>2. threads \in Nat \ {0} /\ Max(args.threads, args.autothreads) \in Nat \ {0}
        BY TestTypes
      <4>3. CASE StartTest
        BY <4>2, <4>3 DEF StartTest
      <4>4. CASE Alloc
        <5>1. /\ n <= threads /\ threads <= Max(args.threads, args.autothreads)
              /\ \/ pc' = "create" /\ n' = 1
                 \/ n # threads /\ n' = n + 1 /\ pc' = pc /\ pc = "alloc"
          BY <3>2, <4>1, <4>2, <4>4 DEF Alloc, Idle
        <5> QED
          BY <4>1, <4>2, <4>4, <5>1 DEF Alloc, Idle
      <4>5. CASE CreateThread \/ CreateThreadFails \/ Join \/ JoinGarbage
        BY <3>2, <4>1, <4>2, <4>5
           DEF CreateThread, CreateThreadFails, NextThread, Join, JoinGarbage, NextJoin, Idle
      <4>6. CASE AThread
        BY <4>1, <4>6 DEF AThread, RunKernel, LoopInv, Idle
      <4> QED
        BY <2>2, <4>3, <4>4, <4>5, <4>6 DEF WithinTest
    <3>4. iterations' \in Nat /\ moved' \in Nat
      <4>1. CASE StartTest
        <5>1. testSize \in Nat \ {0} /\ gbToTransfer' \in Nat
          BY TestTypes DEF LineInv
        <5> QED
          BY <4>1, <5>1, GbType DEF StartTest
      <4>2. CASE AThread
        BY <4>2, WorkType DEF AThread, RunKernel, LoopInv
      <4> QED
        BY <2>2, <4>1, <4>2 DEF WithinTest, Alloc, CreateThread, CreateThreadFails, Join,
           JoinGarbage, LoopInv
    <3>5. createFailures' \in Nat /\ allocFailures' \in Nat
      BY <2>2 DEF WithinTest, StartTest, Alloc, CreateThread, CreateThreadFails, Join,
         JoinGarbage, AThread, RunKernel, failVars, LoopInv
    <3> QED
      BY <2>1, <3>1, <3>3, <3>4, <3>5, SameTest DEF LoopInv
  <2>3. CASE LeaveTest
    <3>1. pc \notin {"print", "done"} /\ \E c : Return(c)
      BY <2>3, LeaveParts
    <3>2. PICK c : Return(c)
      BY <3>1
    <3>3. UNCHANGED <<iterations, n, moved, createFailures>> /\ allocFailures' \in Nat
      BY <2>3, LeaveParts DEF LoopInv
    <3> QED
      BY <2>1, <3>1, <3>2, <3>3, ReturnPlace, SameArgs DEF LoopInv, Idle
  <2>4. CASE PrintTable
    <3>1. /\ UNCHANGED loopVars /\ UNCHANGED <<iterations, n, moved, failVars>>
          /\ pc = "print" /\ pc' = "done"
      BY <2>4 DEF PrintTable, testVars
    <3> QED
      BY <2>1, <3>1, SameTest DEF LoopInv, failVars, Idle
  <2> QED
    BY <1>3, <2>2, <2>3, <2>4, DataParts
<1>4. CASE IllegalInstruction \/ BankTest \/ UNCHANGED allVars
  <2>1. /\ UNCHANGED loopVars /\ UNCHANGED <<pc, iterations, n, moved, createFailures>>
        /\ stage' = stage \/ (stage = "data" /\ stage' = "killed")
    BY <1>4 DEF IllegalInstruction, BankTest, allVars, vars, testVars, failVars, mainVars
  <2>2. allocFailures' \in Nat
    BY <1>4 DEF IllegalInstruction, BankTest, AllocFailure, allVars, vars, failVars, LoopInv
  <2> QED
    BY <2>1, <2>2, SameTest DEF LoopInv, Idle
<1>5. CASE CodeTestPart
  <2>1. /\ UNCHANGED <<args, threadIdx, pc, iterations, n, moved, createFailures>>
        /\ stage = "instructions" /\ stage' \in {"instructions", "exit"}
    BY <1>5, CodeLeaves
  <2>2. sizeIdx' \in 1..Len(sizes) /\ allocFailures' \in Nat
    <3>1. /\ sizeIdx \in 1..Len(sizes) /\ allocFailures \in Nat
          /\ Len(sizes) \in Nat \ {0}
      BY <2>1, TestTypes DEF LoopInv
    <3>2. CASE CodeTest
      BY <3>1, <3>2 DEF CodeTest, failVars
    <3>3. CASE CodeTestStep
      BY <3>1, <3>3 DEF CodeTestStep, AllocFailure, loopVars, failVars
    <3>4. CASE EndCodeTest
      BY <3>1, <3>4 DEF EndCodeTest, failVars
    <3> QED
      BY <1>5, <3>2, <3>3, <3>4 DEF CodeTestPart
  <2> QED
    BY <2>1, <2>2, SameArgs DEF LoopInv, Idle
<1> QED
  BY <1>1, <1>2, <1>3, <1>4, <1>5, Parts
-----------------------------------------------------------------------------
LEMMA InitThreads ==
    ASSUME MainInit
    PROVE  ThreadInv
BY DEF MainInit, Init, NoThreads, ThreadInv, Idle

\* Outside the data test no thread runs.
LEMMA OutsideData ==
    ASSUME LineInv, LoopInv, Step, ~DataTest
    PROVE  \/ /\ pc = "test" /\ pc' = "test"
              /\ UNCHANGED <<moved, heap, printed, createFailures, iterations>>
              /\ UNCHANGED tstate \/ tstate' = NoThreads
              /\ ParseStep \/ Choose \/ BankTest \/ CodeTestPart
           \/ UNCHANGED <<vars, stage>>
           \/ IllegalInstruction
<1>1. CASE ParseStep
  BY <1>1, ParseLeaves DEF ArgsOnly, LoopInv, Parsing, failVars
<1>2. CASE Choose
  BY <1>2 DEF Choose, LoopInv, failVars
<1>3. CASE BankTest
  BY <1>3 DEF BankTest, LoopInv, testVars, outVars, failVars, AllocFailure
<1>4. CASE CodeTestPart
  BY <1>4, CodeLeaves DEF LoopInv, outVars
<1>5. CASE UNCHANGED allVars
  BY <1>5 DEF allVars, mainVars
<1> QED
  BY <1>1, <1>2, <1>3, <1>4, <1>5, Parts

LEMMA StepThreads ==
    ASSUME LineInv, LoopInv, ThreadInv, Step
    PROVE  ThreadInv'
<1>1. CASE ~DataTest
  <2>1. CASE pc = "test" /\ pc' = "test" /\ tstate' \in {tstate, NoThreads}
    BY <2>1 DEF ThreadInv, Idle, NoThreads
  <2>2. CASE UNCHANGED vars
    BY <2>2, SameTest DEF vars, testVars, failVars, ThreadInv, Idle, Launched
  <2> QED
    BY <1>1, <2>1, <2>2, OutsideData DEF IllegalInstruction
<1>2. CASE DataTest
  <2> USE DEF Launched
  <2>1. n \in Nat \ {0} /\ threads \in Nat \ {0} /\ (~Idle => n <= threads)
    BY TestTypes DEF LoopInv
  <2>2. CASE StartTest
    <3>1. pc' = "alloc" /\ tstate' = [t \in 1..threads |-> "none"] /\ threads' = threads
      BY <2>2, SameTest DEF StartTest, NoThreads
    <3> QED
      BY <3>1 DEF ThreadInv, Idle
  <2>3. CASE Alloc
    <3>1. /\ pc = "alloc" /\ tstate' = tstate /\ threads' = threads
          /\ pc' = "alloc" \/ (pc' = "create" /\ n' = 1)
      BY <2>3, SameTest DEF Alloc
    <3> QED
      BY <3>1 DEF ThreadInv, Idle
  <2>4. CASE CreateThread \/ CreateThreadFails
    <3>1. /\ pc = "create" /\ threads' = threads /\ n \in 1..threads
          /\ IF n = threads THEN pc' = "join" /\ n' = 1 ELSE n' = n + 1 /\ pc' = pc
      BY <2>1, <2>4, SameTest DEF CreateThread, CreateThreadFails, NextThread, Idle
    <3>2. DOMAIN tstate = 1..threads /\ \A t \in n..threads : tstate[t] = "none"
      BY <3>1 DEF ThreadInv, Idle
    <3> HIDE DEF threads
    <3>3. CASE CreateThread
      <4>1. tstate' = [tstate EXCEPT ![n] = "running"] /\ createFailures' = createFailures
        BY <3>3 DEF CreateThread, failVars
      <4>2. DOMAIN tstate' = 1..threads /\ \A t \in 1..threads :
               tstate'[t] = IF t = n THEN "running" ELSE tstate[t]
        BY <3>2, <4>1
      <4>3. \A t \in 1..threads : tstate[t] \in {"none", "running", "exited"}
        BY <3>2 DEF ThreadInv
      <4>4. createFailures = 0 => \A t \in 1..(n - 1) : tstate[t] # "none"
        BY <3>1 DEF ThreadInv
      <4> QED
        BY <2>1, <3>1, <3>2, <4>1, <4>2, <4>3, <4>4 DEF ThreadInv, Idle
    <3>4. CASE CreateThreadFails
      <4>1. tstate' = tstate /\ createFailures' = createFailures + 1
        BY <3>4 DEF CreateThreadFails
      <4>2. createFailures' # 0
        BY <4>1 DEF LoopInv
      <4> QED
        BY <2>1, <3>1, <3>2, <4>1, <4>2 DEF ThreadInv, Idle
    <3> QED
      BY <2>4, <3>3, <3>4
  <2>5. CASE Join \/ JoinGarbage
    <3>1. /\ pc = "join" /\ threads' = threads /\ n \in 1..threads
          /\ tstate' = tstate /\ createFailures' = createFailures
          /\ tstate[n] # "running"
          /\ \/ n = threads /\ pc' = "report" /\ n' = n
             \/ n # threads /\ pc' = "join" /\ n' = n + 1
             \/ pc' = "crashed" /\ n' = n
      BY <2>1, <2>5, SameTest
         DEF Join, JoinGarbage, Joinable, NextJoin, failVars, Idle
    <3>2. \A t \in 1..(n - 1) : tstate[t] # "running"
      BY <3>1 DEF ThreadInv
    <3>3. \A t \in 1..n : tstate[t] # "running"
      BY <2>1, <3>1, <3>2
    <3> HIDE DEF threads
    <3> QED
      BY <2>1, <3>1, <3>3 DEF ThreadInv, Idle
  <2>6. CASE AThread
    <3>1. PICK t \in DOMAIN tstate : tstate[t] = "running"
                                     /\ tstate' = [tstate EXCEPT ![t] = "exited"]
      BY <2>6 DEF AThread, RunKernel
    <3>2. pc' = pc /\ n' = n /\ createFailures' = createFailures /\ threads' = threads
      BY <2>6, SameTest DEF AThread, RunKernel, failVars
    <3>3. DOMAIN tstate' = DOMAIN tstate /\ \A u \in DOMAIN tstate :
             tstate'[u] = IF u = t THEN "exited" ELSE tstate[u]
      BY <3>1
    <3>4. ~Idle /\ pc # "report" /\ DOMAIN tstate = 1..threads
      BY <3>1 DEF ThreadInv
    <3>5. 1..(n - 1) \subseteq 1..threads /\ n..threads \subseteq 1..threads
      BY <2>1, <3>4
    <3> HIDE DEF threads
    <3>6. \A u \in 1..threads : /\ tstate[u] = "none" => tstate'[u] = "none"
                                /\ tstate[u] # "none" => tstate'[u] # "none"
                                /\ tstate[u] # "running" => tstate'[u] # "running"
                                /\ tstate'[u] \in {"none", "running", "exited"}
      BY <3>1, <3>3, <3>4 DEF ThreadInv
    <3> QED
      BY <3>2, <3>3, <3>4, <3>5, <3>6 DEF ThreadInv, Idle
  <2>7. CASE LeaveTest
    <3>1. pc' \in {"test", "print"} /\ tstate' = tstate
      BY <2>7, LeaveParts DEF Return
    <3>2. \A t \in DOMAIN tstate : tstate[t] # "running"
      BY <2>7, LeaveParts DEF ThreadInv, Idle
    <3> QED
      BY <3>1, <3>2 DEF ThreadInv, Idle
  <2>8. CASE PrintTable
    BY <2>8 DEF PrintTable, testVars, ThreadInv, Idle
  <2> QED
    BY <1>2, <2>2, <2>3, <2>4, <2>5, <2>6, <2>7, <2>8, DataParts DEF WithinTest
<1> QED
  BY <1>1, <1>2
-----------------------------------------------------------------------------
LEMMA InitHeap ==
    ASSUME MainInit
    PROVE  HeapInv
BY DEF MainInit, Init, HeapInv, Working

LEMMA StepHeap ==
    ASSUME LineInv, LoopInv, HeapInv, Step
    PROVE  HeapInv'
<1>1. CASE ~DataTest
  <2>1. CASE /\ pc = "test" /\ pc' = "test" /\ heap' = heap
             /\ ParseStep \/ Choose \/ BankTest \/ CodeTestPart
    <3>1. heap = {}
      <4>1. stage \notin {"data", "killed"}
        BY <2>1, ParseLeaves, CodeLeaves DEF Parsing, Choose, BankTest
      <4> QED
        BY <4>1 DEF HeapInv
    <3> QED
      BY <2>1, <3>1 DEF HeapInv, Idle, Working
  <2>2. CASE IllegalInstruction \/ UNCHANGED <<vars, stage>>
    <3>1. UNCHANGED vars /\ (stage' = stage \/ (stage = "data" /\ stage' = "killed"))
      BY <2>2 DEF IllegalInstruction
    <3> QED
      BY <3>1, SameTest DEF vars, testVars, failVars, loopVars, HeapInv, Idle, Working
  <2> QED
    BY <1>1, <2>1, <2>2, OutsideData
<1>2. CASE DataTest
  <2>1. /\ n \in Nat \ {0} /\ threads \in Nat \ {0} /\ (~Idle => n <= threads)
        /\ stage = "data" /\ stage' = "data"
    BY <1>2, TestTypes, DataParts DEF LoopInv, mainVars
  <2>2. CASE StartTest
    <3>1. pc = "test" /\ pc' = "alloc" /\ heap' = heap /\ n' = 1 /\ allocFailures' = allocFailures
      BY <2>2 DEF StartTest, failVars
    <3>2. Blocks' = Blocks
      BY <2>2, SameTest DEF StartTest
    <3> QED
      BY <2>1, <3>1, <3>2 DEF HeapInv, Idle, Working
  <2>3. CASE Alloc
    <3>1. /\ pc = "alloc" /\ allocFailures' = allocFailures
          /\ heap' = heap \cup {Tables, Array(n)}
          /\ Tables' = Tables /\ Blocks' = Blocks /\ args' = args
          /\ \A t : Array(t)' = Array(t)
          /\ IF args.shared \/ n = threads THEN pc' = "create" /\ n' = 1
             ELSE n' = n + 1 /\ pc' = pc
      BY <2>3, SameTest DEF Alloc, failVars
    <3>2. n \in 1..threads
      BY <2>1, <3>1 DEF Idle
    <3>3. Tables \in Blocks /\ Array(n) \in Blocks
      BY <3>2 DEF Blocks
    <3>4. Tables.block = "tables" /\ Array(n).block = "arr"
      BY DEF Tables, Array
    <3>5. {Array(t) : t \in 1..(n - 1)} \subseteq heap
      <4>1. CASE n = 1
        BY <4>1
      <4>2. CASE n > 1
        BY <3>1, <4>2 DEF HeapInv
      <4> QED
        BY <2>1, <4>1, <4>2
    <3>6. {Tables} \cup {Array(t) : t \in 1..n} \subseteq heap'
      <4>1. ASSUME NEW t \in 1..n PROVE Array(t) \in heap'
        BY <2>1, <3>1, <3>5
      <4> QED
        BY <3>1, <4>1
    <3>7. args.shared => Blocks \subseteq heap'
      <4>1. ASSUME args.shared, NEW t \in 1..threads PROVE Array(t) = Array(n)
        BY <4>1 DEF Array
      <4> QED
        BY <3>1, <4>1 DEF Blocks
    <3> HIDE DEF Tables, Array, threads
    <3>8. CASE args.shared \/ n = threads
      <4>1. Blocks \subseteq heap'
        BY <3>6, <3>7, <3>8 DEF Blocks
      <4> HIDE DEF Blocks
      <4> QED
        BY <2>1, <3>1, <3>3, <3>4, <3>8, <4>1 DEF HeapInv, Idle, Working
    <3>9. CASE ~args.shared /\ n # threads
      <4>1. n' = n + 1 /\ pc' = "alloc" /\ n' - 1 = n /\ n' # 1
        BY <2>1, <3>1, <3>9
      <4>2. {Array(t) : t \in 1..(n - 1)}' = {Array(t) : t \in 1..n}
        BY <3>1, <4>1
      <4>3. {Tables} \cup {Array(t) : t \in 1..n} \subseteq heap'
        BY <3>6
      <4>4. /\ \A b \in heap' : b.block \in {"tables", "arr"}
            /\ allocFailures' = 0 => heap' \subseteq Blocks'
        BY <3>1, <3>3, <3>4 DEF HeapInv
      <4> HIDE DEF Blocks
      <4> QED
        BY <2>1, <3>1, <3>9, <4>1, <4>2, <4>3, <4>4 DEF HeapInv, Idle, Working
    <3> QED
      BY <3>8, <3>9
  <2>4. CASE CreateThread \/ CreateThreadFails \/ Join \/ JoinGarbage \/ AThread
    <3>1. UNCHANGED loopVars /\ heap' = heap /\ allocFailures' = allocFailures
      BY <2>4 DEF CreateThread, CreateThreadFails, Join, JoinGarbage, AThread, RunKernel,
                  failVars
    <3>2. (Working /\ Working') \/ (pc' = pc /\ n' = n)
      BY <2>4 DEF CreateThread, CreateThreadFails, Join, JoinGarbage, AThread, RunKernel,
                  NextThread, NextJoin, Working
    <3>3. Blocks' = Blocks /\ Tables' = Tables /\ args' = args /\ \A t : Array(t)' = Array(t)
      BY <3>1, SameTest
    <3>4. Working => ~(Idle \/ (pc = "alloc" /\ n = 1)) /\ pc # "alloc"
      BY DEF Working, Idle
    <3>5. Working' => ~(Idle' \/ (pc' = "alloc" /\ n' = 1)) /\ pc' # "alloc"
      BY DEF Working, Idle
    <3> HIDE DEF Blocks, Tables, Array
    <3>6. CASE Working /\ Working'
      BY <2>1, <3>1, <3>3, <3>4, <3>5, <3>6 DEF HeapInv
    <3>7. CASE pc' = pc /\ n' = n
      BY <2>1, <3>1, <3>3, <3>7 DEF HeapInv, Idle, Working
    <3> QED
      BY <3>2, <3>6, <3>7
  <2>5. CASE LeaveTest
    <3>1. pc' \in {"test", "print"}
      BY <2>5, LeaveParts DEF Return
    <3>2. \A b \in heap' : b.block \in {"tables", "arr"}
      BY <2>5 DEF LeaveTest, TooManyThreads, AllocFails, Report, testVars, HeapInv, Tables
    <3>3. allocFailures' = 0 => heap' = {}
      <4>1. CASE TooManyThreads
        BY <4>1 DEF TooManyThreads, testVars, failVars, HeapInv
      <4>2. CASE AllocFails
        BY <4>2 DEF AllocFails, LoopInv
      <4>3. CASE Report
        BY <4>3 DEF Report, Freed, failVars, HeapInv
      <4> QED
        BY <2>5, <4>1, <4>2, <4>3 DEF LeaveTest
    <3> QED
      BY <2>1, <3>1, <3>2, <3>3 DEF HeapInv, Idle, Working
  <2>6. CASE PrintTable
    BY <2>1, <2>6, SameTest DEF PrintTable, testVars, failVars, HeapInv, Idle, Working
  <2> QED
    BY <1>2, <2>2, <2>3, <2>4, <2>5, <2>6, DataParts DEF WithinTest
<1> QED
  BY <1>1, <1>2

\* A thread in its kernel is one of a test whose blocks are live.
LEMMA MemoryIsLive ==
    ASSUME LoopInv, ThreadInv, HeapInv
    PROVE  ThreadsUseLiveMemory
<1>1. ASSUME NEW t \in DOMAIN tstate, tstate[t] = "running"
      PROVE  Array(t) \in heap
  <2>1. Working /\ t \in 1..threads
    BY <1>1 DEF ThreadInv, LoopInv, Idle, Working, Launched
  <2> QED
    BY <2>1 DEF HeapInv, Blocks
<1>2. ASSUME NEW b \in heap, b.test # Test \/ pc \in {"test", "print", "done"}
      PROVE  allocFailures > 0
  <2>1. \A c \in Blocks : c.test = Test
    BY DEF Blocks, Tables, Array
  <2> QED
    BY <1>2, <2>1 DEF HeapInv, LoopInv, Idle
<1> QED
  BY <1>1, <1>2 DEF ThreadsUseLiveMemory
-----------------------------------------------------------------------------
\* The cells of a table with rows of l cells.
LEMMA CellRange ==
    ASSUME NEW l \in Nat, NEW a \in Nat, NEW r \in 1..a, NEW k \in 1..l
    PROVE  (r - 1) * l + k - 1 \in 0..(a * l - 1)
<1>1. PICK d \in Nat : a = r + d
  <2>1. a - r \in Nat /\ a = r + (a - r)
    OBVIOUS
  <2> QED
    BY <2>1
<1>2. a * l = (r - 1) * l + l + d * l
  BY <1>1
<1>3. (r - 1) * l \in Nat /\ d * l \in Nat
  <2>1. r - 1 \in Nat
    OBVIOUS
  <2> QED
    BY <2>1
<1> DEFINE u == (r - 1) * l
           v == d * l
<1> HIDE DEF u, v
<1>4. u \in Nat /\ v \in Nat /\ a * l = u + l + v
  BY <1>2, <1>3 DEF u, v
<1>5. u + k - 1 \in 0..(a * l - 1)
  BY <1>4
<1> QED
  BY <1>5 DEF u

LEMMA CellOnce ==
    ASSUME NEW l \in Nat, NEW q \in Nat, NEW r \in Nat, NEW i \in 1..l, NEW k \in 1..l,
           q < r
    PROVE  (q - 1) * l + i - 1 < (r - 1) * l + k - 1
<1>1. PICK d \in Nat : r = q + 1 + d
  <2>1. r - q - 1 \in Nat /\ r = q + 1 + (r - q - 1)
    OBVIOUS
  <2> QED
    BY <2>1
<1>2. (r - 1) * l = (q - 1) * l + l + d * l
  BY <1>1
<1>3. (q - 1) * l \in Int /\ d * l \in Nat
  OBVIOUS
<1> DEFINE u == (q - 1) * l
           v == d * l
<1> HIDE DEF u, v
<1>4. u \in Int /\ v \in Nat /\ (r - 1) * l = u + l + v
  BY <1>2, <1>3 DEF u, v
<1>5. u + i - 1 < (r - 1) * l + k - 1
  <2>1. u + i - 1 < u + l + v + k - 1
    BY <1>4
  <2> QED
    BY <1>4, <2>1
<1> QED
  BY <1>5 DEF u

\* Every cell of the automatic mode's table has a place of its own.
LEMMA Cells ==
    ASSUME LineInv, NEW r \in Nat \ {0}, NEW k \in 1..Len(sizes)
    PROVE  /\ r <= args.autothreads => /\ Cell(r, k) \in 0..(args.autothreads * Len(sizes) - 1)
                                       /\ PrintedCell(r, k) = Cell(r, k)
           /\ \A q \in Nat \ {0}, i \in 1..Len(sizes) :
                 Cell(q, i) = Cell(r, k) => q = r /\ i = k
<1>1. Len(sizes) \in Nat /\ args.autothreads \in Nat
  BY SizesTypes DEF LineInv, Args
<1>2. r <= args.autothreads => Cell(r, k) \in 0..(args.autothreads * Len(sizes) - 1)
  BY <1>1, CellRange DEF Cell
<1>3. ASSUME NEW q \in Nat \ {0}, NEW i \in 1..Len(sizes), Cell(q, i) = Cell(r, k)
      PROVE  q = r /\ i = k
  <2> DEFINE u == (q - 1) * Len(sizes)
             w == (r - 1) * Len(sizes)
  <2>1. u \in Int /\ w \in Int /\ u + i - 1 = w + k - 1
    BY <1>1, <1>3 DEF Cell
  <2>2. q < r => u + i - 1 < w + k - 1
    BY <1>1, CellOnce
  <2>3. r < q => w + k - 1 < u + i - 1
    BY <1>1, CellOnce
  <2>4. q = r => u = w
    OBVIOUS
  <2> HIDE DEF u, w
  <2> QED
    BY <1>1, <2>1, <2>2, <2>3, <2>4
<1> QED
  BY <1>1, <1>2, <1>3 DEF PrintedCell, Cell

LEMMA InitResults ==
    ASSUME MainInit
    PROVE  ResultInv
BY DEF MainInit, Init, ResultInv, PrintsOwnResults

\* main() keeps what MeasureBw() returns in its own cell, or prints it.
LEMMA ReturnKeeps ==
    ASSUME LineInv, LoopInv, ResultInv, stage = "data", pc \notin {"print", "done"},
           NEW c, Return(c), stage' = stage
    PROVE  ResultInv'
<1> DEFINE result == [test |-> Test, counted |-> c, moved |-> moved]
<1>1. /\ sizeIdx \in 1..Len(sizes) /\ threadIdx \in Nat \ {0} /\ threadIdx <= lastRound
      /\ Len(sizes) \in Nat \ {0} /\ args.autothreads \in Nat
  BY TestTypes DEF LoopInv, LineInv, Args
<1>2. /\ args' = args /\ sizes' = sizes /\ auto' = auto /\ lastRound' = lastRound
      /\ pc' \in {"test", "print"}
  BY SameArgs DEF Return
<1>3. /\ \/ sizeIdx < Len(sizes) /\ sizeIdx' = sizeIdx + 1 /\ threadIdx' = threadIdx /\ pc' = "test"
         \/ sizeIdx = Len(sizes) /\ sizeIdx' = 1 /\ threadIdx' = threadIdx + 1
            /\ pc' = IF threadIdx < lastRound THEN "test" ELSE "print"
  BY <1>1 DEF Return, NextRound
<1>4. CASE auto
  <2>1. /\ threadResults' = [threadResults EXCEPT ![Cell(threadIdx, sizeIdx)] = result]
        /\ printed' = printed /\ printed = {}
    BY <1>4 DEF Return, ResultInv
  <2>2. Test = <<threadIdx, sizes[sizeIdx]>> /\ lastRound = args.autothreads
    BY <1>4 DEF Test, threads, testSize, lastRound
  <2>3. DOMAIN threadResults = 0..(args.autothreads * Len(sizes) - 1)
        /\ DOMAIN threadResults' = DOMAIN threadResults
    BY <2>1 DEF ResultInv
  <2>4. ASSUME NEW r \in 1..args.autothreads, NEW k \in 1..Len(sizes), Before(r, k)'
        PROVE  threadResults'[Cell(r, k)].test = <<r, sizes[k]>>
    <3>1. Before(r, k) \/ (r = threadIdx /\ k = sizeIdx)
      BY <1>1, <1>3, <2>4 DEF Before
    <3>2. r \in Nat \ {0} /\ Cell(r, k) \in DOMAIN threadResults
      BY <1>1, <2>3, Cells
    <3>3. CASE r = threadIdx /\ k = sizeIdx
      BY <2>1, <2>2, <3>2, <3>3
    <3>4. CASE ~(r = threadIdx /\ k = sizeIdx)
      <4>1. Cell(r, k) # Cell(threadIdx, sizeIdx)
        BY <1>1, <3>2, <3>4, Cells
      <4>2. threadResults'[Cell(r, k)] = threadResults[Cell(r, k)]
        BY <2>1, <3>2, <4>1
      <4> QED
        BY <1>4, <3>1, <3>4, <4>2 DEF ResultInv
    <3> QED
      BY <3>3, <3>4
  <2>5. \A r, k : Cell(r, k)' = Cell(r, k)
    BY <1>2 DEF Cell
  <2> QED
    BY <1>2, <1>4, <2>1, <2>3, <2>4, <2>5 DEF ResultInv, PrintsOwnResults
<1>5. CASE ~auto
  <2>1. /\ printed' = printed \cup {[test |-> Test, result |-> result]}
        /\ threadResults' = threadResults
    BY <1>5 DEF Return
  <2>2. Test = <<args.threads, sizes[sizeIdx]>> /\ lastRound = 1 /\ threadIdx = 1
    BY <1>1, <1>5 DEF Test, threads, testSize, lastRound
  <2>3. {p.test : p \in printed} = {<<args.threads, sizes[k]>> : k \in 1..(sizeIdx - 1)}
    BY <1>5 DEF ResultInv
  <2>4. {p.test : p \in printed'} = {<<args.threads, sizes[k]>> : k \in 1..sizeIdx}
    <3>1. 1..sizeIdx = 1..(sizeIdx - 1) \cup {sizeIdx}
      BY <1>1
    <3>2. {p.test : p \in printed'} = {p.test : p \in printed} \cup {Test}
      <4> DEFINE entry == [test |-> Test, result |-> result]
      <4>1. printed' = printed \cup {entry} /\ entry.test = Test
        BY <2>1
      <4> HIDE DEF entry
      <4> QED
        BY <4>1
    <3>3. {<<args.threads, sizes[k]>> : k \in 1..sizeIdx}
          = {<<args.threads, sizes[k]>> : k \in 1..(sizeIdx - 1)}
            \cup {<<args.threads, sizes[sizeIdx]>>}
      BY <3>1
    <3> QED
      BY <2>2, <2>3, <3>2, <3>3
  <2>5. IF pc' = "print" THEN sizeIdx = Len(sizes) ELSE sizeIdx' - 1 = sizeIdx
    BY <1>1, <1>3, <2>2
  <2>6. \A p \in printed' : p.result.test = p.test
    BY <2>1 DEF ResultInv, PrintsOwnResults
  <2>7. DOMAIN threadResults' = 0..(args.autothreads * Len(sizes) - 1)
    BY <2>1 DEF ResultInv
  <2> QED
    BY <1>2, <1>5, <2>4, <2>5, <2>6, <2>7, SMTT(20) DEF ResultInv, PrintsOwnResults
<1> QED
  BY <1>4, <1>5

LEMMA StepResults ==
    ASSUME LineInv, LoopInv, ResultInv, Step
    PROVE  ResultInv'
<1>1. CASE ~DataTest
  <2>1. CASE /\ pc = "test" /\ pc' = "test" /\ printed' = printed
             /\ ParseStep \/ Choose \/ BankTest \/ CodeTestPart
    <3>1. stage \notin {"data", "killed"} /\ (~Choose => stage' \notin {"data", "killed"})
      BY <2>1, ParseLeaves, CodeLeaves DEF Parsing, Choose, BankTest, mainVars
    <3>2. printed = {}
      BY <3>1 DEF ResultInv
    <3>3. CASE Choose
      <4>1. /\ threadResults' = [c \in 0..(args.autothreads * Len(sizes) - 1) |-> Unset]
            /\ UNCHANGED loopVars /\ sizeIdx = 1 /\ threadIdx = 1
        BY <3>3 DEF Choose, NotTesting, loopVars, LoopInv
      <4>2. DOMAIN threadResults' = 0..(args.autothreads * Len(sizes) - 1)
        BY <4>1
      <4>3. args' = args /\ sizes' = sizes /\ sizeIdx' = 1 /\ threadIdx' = 1
        BY <4>1, SameTest
      <4>4. \A r \in 1..args.autothreads, k \in 1..Len(sizes) : ~Before(r, k)'
        BY <4>3 DEF Before
      <4>5. {p.test : p \in printed'} = {} /\ 1..(1 - 1) = {}
        BY <2>1, <3>2
      <4> QED
        BY <2>1, <3>2, <4>2, <4>3, <4>4, <4>5 DEF ResultInv, PrintsOwnResults
    <3> QED
      BY <2>1, <3>1, <3>2, <3>3 DEF ResultInv, PrintsOwnResults
  <2>2. CASE IllegalInstruction \/ UNCHANGED <<vars, stage>>
    <3>1. UNCHANGED vars /\ (stage' = stage \/ (stage = "data" /\ stage' = "killed"))
      BY <2>2 DEF IllegalInstruction
    <3> QED
      BY <3>1, SameTest, SMTT(20) DEF vars, outVars, loopVars, ResultInv, PrintsOwnResults, Before, Cell
  <2> QED
    BY <1>1, <2>1, <2>2, OutsideData
<1>2. CASE DataTest
  <2>1. stage = "data" /\ stage' = "data"
    BY <1>2, DataParts DEF mainVars
  <2>2. CASE WithinTest
    <3>1. UNCHANGED loopVars /\ UNCHANGED outVars
      BY <2>2 DEF WithinTest, StartTest, Alloc, CreateThread, CreateThreadFails, Join,
         JoinGarbage, AThread, RunKernel
    <3>2. pc' = pc \/ (pc' \notin {"print", "done"} /\ pc \notin {"print", "done"})
      BY <2>2 DEF WithinTest, StartTest, Alloc, CreateThread, CreateThreadFails, Join,
         JoinGarbage, AThread, RunKernel, NextThread, NextJoin
    <3>3. /\ args' = args /\ threadIdx' = threadIdx /\ sizeIdx' = sizeIdx
          /\ sizes' = sizes /\ auto' = auto /\ lastRound' = lastRound
          /\ threadResults' = threadResults /\ printed' = printed
      BY <3>1, SameTest DEF outVars
    <3>4. \A r, k : Before(r, k)' = Before(r, k) /\ Cell(r, k)' = Cell(r, k)
      BY <3>3 DEF Before, Cell
    <3>5. PrintsOwnResults'
      <4>1. CASE pc' = pc
        BY <3>3, <4>1 DEF ResultInv, PrintsOwnResults
      <4>2. CASE pc' # "done"
        BY <3>3, <4>2 DEF ResultInv, PrintsOwnResults
      <4> QED
        BY <3>2, <4>1, <4>2
    <3> HIDE DEF Before, Cell
    <3>6. /\ DOMAIN threadResults' = 0..(args'.autothreads * Len(sizes') - 1)
          /\ auto =>
                /\ \A r \in 1..args'.autothreads, k \in 1..Len(sizes') :
                      Before(r, k)' => threadResults'[Cell(r, k)'].test = <<r, sizes'[k]>>
                /\ pc' # "done" => printed' = {}
      BY <2>1, <3>2, <3>3, <3>4 DEF ResultInv
    <3>7. ~auto =>
            {p.test : p \in printed} =
               IF pc' \in {"print", "done"}
               THEN {<<args.threads, sizes[k]>> : k \in 1..Len(sizes)}
               ELSE {<<args.threads, sizes[k]>> : k \in 1..(sizeIdx - 1)}
      BY <2>1, <3>2 DEF ResultInv
    <3> QED
      BY <2>1, <3>3, <3>5, <3>6, <3>7 DEF ResultInv
  <2>3. CASE LeaveTest
    <3>1. pc \notin {"print", "done"} /\ \E c : Return(c)
      BY <2>3, LeaveParts
    <3> QED
      BY <2>1, <3>1, ReturnKeeps
  <2>4. CASE PrintTable
    <3>1. /\ pc = "print" /\ pc' = "done" /\ UNCHANGED loopVars
          /\ threadResults' = threadResults
          /\ threadIdx = lastRound + 1 /\ sizeIdx = 1
      BY <2>4 DEF PrintTable, LoopInv
    <3>2. Len(sizes) \in Nat \ {0} /\ args.autothreads \in Nat /\ lastRound \in Nat \ {0}
      BY TestTypes DEF LineInv, Args
    <3>3. CASE auto
      <4>1. printed' = {[test |-> <<r, sizes[i]>>,
                         result |-> threadResults[PrintedCell(r, i)]] :
                          r \in 1..args.autothreads, i \in 1..Len(sizes)}
        BY <2>4, <3>3 DEF PrintTable
      <4>2. lastRound = args.autothreads
        BY <3>3 DEF lastRound
      <4>3. ASSUME NEW p \in printed'
            PROVE  /\ p.result.test = p.test
                   /\ \E r \in 1..lastRound, i \in 1..Len(sizes) : p.test = <<r, sizes[i]>>
        <5>1. PICK r \in 1..args.autothreads, i \in 1..Len(sizes) :
                 p = [test |-> <<r, sizes[i]>>, result |-> threadResults[PrintedCell(r, i)]]
          BY <4>1, <4>3
        <5>2. Before(r, i) /\ PrintedCell(r, i) = Cell(r, i)
          BY <3>1, <3>2, <4>2, <5>1, Cells DEF Before
        <5>3. threadResults[Cell(r, i)].test = <<r, sizes[i]>>
          BY <2>1, <3>3, <5>1, <5>2 DEF ResultInv
        <5> QED
          BY <4>2, <5>1, <5>2, <5>3
      <4>4. {p.test : p \in printed'} = {<<r, sizes[i]>> : r \in 1..lastRound, i \in 1..Len(sizes)}
        <5>1. ASSUME NEW x \in {p.test : p \in printed'}
              PROVE  x \in {<<r, sizes[i]>> : r \in 1..lastRound, i \in 1..Len(sizes)}
          <6>1. PICK p \in printed' : x = p.test
            BY <5>1
          <6>2. PICK r \in 1..lastRound, i \in 1..Len(sizes) : x = <<r, sizes[i]>>
            BY <4>3, <6>1, Zenon
          <6> QED
            BY <6>2
        <5>2. ASSUME NEW x \in {<<r, sizes[i]>> : r \in 1..lastRound, i \in 1..Len(sizes)}
              PROVE  x \in {p.test : p \in printed'}
          <6>1. PICK r \in 1..lastRound, i \in 1..Len(sizes) : x = <<r, sizes[i]>>
            BY <5>2
          <6> DEFINE entry == [test |-> <<r, sizes[i]>>,
                               result |-> threadResults[PrintedCell(r, i)]]
          <6>2. entry \in printed' /\ entry.test = x
            BY <4>1, <4>2, <6>1
          <6> HIDE DEF entry
          <6> QED
            BY <6>2
        <5> QED
          BY <5>1, <5>2
      <4>5. PrintsOwnResults'
        BY <3>1, <3>3, <4>3, <4>4, SameTest DEF PrintsOwnResults
      <4> QED
        BY <2>1, <3>1, <3>3, <4>5, SameTest DEF ResultInv, Before, Cell
    <3>4. CASE ~auto
      <4>1. printed' = printed /\ lastRound = 1
        BY <2>4, <3>4 DEF PrintTable, lastRound
      <4>2. {p.test : p \in printed} = {<<args.threads, sizes[k]>> : k \in 1..Len(sizes)}
        BY <2>1, <3>1, <3>4 DEF ResultInv
      <4>3. {<<args.threads, sizes[i]>> : r \in 1..lastRound, i \in 1..Len(sizes)}
               = {<<args.threads, sizes[k]>> : k \in 1..Len(sizes)}
        BY <4>1
      <4>4. {<<IF auto THEN r ELSE args.threads, sizes[i]>> : r \in 1..lastRound, i \in 1..Len(sizes)}
               = {<<args.threads, sizes[i]>> : r \in 1..lastRound, i \in 1..Len(sizes)}
        BY <3>4
      <4>5. PrintsOwnResults'
        BY <2>1, <3>1, <4>1, <4>2, <4>3, <4>4, SameTest DEF ResultInv, PrintsOwnResults
      <4> QED
        BY <2>1, <3>1, <3>4, <4>1, <4>2, <4>5, SameTest DEF ResultInv
    <3> QED
      BY <3>3, <3>4
  <2> QED
    BY <1>2, <2>2, <2>3, <2>4, DataParts
<1> QED
  BY <1>1, <1>2
-----------------------------------------------------------------------------
LEMMA NoExits ==
    ASSUME NEW w \in Int
    PROVE  w * Cardinality({}) = 0
BY FS_EmptySet

LEMMA ExitsFinite ==
    ASSUME LineInv, LoopInv
    PROVE  IsFiniteSet(Exits) /\ Cardinality(Exits) \in Nat
<1>1. IsFiniteSet(1..threads) /\ Exits \subseteq 1..threads
  BY TestTypes, FS_Interval DEF Exits
<1> QED
  BY <1>1, FS_Subset, FS_CardinalityType

LEMMA InitWork ==
    ASSUME MainInit
    PROVE  WorkInv
<1>1. pc = "test" /\ printed = {} /\ \A r \in Results : r = Unset
  BY DEF MainInit, Init, Results
<1> QED
  BY <1>1 DEF WorkInv, Idle, Unset

\* What MeasureBw() computes the bandwidth from is what the threads have done.
LEMMA ReturnCounts ==
    ASSUME LineInv, LoopInv, ThreadInv, WorkInv, createFailures = 0, LeaveTest
    PROVE  \E c : Return(c) /\ c = moved
<1>1. CASE pc = "alloc" /\ Return(0)
  <2>1. Exits = {}
    BY <1>1 DEF Exits, ThreadInv, Launched
  <2>2. moved = work * Cardinality(Exits)
    BY <1>1 DEF WorkInv, Idle
  <2>3. moved = 0
    BY <2>1, <2>2, NoExits, WorkType
  <2> QED
    BY <1>1, <2>3
<1>2. CASE pc = "report" /\ Return(Counted)
  <2>1. Exits = 1..threads
    BY <1>2 DEF Exits, ThreadInv, Launched, Idle
  <2>2. Cardinality(Exits) = threads
    BY <2>1, TestTypes, FS_Interval
  <2>3. moved = work * threads
    BY <1>2, <2>2 DEF WorkInv, Idle
  <2>4. /\ iterations \in Nat /\ elements \in Nat /\ threads \in Nat
        /\ args.shared \in BOOLEAN
    BY WorkType, TestTypes DEF LoopInv, LineInv, Args
  <2> HIDE DEF elements, threads
  <2>5. Counted = work * threads
    <3>1. CASE args.shared
      BY <2>4, <3>1 DEF Counted, work, ThreadIterations
    <3>2. CASE ~args.shared
      <4>1. work = (iterations * threads) * elements
        BY <3>2 DEF work, ThreadIterations
      <4>2. Counted = iterations * elements * threads * threads
        BY <3>2 DEF Counted
      <4> QED
        BY <2>4, <4>1, <4>2
    <3> QED
      BY <2>4, <3>1, <3>2
  <2> QED
    BY <1>2, <2>3, <2>5
<1> QED
  BY <1>1, <1>2, LeaveParts

LEMMA StepWork ==
    ASSUME LineInv, LoopInv, ThreadInv, ResultInv, WorkInv, LineInv', Step
    PROVE  WorkInv'
<1> SUFFICES ASSUME createFailures' = 0
             PROVE  /\ ~Idle' => moved' = work' * Cardinality(Exits')
                    /\ \A r \in Results' : r.counted = r.moved
  BY DEF WorkInv
<1>1. CASE ~DataTest
  <2>1. CASE /\ pc' = "test" /\ createFailures' = createFailures /\ printed' = printed
             /\ ParseStep \/ Choose \/ BankTest \/ CodeTestPart
    <3>1. \A r \in Results' : r \in Results \/ r = Unset
      <4>1. CASE Choose
        BY <2>1, <4>1 DEF Choose, Results
      <4>2. CASE ParseStep \/ BankTest \/ CodeTestPart
        <5>1. threadResults' = threadResults
          BY <4>2, ParseLeaves, CodeLeaves DEF ArgsOnly, BankTest, outVars
        <5> QED
          BY <2>1, <5>1 DEF Results
      <4> QED
        BY <2>1, <4>1, <4>2
    <3> QED
      BY <2>1, <3>1 DEF WorkInv, Idle, Unset
  <2>2. CASE UNCHANGED vars
    <3>1. /\ UNCHANGED <<pc, moved, iterations, tstate, threadResults, printed, createFailures>>
          /\ UNCHANGED loopVars
      BY <2>2 DEF vars, testVars, outVars, failVars
    <3>2. work' = work /\ Exits' = Exits /\ Results' = Results /\ Idle' = Idle
      BY <3>1, SameTest DEF work, Exits, Results, Idle
    <3> QED
      BY <3>1, <3>2 DEF WorkInv
  <2> QED
    BY <1>1, <2>1, <2>2, OutsideData DEF IllegalInstruction
<1>2. CASE DataTest
  <2>1. createFailures = 0
    <3>1. createFailures' \in {createFailures, createFailures + 1}
      BY <1>2, DataParts, LeaveParts DEF WithinTest, StartTest, Alloc, CreateThread,
         CreateThreadFails, Join, JoinGarbage, AThread, RunKernel, PrintTable, failVars
    <3> QED
      BY <3>1 DEF LoopInv
  <2>2. CASE WithinTest
    <3>1. UNCHANGED loopVars /\ Results' = Results
      BY <2>2 DEF WithinTest, StartTest, Alloc, CreateThread, CreateThreadFails, Join,
         JoinGarbage, AThread, RunKernel, outVars, Results
    <3>2. \A r \in Results' : r.counted = r.moved
      BY <2>1, <3>1 DEF WorkInv
    <3>3. threads' = threads /\ elements' = elements /\ args' = args
      BY <3>1, SameTest
    <3>4. CASE StartTest
      <4>1. moved' = 0 /\ Exits' = {}
        BY <3>3, <3>4 DEF StartTest, NoThreads, Exits
      <4>2. work' \in Int
        <5>1. testSize \in Nat \ {0} /\ gbToTransfer' \in Nat
          BY TestTypes DEF LineInv
        <5>2. iterations' \in Nat
          BY <3>4, <5>1, GbType DEF StartTest
        <5>3. elements \in Nat /\ threads \in Nat /\ args.shared \in BOOLEAN
          BY WorkType, TestTypes DEF LineInv, Args
        <5>4. work' = (IF args.shared THEN iterations' ELSE iterations' * threads) * elements
          BY <3>3 DEF work, ThreadIterations
        <5> HIDE DEF elements, threads
        <5>5. \A i \in Nat : i * elements \in Nat /\ (i * threads) * elements \in Nat
          BY <5>3
        <5> QED
          BY <5>2, <5>3, <5>4, <5>5
      <4> HIDE DEF work
      <4> QED
        BY <3>2, <4>1, <4>2, NoExits
    <3>5. CASE Alloc \/ CreateThread \/ CreateThreadFails \/ Join \/ JoinGarbage
      <4>1. ~Idle /\ moved' = moved /\ iterations' = iterations
        BY <3>5 DEF Alloc, CreateThread, CreateThreadFails, Join, JoinGarbage, Idle
      <4>2. work' = work
        BY <3>3, <4>1 DEF work
      <4>3. Exits' = Exits
        <5>1. CASE CreateThread
          <6>1. n \in 1..threads /\ tstate[n] = "none" /\ DOMAIN tstate = 1..threads
            BY <5>1, TestTypes DEF CreateThread, LoopInv, ThreadInv, Idle, Launched
          <6>2. tstate' = [tstate EXCEPT ![n] = "running"]
            BY <5>1 DEF CreateThread
          <6> HIDE DEF threads
          <6> QED
            BY <3>3, <6>1, <6>2 DEF Exits
        <5>2. CASE ~CreateThread
          <6>1. tstate' = tstate
            BY <3>5, <5>2 DEF Alloc, CreateThreadFails, Join, JoinGarbage
          <6> QED
            BY <3>3, <6>1 DEF Exits
        <5> QED
          BY <5>1, <5>2
      <4> QED
        BY <2>1, <3>2, <4>1, <4>2, <4>3 DEF WorkInv
    <3>6. CASE AThread
      <4>1. PICK t \in DOMAIN tstate : /\ tstate[t] = "running"
                                       /\ tstate' = [tstate EXCEPT ![t] = "exited"]
        BY <3>6 DEF AThread, RunKernel
      <4>2. moved' = moved + work /\ iterations' = iterations
        BY <3>6 DEF AThread, RunKernel
      <4>3. work' = work
        BY <3>3, <4>2 DEF work
      <4>4. ~Idle /\ DOMAIN tstate = 1..threads
        BY <4>1 DEF ThreadInv
      <4>5. Exits' = Exits \cup {t} /\ t \notin Exits
        BY <3>3, <4>1, <4>4 DEF Exits
      <4>6. Cardinality(Exits') = Cardinality(Exits) + 1
        BY <4>5, ExitsFinite, FS_AddElement
      <4>7. moved = work * Cardinality(Exits)
        BY <2>1, <4>4 DEF WorkInv
      <4> DEFINE c == Cardinality(Exits)
      <4>8. c \in Nat /\ work \in Nat
        BY ExitsFinite, WorkType
      <4> HIDE DEF c, work
      <4>9. work * c + work = work * (c + 1)
        BY <4>8
      <4> QED
        BY <3>2, <4>2, <4>3, <4>6, <4>7, <4>9 DEF c
    <3> QED
      BY <2>2, <3>4, <3>5, <3>6 DEF WithinTest
  <2>3. CASE LeaveTest
    <3>1. PICK c : Return(c) /\ c = moved
      BY <2>1, <2>3, ReturnCounts
    <3> DEFINE result == [test |-> Test, counted |-> c, moved |-> moved]
               entry == [test |-> Test, result |-> result]
    <3>2. pc' \in {"test", "print"} /\ result.counted = result.moved
      BY <3>1 DEF Return
    <3>3. /\ threadResults' = threadResults
             \/ threadResults' = [threadResults EXCEPT ![Cell(threadIdx, sizeIdx)] = result]
          /\ printed' = printed \/ printed' = printed \cup {entry}
      BY <3>1 DEF Return
    <3>4. entry.result = result
      OBVIOUS
    <3>5. \A r \in Results' : r \in Results \/ r = result
      <4>1. ASSUME NEW p \in printed' PROVE p.result \in Results \/ p.result = result
        <5>1. p \in printed \/ p = entry
          BY <3>3, <4>1
        <5> HIDE DEF entry, result
        <5> QED
          BY <3>4, <5>1 DEF Results
      <4>2. ASSUME NEW d \in DOMAIN threadResults'
            PROVE  threadResults'[d] \in Results \/ threadResults'[d] = result
        <5> HIDE DEF result
        <5>1. d \in DOMAIN threadResults
              /\ (threadResults'[d] = threadResults[d] \/ threadResults'[d] = result)
          BY <3>3, <4>2
        <5> QED
          BY <5>1 DEF Results
      <4> QED
        BY <4>1, <4>2 DEF Results
    <3> HIDE DEF result
    <3> QED
      BY <2>1, <3>2, <3>5 DEF WorkInv, Idle
  <2>4. CASE PrintTable
    <3>1. /\ pc' = "done" /\ threadResults' = threadResults /\ stage = "data"
      BY <1>2, <2>4, DataParts DEF PrintTable
    <3>2. ASSUME NEW p \in printed' PROVE p.result \in Results
      <4>1. CASE auto
        <5>1. PICK r \in 1..args.autothreads, i \in 1..Len(sizes) :
                 p = [test |-> <<r, sizes[i]>>, result |-> threadResults[PrintedCell(r, i)]]
          BY <2>4, <3>2, <4>1 DEF PrintTable
        <5>2. /\ r \in Nat \ {0} /\ r <= args.autothreads
          <6>1. args.autothreads \in Nat
            <7>1. args \in Args
              BY DEF LineInv
            <7> QED
              BY <7>1 DEF Args
          <6> QED
            BY <6>1
        <5>3. PrintedCell(r, i) \in DOMAIN threadResults
          BY <3>1, <5>2, Cells DEF ResultInv
        <5>4. p.result = threadResults[PrintedCell(r, i)]
          BY <5>1
        <5> HIDE DEF PrintedCell
        <5> QED
          BY <5>3, <5>4 DEF Results
      <4>2. CASE ~auto
        BY <2>4, <3>2, <4>2 DEF PrintTable, Results
      <4> QED
        BY <4>1, <4>2
    <3> QED
      BY <2>1, <3>1, <3>2 DEF WorkInv, Idle, Results
  <2> QED
    BY <1>2, <2>2, <2>3, <2>4, DataParts
<1> QED
  BY <1>1, <1>2
-----------------------------------------------------------------------------
\* What all steps have in common for the instruction test.
LEMMA Always ==
    ASSUME LoopInv, Step
    PROVE  /\ machine' = machine
           /\ allocFailures' \in {allocFailures, allocFailures + 1}
           /\ allocFailures \in Nat
           /\ RetBytes' = RetBytes /\ RetBytes \in {1, 4} /\ OnArm' = OnArm
<1>1. machine' = machine
  BY Parts, ParseLeaves, CodeLeaves
     DEF Choose, NotTesting, DataTest, IllegalInstruction, BankTest, allVars, mainVars
<1>2. allocFailures' \in {allocFailures, allocFailures + 1}
  <2>1. CASE DataTest
    BY <2>1, DataParts, LeaveParts DEF WithinTest, StartTest, Alloc, CreateThread,
       CreateThreadFails, Join, JoinGarbage, AThread, RunKernel, PrintTable, failVars
  <2>2. CASE CodeTestPart
    BY <2>2 DEF CodeTestPart, CodeTest, CodeTestStep, EndCodeTest, AllocFailure, failVars
  <2> QED
    BY <2>1, <2>2, Parts, ParseLeaves
       DEF ArgsOnly, Choose, IllegalInstruction, BankTest, AllocFailure, allVars, vars, failVars
<1> QED
  BY <1>1, <1>2 DEF LoopInv, RetBytes, OnArm

\* The instruction test's own part is touched in its own steps only.
LEMMA OutsideCode ==
    ASSUME Step, ~CodeTestPart
    PROVE  /\ UNCHANGED codeVars /\ UNCHANGED lines
           /\ \/ stage # "instructions"
              \/ UNCHANGED <<loopVars, stage>>
           /\ stage' # "instructions" \/ stage = "instructions" \/ Choose
           /\ stage' # "exit" \/ stage = "exit" \/ ParseStep
           /\ stage = "exit" => UNCHANGED allVars
<1>1. CASE ParseStep
  BY <1>1, ParseLeaves DEF Parsing
<1>2. CASE Choose
  BY <1>2 DEF Choose, NotTesting
<1>3. CASE DataTest
  BY <1>3, DataParts DEF mainVars
<1>4. CASE IllegalInstruction
  BY <1>4 DEF IllegalInstruction
<1>5. CASE BankTest
  BY <1>5 DEF BankTest, mainVars
<1>6. CASE UNCHANGED allVars
  BY <1>6 DEF allVars, mainVars, vars
<1> QED
  BY <1>1, <1>2, <1>3, <1>4, <1>5, <1>6, Parts

\* The steps of MeasureInstructionBw().
CodeMove == CodeStep \/ AllocCodeFails \/ ProtectFails

LEMMA CodeMoves ==
    ASSUME CodeTestStep
    PROVE  /\ CodeMove /\ UNCHANGED loopVars /\ UNCHANGED <<stage, lines>>
           /\ stage = "instructions"
           /\ AllocCodeFails \/ ProtectFails => allocFailures' = allocFailures + 1
           /\ CodeStep => allocFailures' = allocFailures
BY DEF CodeTestStep, CodeMove, AllocFailure, CodeStep, FillCode, FlushICache, ClearCache,
       Protect, CallCode, EndCode, AllocCodeFails, ProtectFails, failVars

LEMMA ElementsType ==
    ASSUME NEW kb \in Nat
    PROVE  elementsOf(kb) \in Nat
BY DEF elementsOf

LEMMA InitCode ==
    ASSUME MainInit
    PROVE  CodeInv /\ LinesInv /\ StaleInv
BY DEF MainInit, Init, CodeInit, CodeInv, LinesInv, StaleInv

LEMMA StepCode ==
    ASSUME LineInv, LoopInv, CodeInv, Step
    PROVE  CodeInv'
<1> USE Always
<1>1. CASE ~CodeTestPart
  <2>1. UNCHANGED codeVars /\ (codePc # "off" => UNCHANGED <<loopVars, stage>>)
    BY <1>1, OutsideCode DEF CodeInv
  <2>2. lost' \in 0..allocFailures'
    BY <2>1 DEF codeVars, CodeInv
  <2>3. CASE codePc = "off"
    BY <2>1, <2>2, <2>3 DEF codeVars, CodeInv
  <2>4. CASE codePc # "off"
    <3>1. UNCHANGED loopVars /\ UNCHANGED stage
      BY <2>1, <2>4
    <3>2. testSize' = testSize
      BY <3>1, SameTest
    <3> QED
      BY <2>1, <2>2, <3>1, <3>2 DEF codeVars, CodeInv, Transferred
  <2> QED
    BY <2>3, <2>4
<1>2. CASE CodeTest
  <2>1. /\ codePc' = "alloc" /\ codeKb' = testSize /\ calls' = 0 /\ fetched' = 0 /\ measured' = 0
        /\ codeIterations' = GetIterationCount(gbToTransfer', testSize)
        /\ gbToTransfer' = GbAfter(gbToTransfer, testSize)
        /\ lost' = lost /\ stage' = stage /\ stage = "instructions" /\ UNCHANGED loopVars
    BY <1>2 DEF CodeTest, StartCode, mainVars, loopVars
  <2>2. testSize' = testSize /\ testSize \in Nat \ {0}
    BY <2>1, SameTest, TestTypes
  <2>3. codeIterations' \in Nat /\ codeIterations' >= 8
    <3>1. gbToTransfer' \in Nat
      BY <2>1, <2>2, GbType DEF LineInv
    <3> QED
      BY <2>1, <2>2, <3>1, GbType
  <2>4. \A e : e \in Nat => 0 * (8 * e + RetBytes') = 0
    OBVIOUS
  <2>5. elementsOf(codeKb') \in Nat
    BY <2>1, <2>2, ElementsType
  <2>6. fetched' = calls' * (8 * elementsOf(codeKb') + RetBytes')
    BY <2>1, <2>4, <2>5
  <2> QED
    BY <2>1, <2>2, <2>3, <2>6 DEF CodeInv
<1>3. CASE CodeTestStep
  <2>1. /\ UNCHANGED loopVars /\ stage' = stage /\ stage = "instructions" /\ CodeMove
    BY <1>3, CodeMoves
  <2>2. testSize' = testSize /\ testSize \in Nat \ {0}
    BY <2>1, SameTest, TestTypes
  <2>3. CASE FillCode \/ FlushICache \/ ClearCache \/ Protect
    BY <2>1, <2>2, <2>3 DEF FillCode, FlushICache, ClearCache, Protect, CodeInv, Transferred
  <2>4. CASE AllocCodeFails \/ ProtectFails
    <3>1. allocFailures' = allocFailures + 1
      BY <1>3, <2>4, CodeMoves
    <3> QED
      BY <2>1, <2>2, <2>4, <3>1 DEF AllocCodeFails, ProtectFails, CodeInv
  <2>5. CASE CallCode
    <3> DEFINE x == 8 * elementsOf(codeKb) + RetBytes
    <3>1. /\ codePc = "call" /\ codeKb = testSize /\ calls \in Nat /\ codeIterations \in Nat
          /\ fetched = calls * x /\ codeIterations >= 8 /\ calls < codeIterations
          /\ measured = 0 /\ lost \in 0..allocFailures
      BY <2>5 DEF CallCode, CodeInv
    <3>2. elementsOf(codeKb) \in Nat /\ RetBytes \in Nat /\ x \in Nat
      <4>1. elementsOf(codeKb) \in Nat
        BY <2>2, <3>1, ElementsType
      <4> HIDE DEF elementsOf
      <4> QED
        BY <4>1
    <3>3. /\ codeKb' = codeKb /\ codeIterations' = codeIterations /\ measured' = measured
          /\ lost' = lost
          /\ \/ calls' = calls + 1 /\ fetched' = fetched + x /\ codePc' = "call"
             \/ codePc' = "crashed" /\ calls' = calls /\ fetched' = fetched
      <4>1. fetched \in Nat
        <5> HIDE DEF x
        <5>1. \A i \in Nat : i * x \in Nat
          BY <3>2
        <5> QED
          BY <3>1, <5>1
      <4>2. fetched + 8 * elementsOf(codeKb) + RetBytes = fetched + x
        <5> HIDE DEF elementsOf, RetBytes
        <5> QED
          BY <3>2, <4>1
      <4> HIDE DEF x, elementsOf, RetBytes
      <4> QED
        BY <2>5, <4>2 DEF CallCode
    <3>4. x' = x
      BY <3>3
    <3> HIDE DEF x
    <3>5. calls * x + x = (calls + 1) * x
      BY <3>1, <3>2
    <3>6. fetched' = calls' * x'
      BY <3>1, <3>3, <3>4, <3>5
    <3> QED
      BY <2>1, <2>2, <3>1, <3>3, <3>6 DEF CodeInv, x
  <2>6. CASE EndCode
    BY <2>1, <2>2, <2>6 DEF EndCode, CodeInv, Transferred
  <2> QED
    BY <2>1, <2>3, <2>4, <2>5, <2>6 DEF CodeMove, CodeStep
<1>4. CASE EndCodeTest
  BY <1>4 DEF EndCodeTest, CodeInv
<1> QED
  BY <1>1, <1>2, <1>3, <1>4 DEF CodeTestPart

\* What the instruction test prints of one size: the bytes that were fetched are
\* those of the rate and of the returns, but for one byte.
LEMMA FetchedIsEnough ==
    ASSUME NEW c \in Nat, NEW e \in Nat, NEW w \in {1, 4}, c >= 8
    PROVE  /\ c * 8 * e + 1 \in Nat /\ c * 8 * e + 1 # 0
           /\ c * (8 * e + w) \in Nat
           /\ c * 8 * e + 1 <= c * (8 * e + w)
           /\ c * (8 * e + w) - (c * 8 * e + 1) < c * w
<1> DEFINE p == c * 8 * e
<1>1. p \in Nat
  <2>1. \A x, y \in Nat : x * y \in Nat
    OBVIOUS
  <2>2. c * 8 \in Nat
    OBVIOUS
  <2> QED
    BY <2>1, <2>2
<1>2. c * (8 * e + w) = p + c * w
  OBVIOUS
<1>3. c * w \in Nat /\ c * w >= 8
  BY w = 1 \/ w = 4
<1> HIDE DEF p
<1>4. p + 1 \in Nat /\ p + 1 # 0 /\ p + c * w \in Nat
      /\ p + 1 <= p + c * w /\ p + c * w - (p + 1) < c * w
  <2> DEFINE q == c * w
  <2>1. q \in Nat /\ q >= 8
    BY <1>3
  <2> HIDE DEF q
  <2>2. p + 1 \in Nat /\ p + 1 # 0 /\ p + q \in Nat
        /\ p + 1 <= p + q /\ p + q - (p + 1) < q
    BY <1>1, <2>1
  <2> QED
    BY <2>2 DEF q
<1> QED
  BY <1>2, <1>4 DEF p

LEMMA LineIsCounted ==
    ASSUME LineInv, LoopInv, CodeInv, Step, codePc = "returned"
    PROVE  LET l == [kb |-> testSize, bytes |-> measured, fetched |-> fetched, calls |-> calls]
           IN  l \in [kb : Nat, bytes : Nat, fetched : Nat, calls : Nat] /\ LineCounts(l)
<1> DEFINE e == elementsOf(codeKb)
           l == [kb |-> testSize, bytes |-> measured, fetched |-> fetched, calls |-> calls]
<1>1. /\ testSize \in Nat /\ e \in Nat /\ RetBytes \in {1, 4} /\ calls \in Nat
      /\ codeIterations \in Nat /\ codeIterations >= 8 /\ fetched = calls * (8 * e + RetBytes)
      /\ (measured = 0 /\ allocFailures > 0) \/ (calls = codeIterations /\ measured = calls * 8 * e + 1)
  <2>1. /\ codeKb = testSize /\ codeIterations \in Nat /\ codeIterations >= 8
        /\ calls \in 0..codeIterations /\ fetched = calls * (8 * e + RetBytes)
        /\ \/ measured = 0 /\ allocFailures > 0
           \/ calls = codeIterations /\ measured = codeIterations * 8 * e + 1
    <3> HIDE DEF RetBytes, elementsOf
    <3> QED
      BY DEF CodeInv, Transferred
  <2>2. calls \in Nat
    BY <2>1
  <2>3. testSize \in Nat /\ e \in Nat /\ RetBytes \in {1, 4}
    BY <2>1, TestTypes, ElementsType, Always
  <2> HIDE DEF e, RetBytes
  <2> QED
    BY <2>1, <2>2, <2>3
<1> HIDE DEF e
<1>2. fetched \in Nat
  <2>1. 8 * e + RetBytes \in Nat
    BY <1>1
  <2> DEFINE x == 8 * e + RetBytes
  <2>2. \A i \in Nat : i * x \in Nat
    <3> HIDE DEF x
    <3> QED
      BY <2>1 DEF x
  <2> QED
    BY <1>1, <2>2
<1>3. CASE measured = 0 /\ allocFailures > 0
  BY <1>1, <1>2, <1>3 DEF LineCounts
<1>4. CASE calls = codeIterations /\ measured = calls * 8 * e + 1
  <2>1. /\ measured \in Nat /\ measured # 0 /\ measured <= fetched
        /\ fetched - measured < calls * RetBytes
    BY <1>1, <1>4, FetchedIsEnough
  <2>2. l \in [kb : Nat, bytes : Nat, fetched : Nat, calls : Nat]
    BY <1>1, <1>2, <2>1
  <2>3. LineCounts(l)
    BY <2>1 DEF LineCounts
  <2> QED
    BY <2>2, <2>3
<1> QED
  BY <1>1, <1>3, <1>4

LEMMA StepLines ==
    ASSUME LineInv, LoopInv, CodeInv, LinesInv, Step
    PROVE  LinesInv'
<1>1. ASSUME NEW l, LineCounts(l)
      PROVE  LineCounts(l)'
  BY <1>1, Always DEF LineCounts
<1>2. CASE ~CodeTestPart
  <2>1. CASE stage \in {"instructions", "exit"}
    <3>1. UNCHANGED <<args, sizeIdx, stage, lines>>
      BY <1>2, <2>1, OutsideCode DEF allVars, vars, mainVars, loopVars
    <3>2. sizes' = sizes
      BY <3>1, SameArgs
    <3> HIDE DEF LineCounts, sizes
    <3> QED
      BY <1>1, <3>1, <3>2 DEF LinesInv
  <2>2. CASE stage \notin {"instructions", "exit"}
    <3>1. lines = <<>> /\ lines' = <<>>
      BY <1>2, <2>2, OutsideCode DEF LinesInv
    <3>2. stage' = "instructions" => sizeIdx' = 1
      BY <1>2, <2>2, OutsideCode DEF Choose, ArgsOnly, LoopInv
    <3>3. lines' \in Seq([kb : Nat, bytes : Nat, fetched : Nat, calls : Nat]) /\ Len(lines') = 0
      BY <3>1
    <3> QED
      BY <3>1, <3>2, <3>3 DEF LinesInv
  <2> QED
    BY <2>1, <2>2
<1>3. CASE CodeTest \/ CodeTestStep
  <2>1. UNCHANGED <<args, sizeIdx, stage, lines>>
    BY <1>3, CodeMoves DEF CodeTest, mainVars, loopVars, outVars
  <2>2. sizes' = sizes
    BY <2>1, SameArgs
  <2> HIDE DEF LineCounts, sizes
  <2> QED
    BY <1>1, <2>1, <2>2 DEF LinesInv
<1>4. CASE EndCodeTest
  <2> DEFINE l == [kb |-> testSize, bytes |-> measured, fetched |-> fetched, calls |-> calls]
             T == [kb : Nat, bytes : Nat, fetched : Nat, calls : Nat]
  <2>1. l \in T /\ LineCounts(l)
    BY <1>4, LineIsCounted DEF EndCodeTest
  <2>2. lines' = Append(lines, l) /\ args' = args /\ stage = "instructions"
        /\ IF sizeIdx < Len(sizes) THEN sizeIdx' = sizeIdx + 1 /\ stage' = stage
                                   ELSE stage' = "exit" /\ sizeIdx' = sizeIdx
    BY <1>4 DEF EndCodeTest
  <2>3. sizes' = sizes
    BY <2>2, SameArgs
  <2>4. l.kb = sizes[sizeIdx]
    BY DEF testSize
  <2>5. /\ lines \in Seq(T) /\ Len(lines) = sizeIdx - 1 /\ sizeIdx \in 1..Len(sizes)
        /\ Len(sizes) \in Nat
        /\ \A k \in 1..Len(lines) : lines[k].kb = sizes[k] /\ LineCounts(lines[k])
    BY <2>2, TestTypes DEF LinesInv, LoopInv
  <2> HIDE DEF l, T, LineCounts, sizes
  <2>6. lines' \in Seq(T) /\ Len(lines') = sizeIdx
        /\ \A k \in 1..Len(lines') : lines'[k].kb = sizes[k] /\ LineCounts(lines'[k])
    <3>1. lines' \in Seq(T) /\ Len(lines') = sizeIdx /\ lines'[sizeIdx] = l
          /\ \A k \in 1..(sizeIdx - 1) : lines'[k] = lines[k]
      BY <2>1, <2>2, <2>5
    <3> QED
      BY <2>1, <2>4, <2>5, <3>1
  <2>7. \A k \in 1..Len(lines') : LineCounts(lines[k])'
    <3>1. RetBytes' = RetBytes /\ (allocFailures > 0 => allocFailures' > 0)
      BY Always
    <3> HIDE DEF RetBytes
    <3> QED
      BY <2>6, <3>1 DEF LineCounts
  <2> QED
    BY <2>2, <2>3, <2>5, <2>6, <2>7 DEF LinesInv, T
<1> QED
  BY <1>2, <1>3, <1>4 DEF CodeTestPart

LEMMA StepStale ==
    ASSUME LineInv, LoopInv, StaleInv, Step
    PROVE  StaleInv'
<1>1. OnArm' = OnArm /\ machine' = machine
  BY Always
<1>2. machine.coherent \in BOOLEAN
  BY MachineAssumption DEF LineInv
<1>3. CASE ~CodeTestPart
  BY <1>1, <1>3, OutsideCode DEF codeVars, StaleInv
<1>4. CASE CodeTest \/ EndCodeTest
  BY <1>4 DEF CodeTest, EndCodeTest, StartCode, StaleInv
<1>5. CASE CodeTestStep
  <2>1. CodeMove
    BY <1>5, CodeMoves
  <2>2. CASE FillCode
    BY <1>1, <2>2 DEF FillCode, StaleInv, Lines
  <2>3. CASE FlushICache
    BY <1>1, <2>3 DEF FlushICache, StaleInv, Lines
  <2>4. CASE ClearCache
    BY <1>1, <1>2, <2>4 DEF ClearCache, Cleared, StaleInv, Lines
  <2>5. CASE Protect \/ AllocCodeFails \/ ProtectFails \/ EndCode
    BY <1>1, <2>5 DEF Protect, AllocCodeFails, ProtectFails, EndCode, StaleInv
  <2>6. CASE CallCode
    BY <1>1, <2>6 DEF CallCode, StaleInv
  <2> QED
    BY <2>1, <2>2, <2>3, <2>4, <2>5, <2>6 DEF CodeMove, CodeStep
<1> QED
  BY <1>3, <1>4, <1>5 DEF CodeTestPart

LEMMA CodeRunsAsWritten ==
    ASSUME StaleInv
    PROVE  CodeIsWritten
BY DEF StaleInv, CodeIsWritten

LEMMA FetchesAreCounted ==
    ASSUME LineInv, LinesInv
    PROVE  CountsTheFetches
<1> SUFFICES ASSUME stage = "exit", lines # <<>>
             PROVE  CountsTheFetches
  BY DEF CountsTheFetches
<1>1. Len(lines) = Len(sizes) /\ \A k \in 1..Len(lines) : lines[k].kb = sizes[k]
  BY DEF LinesInv
<1>2. [k \in 1..Len(lines) |-> lines[k].kb] = sizes
  BY <1>1, SizesTypes DEF LineInv
<1> QED
  BY <1>2 DEF CountsTheFetches, LinesInv, LineCounts
-----------------------------------------------------------------------------
\* The cells of the bank-conflict test.
LEMMA BankCells ==
    ASSUME NEW s \in 0..MaxSpacing, NEW k \in 0..(testPoints - 1)
    PROVE  /\ BankCell(s, k) \in 0..((MaxSpacing + 1) * testPoints - 1)
           /\ \A q \in 0..MaxSpacing, i \in 0..(testPoints - 1) :
                 BankCell(q, i) = BankCell(s, k) => q = s /\ i = k
<1>1. testPoints \in Nat /\ MaxSpacing \in Nat
  BY BankAssumption DEF testPoints
<1> DEFINE l == testPoints
           C(r, j) == (r - 1) * l + j - 1
<1>2. ASSUME NEW q \in 0..MaxSpacing, NEW i \in 0..(l - 1)
      PROVE  BankCell(q, i) = C(q + 1, i + 1) /\ q + 1 \in 1..(MaxSpacing + 1) /\ i + 1 \in 1..l
             /\ C(q + 1, i + 1) \in Int
  <2> HIDE DEF l
  <2>1. BankCell(q, i) = q * l + i
    BY DEF BankCell, l
  <2>2. q \in Nat /\ i \in Nat /\ l \in Nat /\ q + 1 - 1 = q
    BY <1>1 DEF l
  <2>3. \A x, y \in Nat : x * y \in Nat
    OBVIOUS
  <2>4. q * l \in Nat
    BY <2>2, <2>3
  <2> DEFINE p == q * l
  <2>5. (q + 1 - 1) * l = p
    BY <2>2
  <2> HIDE DEF p
  <2>6. p \in Nat
    BY <2>4 DEF p
  <2>7. C(q + 1, i + 1) = p + i
    BY <2>2, <2>5, <2>6
  <2> QED
    BY <1>1, <2>1, <2>2, <2>6, <2>7 DEF p
<1> HIDE DEF l
<1>3. l \in Nat /\ MaxSpacing + 1 \in Nat
  BY <1>1 DEF l
<1>4. s + 1 \in 1..(MaxSpacing + 1) /\ k + 1 \in 1..l /\ BankCell(s, k) = C(s + 1, k + 1)
  BY <1>2 DEF l
<1>5. BankCell(s, k) \in 0..((MaxSpacing + 1) * l - 1)
  BY <1>3, <1>4, CellRange
<1>6. ASSUME NEW q \in 0..MaxSpacing, NEW i \in 0..(l - 1), BankCell(q, i) = BankCell(s, k)
      PROVE  q = s /\ i = k
  <2>1. /\ BankCell(q, i) = C(q + 1, i + 1) /\ C(q + 1, i + 1) \in Int
        /\ q + 1 \in Nat /\ i + 1 \in 1..l
    BY <1>1, <1>2
  <2>2. s + 1 \in Nat /\ C(q + 1, i + 1) = C(s + 1, k + 1)
    BY <1>1, <1>4, <1>6, <2>1
  <2>3. ~(q + 1 < s + 1) /\ ~(q + 1 = s + 1 /\ i + 1 < k + 1)
    BY <1>3, <1>4, <2>1, <2>2, CellOnce DEF C
  <2>4. ~(s + 1 < q + 1) /\ ~(q + 1 = s + 1 /\ k + 1 < i + 1)
    BY <1>3, <1>4, <2>1, <2>2, CellOnce DEF C
  <2> QED
    BY <1>1, <1>3, <2>3, <2>4
<1> QED
  BY <1>5, <1>6 DEF l

\* Where the last block of a pass is: the array's length is even and the start of
\* a block is not, so that its loads end one to five bytes behind the array or up
\* to three before its end.
LEMMA LastBlock ==
    ASSUME NEW len \in Nat, NEW s \in Nat, len > s * 8 + 10, len % 2 = 0
    PROVE  /\ LastStart(len, s) \in Nat /\ FullReach(len, s) \in Nat
           /\ LastStart(len, s) >= s * 8 /\ (LastStart(len, s) - s * 8) % Steps = 0
           /\ LastStart(len, s) <= len - 11 /\ len - 11 < LastStart(len, s) + Steps
           /\ FullReach(len, s) = LastStart(len, s) + 17
           /\ FullReach(len, s) = len + (Width8 - 2 - ((len - Ahead - 1 - s * 8) % Steps))
           /\ FullReach(len, s) <= len + Width8 - 3
<1> DEFINE d == len - 11 - s * 8
<1>1. d \in Nat /\ d % 2 = 1 /\ d % 10 \in 0..9 /\ (d % 10) % 2 = 1 /\ d % 10 <= d
      /\ (d - (d % 10)) % 10 = 0
  OBVIOUS
<1>2. LastStart(len, s) = len - 11 - (d % 10)
  BY DEF LastStart, Ahead, Steps
<1>3. FullReach(len, s) = LastStart(len, s) + 17
  BY <1>1, <1>2 DEF FullReach, Steps, Width8
<1>4. Width8 - 2 - ((len - Ahead - 1 - s * 8) % Steps) = 6 - (d % 10)
  BY DEF Ahead, Steps, Width8
<1>5. LastStart(len, s) - s * 8 = d - (d % 10) /\ len = d + 11 + s * 8
  BY <1>1, <1>2
<1> DEFINE m == d % 10
<1>6. m >= 1 /\ m \in 0..9
  BY <1>1
<1> HIDE DEF d
<1> QED
  BY <1>1, <1>2, <1>3, <1>4, <1>5, <1>6 DEF Steps, Width8

LEMMA BankTypes ==
    ASSUME BankInv, bankIdx < testPoints
    PROVE  /\ length \in Nat /\ spacing \in Nat /\ length > spacing * 8 + 10
           /\ length % 2 = 0 /\ TotalLoads \in Nat
           /\ bankIdx \in 0..(testPoints - 1) /\ length = BankSizes[bankIdx + 1]
<1>1. testPoints \in Nat /\ MaxSpacing \in Nat /\ TotalLoads \in Nat
  BY BankAssumption DEF testPoints
<1>2. bankIdx \in 0..(testPoints - 1) /\ spacing \in 0..MaxSpacing
  BY <1>1 DEF BankInv
<1>3. bankIdx + 1 \in 1..Len(BankSizes)
  BY <1>1, <1>2 DEF testPoints
<1>4. length \in Nat /\ length > MaxSpacing * 8 + 10 /\ length % 2 = 0
  BY <1>3, BankAssumption, RoomAssumption DEF length
<1> QED
  BY <1>1, <1>2, <1>4 DEF length

\* The steps of readbankconflict.
LEMMA StepCallBank ==
    ASSUME BankInv, bankIdx < testPoints, CallBank
    PROVE  LoadsInv' /\ r9' >= 0 /\ bankPc' = "loop"
<1>1. /\ length \in Nat /\ spacing \in Nat /\ length > spacing * 8 + 10
      /\ length % 2 = 0 /\ TotalLoads \in Nat
  BY BankTypes
<1>2. /\ LastStart(length, spacing) \in Nat /\ FullReach(length, spacing) \in Nat
      /\ LastStart(length, spacing) >= spacing * 8
      /\ (LastStart(length, spacing) - spacing * 8) % Steps = 0
  BY <1>1, LastBlock
<1>3. /\ rsi' = spacing * 8 /\ r9' = TotalLoads /\ reach' = 0 /\ loads' = 0
      /\ spacing' = spacing /\ length' = length
      /\ bankPc' = IF length <= spacing * 8 THEN "back" ELSE "loop"
  BY DEF CallBank, length
<1>4. LastStart(length, spacing)' = LastStart(length, spacing)
      /\ FullReach(length, spacing)' = FullReach(length, spacing)
  BY <1>3 DEF LastStart, FullReach
<1> HIDE DEF LastStart, FullReach, length
<1> QED
  BY <1>1, <1>2, <1>3, <1>4 DEF LoadsInv

LEMMA StepBankBlock ==
    ASSUME BankInv, bankIdx < testPoints, LoadsInv, r9 >= 0, BankBlock
    PROVE  /\ LoadsInv' /\ r9' \in Int /\ r9' >= -(2 * Steps)
           /\ bankPc' = IF r9' < 0 THEN "back" ELSE "loop"
<1> DEFINE last == LastStart(length, spacing)
           full == FullReach(length, spacing)
<1>1. /\ length \in Nat /\ spacing \in Nat /\ length > spacing * 8 + 10
      /\ length % 2 = 0 /\ TotalLoads \in Nat
  BY BankTypes
<1>2. /\ last \in Nat /\ full \in Nat /\ full = last + 17
      /\ last >= spacing * 8 /\ (last - spacing * 8) % 10 = 0
      /\ last <= length - 11 /\ length - 11 < last + 10
  BY <1>1, LastBlock DEF Steps
<1>3. /\ reach' = Later(reach, rsi + 17) /\ loads' = loads + 20 /\ r9' = r9 - 20
      /\ rsi' = IF length - 10 > rsi + 10 THEN rsi + 10 ELSE spacing * 8
      /\ spacing' = spacing /\ length' = length
      /\ bankPc' = IF r9' < 0 THEN "back" ELSE "loop"
  BY DEF BankBlock, length, Steps, Width8, Ahead, LoadsInv
<1>4. last' = last /\ full' = full
  BY <1>3 DEF LastStart, FullReach
<1>5. /\ rsi \in Nat /\ r9 \in Int /\ loads \in Nat /\ reach \in Nat
      /\ rsi >= spacing * 8 /\ rsi <= last /\ (last - rsi) % 10 = 0
      /\ reach <= full
      /\ reach = full \/ loads = 2 * (rsi - spacing * 8)
      /\ loads + r9 = TotalLoads
  BY DEF LoadsInv, Steps
<1> HIDE DEF last, full, length
<1>6. /\ reach' \in Nat /\ reach' <= full /\ (reach = full => reach' = full)
      /\ (rsi = last => reach' = full)
  BY <1>2, <1>3, <1>5 DEF Later
<1>7. CASE length - 10 > rsi + 10
  <2>1. rsi + 10 <= last /\ (last - (rsi + 10)) % 10 = 0
    BY <1>1, <1>2, <1>5, <1>7
  <2>2. rsi' = rsi + 10 /\ loads' = loads + 20
    BY <1>3, <1>7
  <2>3. reach' = full \/ loads' = 2 * (rsi' - spacing * 8)
    BY <1>1, <1>5, <1>6, <2>2
  <2>4. /\ rsi' \in Nat /\ r9' \in Int /\ loads' \in Nat /\ rsi' >= spacing * 8
        /\ rsi' <= last /\ (last - rsi') % 10 = 0 /\ loads' + r9' = TotalLoads
    BY <1>1, <1>3, <1>5, <2>1, <2>2
  <2> QED
    BY <1>3, <1>4, <1>5, <1>6, <2>3, <2>4 DEF LoadsInv, last, full, Steps
<1>8. CASE ~(length - 10 > rsi + 10)
  <2>1. rsi = last
    BY <1>1, <1>2, <1>5, <1>8
  <2>2. rsi' = spacing * 8 /\ reach' = full
    BY <1>3, <1>6, <1>8, <2>1
  <2>4. /\ rsi' \in Nat /\ r9' \in Int /\ loads' \in Nat /\ rsi' >= spacing * 8
        /\ rsi' <= last /\ (last - rsi') % 10 = 0 /\ loads' + r9' = TotalLoads
    BY <1>1, <1>2, <1>3, <1>5, <2>2
  <2> QED
    BY <1>3, <1>4, <1>5, <1>6, <2>2, <2>4 DEF LoadsInv, last, full, Steps
<1> QED
  BY <1>7, <1>8

\* What a call of readbankconflict leaves behind.
LEMMA CallResult ==
    ASSUME BankInv, bankIdx < testPoints, LoadsInv, r9 < 0, r9 >= -(2 * Steps)
    PROVE  BankResultOK([size |-> bankIdx, spacing |-> spacing, reach |-> reach, loads |-> loads],
                        spacing, bankIdx)
<1> DEFINE last == LastStart(length, spacing)
           full == FullReach(length, spacing)
           r == [size |-> bankIdx, spacing |-> spacing, reach |-> reach, loads |-> loads]
<1>1. /\ length \in Nat /\ spacing \in Nat /\ length > spacing * 8 + 10
      /\ length % 2 = 0 /\ TotalLoads \in Nat /\ length = BankSizes[bankIdx + 1]
  BY BankTypes
<1>2. last \in Nat /\ full \in Nat /\ last <= length - 11
  BY <1>1, LastBlock
<1>3. /\ rsi \in Nat /\ r9 \in Int /\ loads \in Nat /\ reach \in Nat
      /\ rsi <= last /\ reach <= full /\ loads + r9 = TotalLoads
      /\ reach = full \/ loads = 2 * (rsi - spacing * 8)
  BY DEF LoadsInv
<1>4. r9 >= -20
  BY DEF Steps
<1> HIDE DEF last, full
<1>5. loads \in TotalLoads..(TotalLoads + 2 * 10)
  BY <1>1, <1>3, <1>4
<1>6. loads >= 2 * (length - spacing * 8) => reach = full
  BY <1>1, <1>2, <1>3
<1>7. r.size = bankIdx /\ r.spacing = spacing /\ r.reach = reach /\ r.loads = loads
  OBVIOUS
<1> HIDE DEF r, length
<1> QED
  BY <1>1, <1>3, <1>5, <1>6, <1>7 DEF BankResultOK, full, Steps, r

LEMMA BankReads ==
    ASSUME BankInv
    PROVE  BankReadsAreNear
<1> SUFFICES ASSUME NEW r \in BankResults
             PROVE  /\ r.reach <= BankSizes[r.size + 1] + Width8 - 3
                    /\ r.loads >= 2 * (BankSizes[r.size + 1] - r.spacing * 8) =>
                          r.reach = BankSizes[r.size + 1] + Beyond(r)
  BY DEF BankReadsAreNear
<1>1. PICK s \in 0..MaxSpacing, k \in 0..(testPoints - 1) : BankResultOK(r, s, k)
  BY DEF BankInv
<1> DEFINE len == BankSizes[k + 1]
<1>2. s \in Nat /\ k + 1 \in 1..Len(BankSizes) /\ MaxSpacing \in Nat
  BY BankAssumption DEF testPoints
<1>3. len \in Nat /\ len > s * 8 + 10 /\ len % 2 = 0
  BY <1>2, BankAssumption, RoomAssumption
<1>4. /\ r.size = k /\ r.spacing = s /\ r.reach <= FullReach(len, s)
      /\ r.loads >= 2 * (len - s * 8) => r.reach = FullReach(len, s)
  BY <1>1 DEF BankResultOK
<1>5. Beyond(r) = Width8 - 2 - ((len - Ahead - 1 - s * 8) % Steps)
  BY <1>4 DEF Beyond
<1>6. /\ FullReach(len, s) \in Nat /\ FullReach(len, s) = len + Beyond(r)
      /\ FullReach(len, s) <= len + Width8 - 3
  BY <1>2, <1>3, <1>5, LastBlock
<1>7. r.reach \in Nat /\ r.reach <= len + Width8 - 3
  <2>1. r.reach \in Nat /\ r.reach <= FullReach(len, s)
    BY <1>1 DEF BankResultOK
  <2> DEFINE full == FullReach(len, s)
  <2> HIDE DEF full
  <2> QED
    BY <1>3, <1>6, <2>1 DEF Width8, full
<1>8. r.loads >= 2 * (len - s * 8) => r.reach = len + Beyond(r)
  BY <1>4, <1>6
<1> QED
  BY <1>4, <1>7, <1>8

LEMMA InitBank ==
    ASSUME MainInit
    PROVE  BankInv
<1>1. /\ bankPc = "off" /\ bankIdx = 0 /\ spacing = 0 /\ bankTable = <<>>
      /\ resultArr = [c \in 0..((MaxSpacing + 1) * testPoints - 1) |-> NoResult]
  BY DEF MainInit, BankInit
<1>2. bankIdx \in 0..testPoints /\ spacing \in 0..MaxSpacing
      /\ \A k \in 0..(testPoints - 1) : ~(k < bankIdx)
  BY <1>1, BankAssumption DEF testPoints
<1>3. BankResults = {}
  <2>1. \A c \in DOMAIN resultArr : resultArr[c] = NoResult
    BY <1>1
  <2> QED
    BY <2>1 DEF BankResults
<1> QED
  BY <1>1, <1>2, <1>3 DEF BankInv, BankTableIsOwn

\* The bank-conflict test's own part is touched in its own steps only.
LEMMA OutsideBank ==
    ASSUME Step, ~BankTest
    PROVE  UNCHANGED bankVars /\ (stage = "banks" => stage' = "banks")
<1>1. CASE ParseStep
  BY <1>1, ParseLeaves DEF Parsing
<1>2. CASE Choose
  BY <1>2 DEF Choose, NotTesting
<1>3. CASE DataTest
  BY <1>3, DataParts DEF mainVars
<1>4. CASE IllegalInstruction
  BY <1>4 DEF IllegalInstruction
<1>5. CASE CodeTestPart
  BY <1>5, CodeLeaves
<1>6. CASE UNCHANGED allVars
  BY <1>6 DEF allVars, mainVars
<1> QED
  BY <1>1, <1>2, <1>3, <1>4, <1>5, <1>6, Parts

\* A result is kept in its own cell.
LEMMA StepEndCall ==
    ASSUME BankInv, EndBankCall
    PROVE  /\ DOMAIN resultArr' = 0..((MaxSpacing + 1) * testPoints - 1)
           /\ \A s \in 0..MaxSpacing, k \in 0..(testPoints - 1) :
                 k < bankIdx \/ (k = bankIdx /\ s < spacing + 1) =>
                    BankResultOK(resultArr'[BankCell(s, k)], s, k)
           /\ \A r \in BankResults' :
                 \E s \in 0..MaxSpacing, k \in 0..(testPoints - 1) : BankResultOK(r, s, k)
<1> DEFINE new == [size |-> bankIdx, spacing |-> spacing, reach |-> reach, loads |-> loads]
           here == BankCell(spacing, bankIdx)
<1>1. /\ bankPc = "back" /\ bankIdx < testPoints /\ LoadsInv /\ r9 < 0 /\ r9 >= -(2 * Steps)
      /\ spacing \in 0..MaxSpacing
  BY DEF EndBankCall, BankInv
<1>2. resultArr' = [resultArr EXCEPT ![here] = new]
  BY DEF EndBankCall
<1>3. BankResultOK(new, spacing, bankIdx)
  BY <1>1, CallResult
<1>4. bankIdx \in 0..(testPoints - 1) /\ testPoints \in Nat /\ MaxSpacing \in Nat
  BY <1>1, BankTypes, BankAssumption DEF testPoints
<1>5. DOMAIN resultArr = 0..((MaxSpacing + 1) * testPoints - 1)
  BY DEF BankInv
<1> HIDE DEF new, here, BankCell, BankResultOK
<1>6. here \in DOMAIN resultArr
  BY <1>1, <1>4, <1>5, BankCells DEF here
<1>7. resultArr'[here] = new /\ DOMAIN resultArr' = DOMAIN resultArr
      /\ \A c \in DOMAIN resultArr : c # here => resultArr'[c] = resultArr[c]
  BY <1>2, <1>6
<1>8. ASSUME NEW s \in 0..MaxSpacing, NEW k \in 0..(testPoints - 1),
             k < bankIdx \/ (k = bankIdx /\ s < spacing + 1)
      PROVE  BankResultOK(resultArr'[BankCell(s, k)], s, k)
  <2>1. CASE s = spacing /\ k = bankIdx
    BY <1>3, <1>7, <2>1 DEF here
  <2>2. CASE ~(s = spacing /\ k = bankIdx)
    <3>1. k < bankIdx \/ (k = bankIdx /\ s < spacing)
      BY <1>1, <1>4, <1>8, <2>2
    <3>2. BankResultOK(resultArr[BankCell(s, k)], s, k)
      BY <1>1, <3>1 DEF BankInv
    <3>3. BankCell(s, k) \in DOMAIN resultArr
      BY <1>5, BankCells
    <3>4. BankCell(s, k) # here
      BY <1>1, <1>4, <2>2, BankCells DEF here
    <3> QED
      BY <1>7, <3>2, <3>3, <3>4
  <2> QED
    BY <2>1, <2>2
<1>9. \A r \in BankResults' : r \in BankResults \/ r = new
  <2>1. \A c \in DOMAIN resultArr' : c \in DOMAIN resultArr /\ (resultArr'[c] = resultArr[c] \/ resultArr'[c] = new)
    BY <1>7
  <2> QED
    BY <2>1 DEF BankResults
<1>10. \A r \in BankResults' :
         \E s \in 0..MaxSpacing, k \in 0..(testPoints - 1) : BankResultOK(r, s, k)
  <2>1. \A r \in BankResults :
           \E s \in 0..MaxSpacing, k \in 0..(testPoints - 1) : BankResultOK(r, s, k)
    BY DEF BankInv
  <2> QED
    BY <1>1, <1>3, <1>4, <1>9, <2>1
<1> QED
  BY <1>5, <1>7, <1>8, <1>10

\* The table is read from where the results were kept.
LEMMA StepPrintBank ==
    ASSUME BankInv, PrintBankTable
    PROVE  BankTableIsOwn'
<1>1. /\ bankPc = "alloc" /\ bankIdx = testPoints /\ bankHeap = {"resultArr"}
      /\ bankHeap' = bankHeap \ {"resultArr"} /\ resultArr' = resultArr
      /\ bankTable' = [i \in 1..testPoints |->
                         [s \in 0..MaxSpacing |-> resultArr[BankCell(s, i - 1)]]]
  BY DEF PrintBankTable, BankInv
<1>2. testPoints \in Nat \ {0} /\ MaxSpacing \in Nat
  BY BankAssumption DEF testPoints
<1>3. bankHeap' = {} /\ DOMAIN bankTable' = 1..testPoints
  BY <1>1
<1>4. bankTable' # <<>>
  <2>1. 1 \in DOMAIN bankTable'
    BY <1>2, <1>3
  <2>2. DOMAIN <<>> = {}
    OBVIOUS
  <2> QED
    BY <2>1, <2>2
<1>5. ASSUME NEW i \in 1..testPoints, NEW s \in 0..MaxSpacing
      PROVE  /\ bankTable'[i][s].size = i - 1 /\ bankTable'[i][s].spacing = s
             /\ bankTable'[i][s].loads \in TotalLoads..(TotalLoads + 2 * Steps)
  <2>1. i - 1 \in 0..(testPoints - 1) /\ i - 1 < bankIdx
    BY <1>1, <1>2
  <2>2. BankResultOK(resultArr[BankCell(s, i - 1)], s, i - 1)
    BY <2>1 DEF BankInv
  <2>3. bankTable'[i][s] = resultArr[BankCell(s, i - 1)]
    BY <1>1
  <2> HIDE DEF BankCell
  <2> QED
    BY <2>2, <2>3 DEF BankResultOK
<1> QED
  BY <1>3, <1>4, <1>5 DEF BankTableIsOwn

LEMMA StepBank ==
    ASSUME BankInv, Step
    PROVE  BankInv'
<1>1. CASE ~BankTest
  <2>1. UNCHANGED bankVars /\ (stage = "banks" => stage' = "banks")
    BY <1>1, OutsideBank
  <2>2. /\ UNCHANGED <<bankPc, bankIdx, spacing, rsi, r9, reach, loads>>
        /\ UNCHANGED <<resultArr, bankTable, bankHeap>>
    BY <2>1 DEF bankVars, callVars
  <2>3. LoadsInv' = LoadsInv /\ BankResults' = BankResults /\ BankTableIsOwn' = BankTableIsOwn
    BY <2>2 DEF LoadsInv, length, BankResults, BankTableIsOwn
  <2> HIDE DEF LoadsInv, BankResults, BankTableIsOwn, BankResultOK, BankCell
  <2> QED
    BY <2>1, <2>2, <2>3 DEF BankInv
<1>2. CASE BankTest
  <2>1. stage = "banks" /\ stage' = stage
    BY <1>2 DEF BankTest, mainVars
  <2>2. testPoints \in Nat \ {0} /\ MaxSpacing \in Nat
    BY BankAssumption DEF testPoints
  <2>3. UNCHANGED resultArr => BankResults' = BankResults
    BY DEF BankResults
  <2> HIDE DEF BankResults, BankCell, BankResultOK
  <2>4. CASE bankPc = "off" /\ StartBankTest
    <3>1. bankPc' # "returned"
      BY <2>4 DEF StartBankTest
    <3> QED
      BY <2>1, <2>3, <2>4, <3>1 DEF StartBankTest, BankInv, BankTableIsOwn
  <2>5. CASE AllocBank
    <3>1. 0 \in 0..MaxSpacing /\ \A s \in 0..MaxSpacing : ~(s < 0)
      BY <2>2
    <3>2. bankHeap' = {"resultArr", "arr"} /\ bankPc' = "call" /\ spacing' = 0
          /\ bankIdx < testPoints /\ bankPc = "alloc"
          /\ UNCHANGED <<bankIdx, resultArr, bankTable>>
      BY <2>5 DEF AllocBank, BankInv
    <3> QED
      BY <2>1, <2>3, <3>1, <3>2 DEF BankInv, BankTableIsOwn
  <2>6. CASE AllocBankFails
    <3>1. /\ bankPc' = "returned" /\ bankPc = "alloc" /\ bankHeap' = {"resultArr"}
          /\ bankTable' = <<>> /\ UNCHANGED <<bankIdx, spacing, resultArr>>
      BY <2>6 DEF AllocBankFails, BankInv
    <3>2. DOMAIN bankTable' = {}
      BY <3>1
    <3>3. BankTableIsOwn'
      BY <3>1, <3>2 DEF BankTableIsOwn
    <3> HIDE DEF BankTableIsOwn
    <3> QED
      BY <2>1, <2>3, <3>1, <3>3 DEF BankInv
  <2>7. CASE CallBank
    <3>1. /\ bankPc = "call" /\ bankIdx < testPoints
          /\ UNCHANGED <<bankIdx, spacing, resultArr, bankTable, bankHeap>>
      BY <2>7 DEF CallBank, BankInv
    <3>2. LoadsInv' /\ r9' >= 0 /\ bankPc' = "loop"
      BY <2>7, <3>1, StepCallBank
    <3> HIDE DEF LoadsInv
    <3> QED
      BY <2>1, <2>3, <3>1, <3>2 DEF BankInv, BankTableIsOwn
  <2>8. CASE BankBlock
    <3>1. /\ bankPc = "loop" /\ bankIdx < testPoints /\ LoadsInv /\ r9 >= 0
          /\ UNCHANGED <<bankIdx, spacing, resultArr, bankTable, bankHeap>>
      BY <2>8 DEF BankBlock, BankInv
    <3>2. /\ LoadsInv' /\ r9' \in Int /\ r9' >= -(2 * Steps)
          /\ bankPc' = IF r9' < 0 THEN "back" ELSE "loop"
      BY <2>8, <3>1, StepBankBlock
    <3>3. r9' < 0 \/ r9' >= 0
      BY <3>2
    <3> HIDE DEF LoadsInv
    <3> QED
      BY <2>1, <2>3, <3>1, <3>2, <3>3 DEF BankInv, BankTableIsOwn
  <2>9. CASE EndBankCall
    <3>1. /\ DOMAIN resultArr' = 0..((MaxSpacing + 1) * testPoints - 1)
          /\ \A s \in 0..MaxSpacing, k \in 0..(testPoints - 1) :
                k < bankIdx \/ (k = bankIdx /\ s < spacing + 1) =>
                   BankResultOK(resultArr'[BankCell(s, k)], s, k)
          /\ \A r \in BankResults' :
                \E s \in 0..MaxSpacing, k \in 0..(testPoints - 1) : BankResultOK(r, s, k)
      BY <2>9, StepEndCall
    <3>2. /\ bankPc = "back" /\ bankIdx < testPoints /\ bankTable' = bankTable /\ bankTable = <<>>
          /\ bankHeap = {"resultArr", "arr"} /\ spacing \in 0..MaxSpacing /\ bankIdx \in 0..testPoints
      BY <2>9 DEF EndBankCall, BankInv
    <3>3. CASE MoreSpacings
      <4>1. /\ bankPc' = "call" /\ spacing' = spacing + 1 /\ spacing' \in 0..MaxSpacing
            /\ bankIdx' = bankIdx /\ bankHeap' = bankHeap
        BY <2>2, <2>9, <3>2, <3>3 DEF EndBankCall, MoreSpacings
      <4> QED
        BY <2>1, <3>1, <3>2, <4>1 DEF BankInv, BankTableIsOwn
    <3>4. CASE ~MoreSpacings
      <4>1. /\ bankPc' = "alloc" /\ spacing' = spacing /\ spacing = MaxSpacing
            /\ bankIdx' = bankIdx + 1 /\ bankIdx' \in 0..testPoints
            /\ bankHeap' = {"resultArr"}
        BY <2>2, <2>9, <3>2, <3>4 DEF EndBankCall, MoreSpacings
      <4>2. ASSUME NEW s \in 0..MaxSpacing, NEW k \in 0..(testPoints - 1), k < bankIdx'
            PROVE  k < bankIdx \/ (k = bankIdx /\ s < spacing + 1)
        BY <2>2, <3>2, <4>1, <4>2
      <4>3. /\ bankPc' \notin {"off", "call", "loop", "back", "returned"}
            /\ \A s \in 0..MaxSpacing, k \in 0..(testPoints - 1) :
                k < bankIdx' => BankResultOK(resultArr'[BankCell(s, k)], s, k)
        BY <3>1, <4>1, <4>2
      <4> QED
        BY <2>1, <3>1, <3>2, <4>1, <4>3 DEF BankInv, BankTableIsOwn
    <3> QED
      BY <3>3, <3>4
  <2>10. CASE PrintBankTable
    <3>1. BankTableIsOwn'
      BY <2>10, StepPrintBank
    <3>2. /\ bankPc' = "returned" /\ bankPc = "alloc"
          /\ UNCHANGED <<bankIdx, spacing, resultArr>>
      BY <2>10 DEF PrintBankTable
    <3> HIDE DEF BankTableIsOwn
    <3> QED
      BY <2>1, <2>3, <3>1, <3>2 DEF BankInv
  <2> QED
    BY <1>2, <2>4, <2>5, <2>6, <2>7, <2>8, <2>9, <2>10 DEF BankTest, BankStep
<1> QED
  BY <1>1, <1>2
-----------------------------------------------------------------------------
\* The inductive invariant of main().
MainInv == /\ LineInv /\ MethodInv
           /\ LoopInv /\ ThreadInv /\ HeapInv /\ WorkInv /\ ResultInv
           /\ CodeInv /\ LinesInv /\ StaleInv
           /\ BankInv

LEMMA MainStarts ==
    ASSUME MainInit
    PROVE  MainInv
BY InitLine, InitMethod, InitLoop, InitThreads, InitHeap, InitWork, InitResults, InitCode,
   InitBank
   DEF MainInv

LEMMA MainSteps ==
    ASSUME MainInv, Step
    PROVE  MainInv'
<1>1. LineInv'
  BY StepLine DEF MainInv, LoopInv
<1>2. MethodInv' /\ LoopInv' /\ ThreadInv' /\ HeapInv'
  BY <1>1, StepMethod, StepLoop, StepThreads, StepHeap DEF MainInv
<1>3. WorkInv' /\ ResultInv'
  BY <1>1, StepWork, StepResults DEF MainInv
<1>4. CodeInv' /\ LinesInv' /\ StaleInv' /\ BankInv'
  BY StepCode, StepLines, StepStale, StepBank DEF MainInv
<1> QED
  BY <1>1, <1>2, <1>3, <1>4 DEF MainInv

LEMMA MainIsInvariant == MainSpec => []MainInv
<1>1. MainInit => MainInv
  BY MainStarts
<1>2. MainInv /\ [MainNext \/ Exited]_allVars => MainInv'
  BY MainSteps DEF Step
<1> QED
  BY <1>1, <1>2, PTL DEF MainSpec

\* Whatever main() is given, its variables have their types and the tests their
\* stages.
THEOREM MainTypeCorrect == MainSpec => []MainTypeOK
<1>1. MainInv => MainTypeOK
  <2> SUFFICES ASSUME MainInv
               PROVE  MainTypeOK
    OBVIOUS
  <2>1. LineInv /\ LoopInv /\ ThreadInv /\ HeapInv /\ CodeInv /\ BankInv
    BY DEF MainInv
  <2>2. lastRound \in Nat \ {0} /\ Max(args.threads, args.autothreads) \in Nat \ {0}
    BY <2>1, TestTypes
  <2>3. TypeOK
    <3>1. args \in Args /\ gbToTransfer \in Nat
      BY <2>1 DEF LineInv
    <3>2. /\ iterations \in Nat /\ moved \in Nat
          /\ pc \in {"test", "alloc", "create", "join", "report", "print", "done", "crashed"}
          /\ sizeIdx \in 1..Len(sizes)
          /\ \A t \in DOMAIN tstate : tstate[t] \in {"none", "running", "exited"}
          /\ \A b \in heap : b.block \in {"tables", "arr"}
      BY <2>1 DEF LoopInv, ThreadInv, HeapInv
    <3>3. threadIdx \in 1..(lastRound + 1)
      <4>1. threadIdx \in Nat \ {0} /\ (threadIdx = lastRound + 1 \/ threadIdx <= lastRound)
        BY <2>1 DEF LoopInv
      <4> HIDE DEF lastRound
      <4> QED
        BY <2>2, <4>1
    <3>4. n \in 1..Max(args.threads, args.autothreads)
      <4>1. n \in Nat \ {0} /\ n <= Max(args.threads, args.autothreads)
        BY <2>1 DEF LoopInv
      <4> HIDE DEF Max
      <4> QED
        BY <2>2, <4>1
    <3> HIDE DEF sizes
    <3> QED
      BY <3>1, <3>2, <3>3, <3>4 DEF TypeOK
  <2>4. /\ stage \in {"parse", "data", "instructions", "banks", "exit", "killed"}
        /\ argIdx \in 1..(Len(cmdline) + 1)
        /\ stage \notin {"data", "killed"} => pc = "test" /\ heap = {}
    BY <2>1 DEF LineInv, LoopInv, HeapInv
  <2>5. /\ codePc # "off" => stage = "instructions"
        /\ lost \in 0..allocFailures
    BY <2>1 DEF CodeInv
  <2>6. /\ bankPc # "off" => stage = "banks"
        /\ bankIdx \in 0..testPoints /\ spacing \in 0..MaxSpacing
    BY <2>1 DEF BankInv
  <2> QED
    BY <2>3, <2>4, <2>5, <2>6 DEF MainTypeOK
<1> QED
  BY <1>1, MainIsInvariant, PTL

\* No thread is inside its kernel after its array was freed, nothing is lost but
\* after a failed allocation, and bank-conflict loads end at most five bytes behind
\* their array, by the length and the spacing: for every number of threads, sizes
\* and failures.
THEOREM MemoryStaysLive == MainSpec => []ReadsLiveMemory
<1>1. MainInv => ReadsLiveMemory
  BY MemoryIsLive, BankReads DEF MainInv, ReadsLiveMemory
<1> QED
  BY <1>1, MainIsInvariant, PTL

\* The bandwidth that is reported is that of the accesses the threads made unless
\* a thread could not be created, and every line of the instruction test is about
\* its own size and no more bytes than were fetched.
THEOREM ReportsAreTrue == MainSpec => []ReportsCountTheWork
<1>1. MainInv => ReportsCountTheWork
  BY FetchesAreCounted DEF MainInv, ReportsCountTheWork, ReportCountsWork, WorkInv
<1> QED
  BY <1>1, MainIsInvariant, PTL

\* Each printed line, and each cell of both tables, holds the result of the test it
\* is printed for, and none is missing.
THEOREM ResultsAreTheirOwn == MainSpec => []ResultsAreOwn
<1>1. MainInv => ResultsAreOwn
  BY DEF MainInv, ResultsAreOwn, ResultInv, BankInv
<1> QED
  BY <1>1, MainIsInvariant, PTL

\* The kernel and the test are those of the method asked for, or the best kernel
\* the processor can run; the methods for x86 only are passed over on ARM.
THEOREM MethodAskedFor == MainSpec => []MeasuresTheMethod
<1>1. MainInv => MeasuresTheMethod
  BY MethodIsMeasured DEF MainInv
<1> QED
  BY <1>1, MainIsInvariant, PTL

\* When the array of nops is called, what may still not be as written is the line
\* of its return, and only on ARM without coherent caches; only ARM may crash.
THEOREM CodeCalledIsWritten == MainSpec => []CodeIsWritten
<1>1. MainInv => CodeIsWritten
  BY CodeRunsAsWritten DEF MainInv
<1> QED
  BY <1>1, MainIsInvariant, PTL
=============================================================================
