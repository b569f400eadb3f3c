---------------------------- MODULE BandwidthMain ----------------------------
(***************************************************************************)
(* main() of MemoryBandwidth.c: the command line, the choice of the kernel *)
(* and one of three tests: instruction fetch (InstructionFetch), bank      *)
(* conflicts (BankConflict) or data bandwidth (MemoryBandwidth).  Options  *)
(* are modelled by what they set; -sleep and -branchinterval set nothing   *)
(* that is modelled.                                                       *)
(***************************************************************************)
EXTENDS MemoryBandwidth, InstructionFetch, BankConflict

CONSTANTS Runs      \* the machines and command lines to try

\* An option with its value: a number, None without one, or the name of a method.
None == -1
Options == [opt : STRING, value : Nat \cup {None}, name : STRING]

\* MeasureBw() divides by the number of threads.
ASSUME RunsAssumption ==
    \A r \in Runs : /\ r.machine \in Machines
                    /\ r.cmdline \in Seq(Options)
                    /\ \A k \in 1..Len(r.cmdline) :
                          r.cmdline[k].opt = "threads" => r.cmdline[k].value # 0

VARIABLES
    cmdline, argIdx,    \* argIdx from 1
    stage,
    bw_func,
    methodSet, testInstructionBandwidth, testBankConflict,
    lines               \* printed by the instruction test

optionVars == <<bw_func, methodSet, testInstructionBandwidth, testBankConflict>>
mainVars == <<machine, cmdline, argIdx, stage, optionVars, lines>>
allVars == <<vars, codeVars, bankVars, mainVars>>

Has(feature) == feature \in machine.features

Option == cmdline[argIdx]
Current == Option.opt
HasValue == IF Current = "method" THEN Option.name # "" ELSE Option.value # None

MainInit ==
    /\ \E r \in Runs : machine = r.machine /\ cmdline = r.cmdline
    /\ Init
    /\ CodeInit /\ BankInit
    /\ argIdx = 1
    /\ stage = "parse"
    /\ bw_func = "asm_read"
    /\ methodSet = FALSE
    /\ testInstructionBandwidth = FALSE /\ testBankConflict = FALSE
    /\ lines = <<>>

-----------------------------------------------------------------------------
Parsing == stage = "parse" /\ argIdx <= Len(cmdline)
NotTesting == UNCHANGED <<codeVars, bankVars, machine, cmdline, lines>>
ArgsOnly == UNCHANGED <<pc, threadIdx, sizeIdx, iterations, n, tstate, moved, heap,
                        threadResults, printed, failVars>>

ParseFlag ==
    /\ Parsing /\ Current \in {"shared", "private"}
    /\ args' = [args EXCEPT !.shared = Current = "shared"]
    /\ argIdx' = argIdx + 1
    /\ UNCHANGED <<stage, optionVars, gbToTransfer>> /\ ArgsOnly /\ NotTesting

ParseNumber ==
    /\ Parsing /\ HasValue
    /\ \/ /\ Current \in {"threads", "autothreads"}
          /\ args' = [args EXCEPT ![Current] = Option.value]
          /\ UNCHANGED gbToTransfer
       \/ /\ Current = "sizekb"
          /\ args' = [args EXCEPT !.singleSize = Option.value]
          /\ UNCHANGED gbToTransfer
       \/ /\ Current = "data"
          /\ gbToTransfer' = Option.value
          /\ UNCHANGED args
       \/ /\ Current \in {"sleep", "branchinterval"}
          /\ UNCHANGED <<args, gbToTransfer>>
    /\ argIdx' = argIdx + 1
    /\ UNCHANGED <<stage, optionVars>> /\ ArgsOnly /\ NotTesting

Avx512Or(kernel, other) ==
    IF machine.arch = "x86" /\ Has("avx512") THEN kernel ELSE other

\* What -method sets bw_func to; other names leave it alone.
KernelFor(name) ==
    CASE name = "scalar" -> "scalar_read"
      [] name = "asm" -> "asm_read"
      [] name = "write" -> Avx512Or("avx512_write", "asm_write")
      [] name = "copy" -> Avx512Or("avx512_copy", "asm_copy")
      [] name = "cflip" -> "asm_cflip"
      [] name = "add" -> Avx512Or("avx512_add", "asm_add")
      [] machine.arch = "x86" /\ name = "avx512" -> "avx512_read"
      [] machine.arch = "x86" /\ name = "sse_write" -> "sse_write"
      [] machine.arch = "x86" /\ name = "sse" -> "sse_read"
      [] OTHER -> bw_func

ParseMethod ==
    /\ Parsing /\ Current = "method" /\ HasValue
    /\ methodSet' = TRUE
    /\ bw_func' = KernelFor(Option.name)
    /\ testInstructionBandwidth' = (testInstructionBandwidth
                                    \/ Option.name \in {"instr8", "instr4"})
    /\ testBankConflict' = (testBankConflict
                             \/ (machine.arch = "x86" /\ Option.name = "readbankconflict"))
    /\ argIdx' = argIdx + 1
    /\ UNCHANGED <<stage, args, gbToTransfer>> /\ ArgsOnly /\ NotTesting

\* -help, an unknown option, or a value that is missing.
ParseFails ==
    /\ Parsing
    /\ \/ Current \notin {"shared", "private", "threads", "autothreads", "sizekb",
                          "data", "sleep", "branchinterval", "method"}
       \/ Current \notin {"shared", "private"} /\ ~HasValue
    /\ stage' = "exit"
    /\ UNCHANGED <<argIdx, optionVars, args, gbToTransfer>> /\ ArgsOnly /\ NotTesting

\* Mutant of BestKernel: AVX is what is there if nothing else is.
BestKernelAvx == IF Has("avx512") THEN "avx512_read" ELSE "asm_read"

BestKernel == IF Has("avx512") THEN "avx512_read"
              ELSE IF Has("avx") THEN "asm_read"
              ELSE IF Has("sse") THEN "sse_read"
              ELSE "scalar_read"

\* The arguments are read; the kernel is chosen where no method was given, and
\* the result table of the automatic mode allocated.
Choose ==
    /\ stage = "parse" /\ argIdx > Len(cmdline)
    /\ bw_func' = IF ~methodSet /\ machine.arch = "x86" THEN BestKernel ELSE bw_func
    /\ stage' = IF testInstructionBandwidth THEN "instructions"
                ELSE IF testBankConflict THEN "banks" ELSE "data"
    /\ threadResults' = [c \in 0..(args.autothreads * Len(sizes) - 1) |-> Unset]
    /\ tstate' = NoThreads
    /\ UNCHANGED <<args, gbToTransfer, argIdx, methodSet, testInstructionBandwidth,
                   testBankConflict, pc, threadIdx, sizeIdx, iterations, n, moved, heap,
                   printed, failVars>>
    /\ NotTesting

-----------------------------------------------------------------------------
AllocFailure ==
    allocFailures < MaxAllocFailures /\ allocFailures' = allocFailures + 1

\* What a kernel needs of the processor.
Needs(kernel) ==
    IF machine.arch = "arm" THEN {}
    ELSE CASE kernel \in {"avx512_read", "avx512_write", "avx512_copy",
                          "avx512_add"} -> {"avx512"}
           [] kernel \in {"asm_read", "asm_write", "asm_copy", "asm_cflip",
                          "asm_add"} -> {"avx"}
           [] kernel \in {"sse_read", "sse_write"} -> {"sse"}
           [] OTHER -> {}
Runnable == Needs(bw_func) \subseteq machine.features

DataTest ==
    /\ stage = "data"
    /\ Main \/ (Runnable /\ AThread)
    /\ UNCHANGED <<codeVars, bankVars, mainVars>>

IllegalInstruction ==
    /\ stage = "data" /\ ~Runnable
    /\ \E t \in DOMAIN tstate : tstate[t] = "running"
    /\ stage' = "killed"
    /\ UNCHANGED <<vars, codeVars, bankVars, machine, cmdline, argIdx, optionVars, lines>>

\* gbToTransfer and the index over the sizes are the data test's.
CodeTest ==
    /\ stage = "instructions" /\ codePc = "off" /\ sizeIdx <= Len(sizes)
    /\ gbToTransfer' = GbAfter(gbToTransfer, testSize)
    /\ StartCode(testSize, GetIterationCount(gbToTransfer', testSize))
    /\ UNCHANGED <<args, threadIdx, sizeIdx, pc, iterations, n, tstate, moved, heap,
                   outVars, failVars, bankVars, mainVars>>

CodeTestStep ==
    /\ stage = "instructions"
    /\ \/ CodeStep /\ UNCHANGED failVars
       \/ /\ AllocCodeFails \/ ProtectFails
          /\ AllocFailure /\ UNCHANGED createFailures
    /\ UNCHANGED <<loopVars, pc, testVars, outVars, bankVars, cmdline, argIdx, stage,
                   optionVars, lines>>

EndCodeTest ==
    /\ stage = "instructions" /\ codePc = "returned"
    /\ lines' = Append(lines, [kb |-> testSize, bytes |-> measured,
                              fetched |-> fetched, calls |-> calls])
    /\ codePc' = "off"
    /\ IF sizeIdx < Len(sizes)
         THEN sizeIdx' = sizeIdx + 1 /\ UNCHANGED stage
         ELSE stage' = "exit" /\ UNCHANGED sizeIdx
    /\ UNCHANGED <<args, threadIdx, pc, testVars, outVars, failVars, codeKb, codeIterations,
                   calls, stale, fetched, measured, lost, bankVars, machine, cmdline,
                   argIdx, optionVars>>

BankTest ==
    /\ stage = "banks"
    /\ \/ bankPc = "off" /\ StartBankTest /\ UNCHANGED failVars
       \/ BankStep /\ UNCHANGED failVars
       \/ AllocBankFails /\ AllocFailure /\ UNCHANGED createFailures
    /\ UNCHANGED <<loopVars, pc, testVars, outVars, codeVars, mainVars>>

Over == \/ stage \in {"exit", "killed"}
        \/ stage = "data" /\ pc \in {"done", "crashed"}
        \/ codePc = "crashed" \/ bankPc = "returned"

MainNext == \/ ParseFlag \/ ParseNumber \/ ParseMethod \/ ParseFails \/ Choose
            \/ DataTest \/ IllegalInstruction
            \/ CodeTest \/ CodeTestStep \/ EndCodeTest \/ BankTest
Exited == Over /\ UNCHANGED allVars

MainSpec == MainInit /\ [][MainNext \/ Exited]_allVars /\ WF_allVars(MainNext)
-----------------------------------------------------------------------------
(* Type invariant of main(). *)
MainTypeOK ==
    /\ TypeOK
    /\ stage \in {"parse", "data", "instructions", "banks", "exit", "killed"}
    /\ argIdx \in 1..(Len(cmdline) + 1)
    /\ stage \notin {"data", "killed"} => pc = "test" /\ heap = {}
    /\ codePc # "off" => stage = "instructions"
    /\ bankPc # "off" => stage = "banks"
    /\ bankIdx \in 0..testPoints /\ spacing \in 0..MaxSpacing
    /\ lost \in 0..allocFailures

\* The methods of the help text.
Methods == {"scalar", "asm", "write", "copy", "cflip", "add", "instr8", "instr4",
            "avx512", "sse", "sse_write", "readbankconflict"}
X86Only == {"sse", "sse_write", "avx512", "readbankconflict"}
Named == {cmdline[k].name : k \in {j \in 1..Len(cmdline) : cmdline[j].opt = "method"}}

\* What each method of the help text measures.
Access(name) == CASE name \in {"scalar", "asm", "sse", "avx512"} -> "read"
                  [] name \in {"write", "sse_write"} -> "write"
                  [] OTHER -> name
Reads == <<"scalar_read", "sse_read", "asm_read", "avx512_read">>
AccessBy(kernel) ==
    CASE \E k \in 1..4 : kernel = Reads[k] -> "read"
      [] kernel \in {"asm_write", "sse_write", "avx512_write"} -> "write"
      [] kernel \in {"asm_copy", "avx512_copy"} -> "copy"
      [] kernel \in {"asm_add", "avx512_add"} -> "add"
      [] kernel = "asm_cflip" -> "cflip"

(* Without a method the best kernel the processor can run is taken, and a    *)
(* method of the help text is what is measured, except that the four that    *)
(* are for x86 only are passed over without a word on ARM: the test that is  *)
(* run there is asm's.  Whatever the order of the options, an illegal        *)
(* instruction needs a method that was named.                                *)
MeasuresTheMethod ==
    stage \notin {"parse", "exit"} =>
        /\ Named = {} /\ stage = "data" =>
              /\ Runnable
              /\ \A k \in 1..4 : machine.arch = "x86" /\ bw_func = Reads[k] =>
                    \A j \in (k + 1)..4 : ~(Needs(Reads[j]) \subseteq machine.features)
        /\ stage = "killed" => Named # {}
        /\ \A name \in Methods : Named = {name} =>
              IF OnArm /\ name \in X86Only THEN stage = "data" /\ bw_func = "asm_read"
              ELSE CASE name = "readbankconflict" -> stage = "banks"
                     [] name \in {"instr8", "instr4"} -> stage = "instructions"
                     [] OTHER -> /\ stage \in {"data", "killed"}
                                 /\ AccessBy(bw_func) = Access(name)

\* All lines that the instruction test prints.
CountsTheFetches ==
    stage = "exit" /\ lines # <<>> =>
        /\ [k \in 1..Len(lines) |-> lines[k].kb] = sizes
        /\ \A k \in 1..Len(lines) :
              LET l == lines[k]
              IN  IF l.bytes = 0 THEN allocFailures > 0
                  ELSE l.bytes <= l.fetched
                       /\ l.fetched - l.bytes < l.calls * RetBytes

(* What is reported was transferred: by the kernels, unless a thread could   *)
(* not be created, and by the instruction test, which prints one line for    *)
(* every size asked for, in order: its rate is computed from all bytes of    *)
(* the nops and from no more than were fetched, and is 0 only where memory   *)
(* ran out.                                                                  *)
ReportsCountTheWork == ReportCountsWork /\ CountsTheFetches

(* Every line and cell of the data and bank-conflict tables is about its own *)
(* test, and none is missing unless memory ran out.                          *)
ResultsAreOwn == PrintsOwnResults /\ BankTableIsOwn

(* No thread is inside its kernel when its array is gone and nothing is lost *)
(* but after a failed allocation; bank-conflict loads go up to five bytes    *)
(* behind their array, although "we're reading 10B ahead".                   *)
ReadsLiveMemory == ThreadsUseLiveMemory /\ BankReadsAreNear

(* Every command line ends, whether memory or threads run out or not.        *)
MainEnds == <>Over
=============================================================================
