# A TLA+ verification project for uArchTest

uArchTest is a collection of CPU micro-benchmarks: small C programs with
assembly kernels, a C# generator of further benchmarks, and shell scripts that
run the generated ones under gem5.  What can go wrong in such programs is
rarely a crash: a benchmark that measures something else than it says prints a
plausible number.  The properties here therefore say what a measurement is
entitled to claim: which CPUs, which bytes, how many operations, whose run.

Contents: [inventory](#inventory), [modules](#modules-and-how-they-correspond-to-the-code),
[runs](#runs), [bounds](#bounds), [fairness](#fairness), [proofs](#proofs),
[findings](#findings), [not modelled](#what-is-not-modelled), [plan](#plan).

## Inventory

| part | state it keeps | operations | what is hard | what makes it correct |
|---|---|---|---|---|
| `CoherencyLatency` | one counter per cache line (`bouncyBase`), thread parameters in `RunTest()`'s stack frame, result matrices | sweep over offsets and CPU pairs; create, run and join two threads | two threads and `main()` interleave; one of two `pthread_create` calls may fail; the frame dies while a thread still uses it | each matrix entry is 2n handoffs between exactly its two CPUs; the sweep ends |
| `MemoryLatency` | pointer-chase arrays, a preallocated huge-page array shared by all tests, result tables | shuffle an array into a ring (`FillPatternArr`, `FillPatternArr64`, the TLB test), chase it with one or many chains, store and load at all offsets, sweep sizes | a shuffle that is not one cycle silently tests a smaller footprint; chains that meet share misses; a buffer sized once for tests of other sizes; 32-bit iteration counts; boundaries of the size tables | the ring is one cycle over all elements; chains never meet; every address is in the array; a line was measured with the parameters it is printed with |
| `MemoryBandwidth` | the kernel chosen, per-thread arrays, the global `gbToTransfer`, iteration counts, code it has written, result tables | read the command line, sweep sizes and thread counts, run kernels, fill an array with code and call it, count bank conflicts, divide bytes by time | a global shared by a sweep, per-thread rounding, kernels unrolled by blocks, options in any order, failed allocations and thread creations, caches that do not see new code | the method asked for is measured; bytes reported = bytes touched; kernels stay in their array, touch all of it and stop; the code called is the code written |
| `InstructionRate` | the clock speed | 159 straight-line kernels in countdown loops, called one after another | unroll factor against step against iteration count; copied labels | a kernel executes what its caller divides by and what its text names |
| `CoreClockChecker` | MSR file descriptors, the boost bit, energy counters, CPU affinity | read, change and write the boost bit of every core; energy differences; a dependent-add loop | failed reads that give junk, 32-bit counters that wrap, cached failures, CPUs that are not numbered from 0, a loop that must hit zero exactly | boost is set everywhere and nothing else changes, or there is a message; a difference is of the same counter; a row is about its core |
| `AsmGen` | the list of tests, the ranges, the generated files | select tests by prefix, override ranges, emit one driver or one per test; the driver's own run-time filter | prefix matching in two directions, stale generated files, parallel generation | the binary run is the test asked for with the counts asked for |
| `tools/run_gem5_*.sh` | `generate/`, the binary, `m5out` directories, summary files | build, run with a timeout, parse statistics or output, append to a summary | a failed step leaves the previous run's files in place; two scripts share the build; output that ends anywhere | a printed number comes from the run of its own row; a summary is computed from the numbers of its own test, of the points it says |
| `results`, probes, Makefiles, CI | none | documentation, three counter probes, packaging | - | - |

How they interact: the C programs do not call one another.  `AsmGen` generates
programs whose data file has the ring construction of `MemoryLatency`; the gem5
scripts call `AsmGen`'s Makefile (which calls `AsmGen` and then the compiler)
and run the binary it leaves in `generate/`.  Everything else stands alone, so
the project has one group of modules per program and one composition per
group.

`PROJECT.json` lists the hazards of every part at their lines, with the
properties that cover them.

## Modules and how they correspond to the code

### CoherencyLatency

`CoherencyLatency` models `main()`'s loops, `RunTest()`, `TimeThreads()` and
`LatencyTestThread()` of `PThreadsCoherencyLatency.c`.  `pc` is where `main()`
is; each statement that another thread can observe is an action: `ResetCell`
(line 198), `FillLatencyData` (200-207), `CreateThread`/`CreateThreadFails`
(172-173), `ReportFailure`/`AwaitThreads` (176-181), `JoinFirst`, `JoinSecond`
(182-189), `StoreResult`, `SkipDiagonal` (123-129), `PrintResults`.  A thread is
named by its test and role; `StartThread` reads the frame and pins the thread,
`Cas` and `Spin` are a compare-and-swap that succeeds or fails, `ExitThread`
leaves the loop.  `lat` is the frame of `RunTest()`: every test's frame is at
the same place, so a thread that was left behind by a failed creation reads the
*current* contents.  While no frame is live its contents are undefined and
`ReadDeadFrame` chooses: the old contents, an iteration count that ends the
loop, or a crash.  `stolen` is a history variable: increments by a thread of
another test since the counter was reset.

`Bounce` is the abstract specification: a test hands the counter over exactly
`2 * Iter` times.  `Implements` says that `CoherencyLatency` refines it (the
counter of the test's slot is `val`) as long as thread creation succeeds.

### MemoryLatency

`Sattolo` is the shuffle shared by `FillPatternArr()`, `FillPatternArr64()`,
the TLB test and `AsmGen`'s data file, with every outcome of `rand()`.
`PointerChase` extends it with the layouts of `RunTest()`/`RunAsmTest()` (one
element per line) and `RunTlbTest()` (one per page, staggered by a line each),
the partial `memset()` and the timed loop.  `RingWalk` is the abstract chase: a
lap visits every element once, in any order; `WalksTheRing` says that
`PointerChase` refines it.  `MlpChains` extends `Sattolo` with the chains of
`RunMlpTest()`.

`LatencySweep` is `main()` and composes with `MlpChains`: the huge-page buffer
(`MapHugePages`, sized by `Required`), then one of four modes.  In the plain
sweep and the TLB sweep a test is one action (`RunTest`, `TlbChase` and
`Reference`), because `PointerChase` shows what a chase does.  In the MLP table
the tests of the smallest array run load by load as `MlpChains`
(`StartMlpTest`, `ChainStep`, `EndMlpTest`), the others in one action.
`StlfTest` stores the offsets where the kernel reads and then overwrites them.
`Scaled` is `scale_iterations()` with its 32-bit product and fourth root;
`PrintTable` has the loop condition of the MLP table that looks one entry past
`default_test_sizes`.  Every `malloc()` has a failing variant.  A result
records what was measured instead of a time.

### MemoryBandwidth

`BandwidthPlan` has the arithmetic shared by the group: iteration counts
(`GetIterationCount()`), private array sizes, iterations per thread.
`BandwidthKernel` is one kernel call.  All 17 kernels (x86, ARM,
`scalar_read()`) have one control structure and are records of its parameters:
span and step of the unrolled block, stride of the pointer, slack at the end,
what a pass takes from the iteration register and how the branch tests it.  The
iteration register is unsigned modulo `Wrap`.  `covered` and `moved` are history.

`MemoryBandwidth` is the data modes (list of sizes, `-sizekb`,
`-autothreads`) with `MeasureBw()`: allocation and thread creation may fail,
threads run in any order, joins wait, the result goes into its cell and the
table is printed.  A thread's kernel call is one step of it.
`InstructionFetch` is `MeasureInstructionBw()` with ARM's `flush_icache()`:
`stale` are the cache lines of the code that the instruction fetch may not see
as written.  `BankConflict` is `TestBankConflicts()` with x86's
`readbankconflict`, in bytes from the array's start.

`BandwidthMain` composes the three: it reads the options one by one
(`ParseFlag`, `ParseNumber`, `ParseMethod`, `ParseFails`), chooses the kernel
for the processor (`Choose`) and runs one of the three tests; a kernel the
processor lacks ends in `IllegalInstruction`.  A machine is its architecture,
its vector extensions and whether its instruction fetch is coherent.

### InstructionRate

`RateKernels` lists all kernels of the two assembly files (instructions per
pass that the printed text is about, step, branch condition, loop label the
branch names), `RateCalls` all calls of the two `main()`s, and `RateLoop` runs
the clock measurement and one test with `measureFunction()`'s count.  The
filter in `argv[1]` and the CPU feature checks become the choice of a test.

### CoreClockChecker

`CoreClock` models both programs.  `main()`'s body for one core, for one
command or for one sample is a list of operations (`Body`), each an action:
`Pin`/`PinFails`, `OpenMsr`/`OpenMsrFails` (the descriptor cache `msrFds`, which
keeps -1 too), `ReadHwcr`, `WriteHwcr`, `VerifyHwcr` (the read-modify-write of
`setBoost()` and the second half of `writeMsr()`), `ReadUnits`, `ReadEnergy`,
`Start` and `Loop` (the countdown in twenties), `PrintRow`.  A failed read
returns any value, as the uninitialised `result` does; a write may be ignored.
`Consume` is the processor, which uses energy at any time; counters are 32 bits
wide (`Wrap`) and differences 64 (`Wide`).

### gem5 scripts

`Gem5Points` models `tools/run_gem5_asmgen_points.sh` with what it uses of
AsmGen's `Main()` (`--only`, `--range`), of the generated driver (`strncmp()`
on the prefix) and of AsmGen's Makefile.  `generated`, `binary` and `stats`
are the files that outlive a run of the script; `rows` and `summary` its
tables.  One action per command: `Generate`, `GenerateNothing` (no test
matches: exit status 0), `GenerateRefused` (bad range), `Compile`,
`CompileNothing` (`generate/` without the RISC-V source: make succeeds and
builds nothing), `Run`, `RunStops` (gem5 stops at `MAXINSTS` and exits with 0),
`ExtractStats`/`NoStats`, `Summarize`, with a failing variant where a tool can
fail and `Interrupt` at any time.  What a failed generation leaves behind is
`Leftovers`.  A test name is a sequence of words, so that prefixes mean what
they mean in the code; `Fold` is the case that `--only` ignores and the driver
does not.  A dump records the run of the script, the test blocks that ran, the
count they were built with, whether the program got to its end, and the events
gem5 counted.  That number is any member of `Counts`: the results kept in the
repository have full-queue events far below the capacity
(`results/gem5_se_ideal_capacity_points_20260617/analysis.md:22`), so nothing is
assumed about how it depends on the point.  The summary's columns are computed
from the numbers as in the script: the last zero, the first event, and the
first points that reach 2, 5 and 10 times the mean of the first two.

`Gem5Capacity` models `tools/run_gem5_asmgen_capacity.sh`: one program with
all points of a range, a run that ends, fails, times out or stops at `MAXINSTS`
(`Run`, `RunFails`, `RunStops`; `Cuts` is what may have reached the log), and
the awk program that finds the baseline, the thresholds and the maximum
(`BaseSum`, `AtLeast`, `First`, `Top`).  `OtherBuild` is another script that writes to the
same `generate/` and binary at any time.  What the machine does is the constant
`Curve`, any numbers of cycles at all.  The columns are threshold crossings and
nothing says that a crossing is a capacity: among the measured rows, those of
`ftq` (56 and 74, with a size of 64), `faddsched` (78 and 106) and `fmulsched`
(74 and 98) have different columns, those of `fprf`, `jmpsched` and `rob` no
crossing of 2.0 (`results/gem5_se_ideal_capacity_*`).  The properties are
therefore about the crossings of the curve itself (`RiseOf`), not about a
structure's size.

### Proof modules

| module | is about |
|---|---|
| `CoherencyLatencyProofs` | `CoherencyLatency` and its refinement of `Bounce` |
| `MemoryLatencyProofs` | `Sattolo`, `PointerChase` and its refinement of `RingWalk`, `MlpChains`, `LatencySweep` |
| `BandwidthKernelProofs` | `BandwidthKernel` |
| `BandwidthMainProofs` | `BandwidthMain` with `MemoryBandwidth`, `InstructionFetch` and `BankConflict` |
| `RateLoopProofs` | `RateLoop` |
| `CoreClockProofs` | `CoreClock` |
| `Gem5PointsProofs`, `Gem5CapacityProofs` | the two gem5 scripts |

The `MC*` modules give constants values for TLC.

## Runs

| run | asks | answer |
|---|---|---|
| `coherency_sweep` | Three CPUs, two lines, three handoffs each, no creation failure: refinement of `Bounce`, every entry made by threads pinned to its two CPUs and none missing (`EntriesArePinnedPairs`), termination | holds |
| `coherency_orphan` | Two CPUs, up to two failed creations and the threads they leave: a test that is measured was made by its own threads alone (`MeasuredTestIsClean`), and a test can hang only after an increment was stolen (`HangsOnlyIfRobbed`) | holds |
| `coherency_steal` | Can a leftover thread touch a later test? (`TwoCpusBounce`) | **yes**, see finding 1 |
| `pointer_ring` | Seven elements, every shuffle, lines and pages: one cycle (`OneCycle`), loads in the array and staggered pages (`ChaseInBounds`), refinement of `RingWalk` | holds |
| `latency` | All modes of `main()` over the real size tables, with failing allocations: no two chains on one line in a round (`NoSharedLine`), results in their places and of their parameters (`PrintsWhatItMeasures`), the huge-page buffer but for the named exceptions (`HugeBufferHolds`), termination | holds; findings 2, 3 |
| `kernels` | All kernels, 1 to 5 KB, shared and private: in bounds, every pass covers the array, accesses made = accesses reported (the last two for `WholeKernels`), which copy kernels copy one half to the other (`CopiesOneHalf`), termination | holds; finding 4 |
| `bandwidth_sweep` | `main()` from the command line, on six processors: the method asked for (`MeasuresTheMethod`), live memory (`ReadsLiveMemory`), reported = transferred (`ReportsCountTheWork`), results in their place (`ResultsAreOwn`), code called = code written (`CodeIsWritten`), termination | holds; findings 5, 6, 7 |
| `rates` | All kernels and calls: count and loop control (`CountsTheWork`), exactly the six known strays (`OnlyKnownStrays`), termination | holds; finding 8 |
| `core_clock` | Both programs with every mode, failing system calls and energy used at any time: `BoostIsSet`, `WrapShows`, `RowsAreTheCores`, `FdsHoldTheCores`, termination | holds; finding 9 |
| `points` | Five argument lists, one of them in two runs of the script, any of three counts at each point, two failures, stops or kills: finished rows are their own (`FinishedRowsAreOwn`), every column of the summary is about the counts of its own argument (`SummaryIsOfOwnCounts`), a run ends | holds |
| `points_stale` | Is every number in the table attributable to its point? (`StatsAreAttributable`) | **no**, finding 10 |
| `capacity` | Two argument lists, two failures, two builds of other scripts, three curves: a column names the place where the cycles of one program rise or nothing, wherever the log ends (`ColumnsAreRises`), an undisturbed row is exact (`FinishedRowsAreExact`), the script ends with all rows (`ScriptEnds`) | holds |

Several properties name exceptions: `CountsTheWork` and `OnlyKnownStrays`
(`RateInexact`, `RateMisnamed`), `PassCoversArray` and `CountsWhatItMoves`
(kernels outside `WholeKernels`), `CopiesOneHalf`, `HugeBufferHolds`,
`MeasuresTheMethod`, `CodeIsWritten`, `FdsHoldTheCores`.  The exceptions are
part of the statement: where the formula says *exactly these* (an equivalence),
TLC shows both that the code errs there and that it errs nowhere else.

The type invariants are theorems for every component; TLC checks those of the
three largest as well (`SweepTypeOK` with `TypeOK` of `MlpChains`, `MainTypeOK`
with that of `MemoryBandwidth`, `TypeOK` of `CoreClock`).

Deadlock is checked everywhere except in the gem5 runs, where the system stops
after `MaxSweeps` sweeps or at the script's end; elsewhere the end of a program
is an explicit stuttering action (`Finished`, `Returned`, `Stop`, `Ended`,
`Exited`).

## Bounds

| bound | value | why it is enough |
|---|---|---|
| `NumProcs`, `Offsets`, `Iter` | 2-3, 1-2, 2-3 | pairs in both orders, a diagonal, a CPU outside the pair, a slot that is reused by a later test and one that is not; the safety properties of a test are proved for all values |
| `MaxFailures` (coherency) | 0, 1, 2 | one failure leaves a thread; two let two leftover threads meet a measured test |
| `ElapsedMs` | 1, or 0 and 1 | 0 is a test of less than a millisecond, which is taken for a failure |
| `Count`, `LineElems`, `PageElems` (chase) | 7, 2, 8 | the stagger wraps once inside the page (seven lines over a page of four); proved for all values |
| `Iterations` (chase) | two and a half laps | laps must repeat and end in the middle of one |
| `TestSizes`, `TlbSizes` (latency) | the program's tables | boundaries of the tables are where the hazards are |
| `Count`, `LinesPerKb`, `MaxParallelism` (latency) | 4, 2, 4 | the smallest array is chased load by load with one to as many chains as it has lines, which is the program's own boundary (32 chains in the 32 lines of 2 KB); `NoSharedLine` is proved for all values |
| `Word`, `WordKb` | 160, the real 2^22 | iteration counts on both sides of the wrap, as sizes are |
| `Offsets` (forwarding) | 10 for 64 | rows and columns inside and outside the eight bytes that are overwritten |
| `Beyond` | 0, 2 | what lies behind the table may or may not stop the loop |
| `SizesKb`, `KbPerGb`, `LargeGb` (kernels) | 1-5, 27, 2 | odd and even sizes, sizes on both sides of `SmallKb`, counts that need rounding up to even, arrays of one and of several blocks; the block sizes are the real ones |
| `Wrap` (kernels) | 128 | only has to exceed the largest count (an assumption checks it), so that a register that misses zero wraps and `Returns` sees it |
| `MCSizes`, `KbPerGb`, `SmallKb`, `LargeGb` (main) | 2, 3, 5 KB; 18; 4; 3 | one size above the threshold at which `gbToTransfer` is replaced, one that does not divide the amount |
| `MCBankSizes`, `MaxSpacing`, `TotalLoads` | 30 and 48 bytes, 2, 100 | spacings whose last block ends up to five bytes beyond the array, which is the most for even sizes, or inside it; several passes and a last block that is not needed in full |
| `MaxCreateFailures`, `MaxAllocFailures` | 2, 1 | some and all threads of a test missing; an allocation that fails for the first or a later thread |
| `MCRuns` (main) | 6 machines, all methods, two at a time, wrong names | every outcome of `KernelFor` and `BestKernel` on every machine |
| `MCIterations` | 600 for 1500000000 | every call leaves the same remainder by its kernel's step (`SameRemainders`, checked by TLC for all calls), which is all that decides whether and when a loop ends |
| `MCScales`, `MCMaxPasses` | 1-2, 2000 | the largest call makes fewer passes than that; a loop that went on would stop there without being done, and `Ends` would fail |
| `Wrap`, `Wide`, `MaxConsumed` (clock) | 3, 81, 3 | every counter can wrap once and stay below twice its range, sums of `HardCores` counters do not reach `Wide` |
| `HardCores`, `MCOnlines` | 2 for 16; one CPU, two, two with a gap | fewer CPUs than the fixed number and as many; CPU numbers that are not 0 to n-1 |
| iterations (clock) | 40; 0, 20, 30 | 8e9 and 16e9 are multiples of 20, as 40 is; the counts of the command line need not be |
| `MaxFaults` | 1 | a second fault only repeats what one does at another place |
| `MaxSweeps`, `MaxFailures`, `MaxRows` (points) | 2, 2, 8 | stale data needs an earlier run and a failure in a later one; two failures in one run combine; the longest argument list makes four rows, and the range of a wrong step would go on |
| `Repeated` (points) | one list of `MCArgs` | what an earlier run left matters only if it was for the same test and point; the other lists are run once |
| `Counts` (points) | 0, 1, 5 | they give means of 0, one half and more, and ratios below 2 and at least 2, 5 and 10 |
| `MCArgs` (points) | four points of one test; one and three points of the same test | two points of the baseline and two after them, of which a failed build may take one away; an argument with rows of the same test before it |
| `BaseN`, `MaxFailures`, `MaxOthers` (capacity) | 2 for 8, 2, 2 | ranges with and without points after the base; a disturbed build and a disturbed binary in one test or in two |
| `MCCurve` | a jump, a steady rise, a rise and fall that never doubles | both columns set and equal, set and different, one or both NA; a maximum that is reached twice |

## Fairness

* `CoherencyLatency`: weak fairness of `main()` and of each thread.  The
  threads are ordinary pthreads on different CPUs under a fair scheduler; nothing
  is assumed about which compare-and-swap succeeds, and `Spin` is not fair.
* `BandwidthKernel`, `RateLoop`: the processor keeps executing.
* `LatencySweep`: `main()`, which has no other threads, keeps running.  The
  assembly loop that counts through 2^64 is taken not to end (`wrapped`).
* `BandwidthMain`: `main()` or one of its threads keeps running; every step
  counts something down, so that no thread need be preferred.
* `CoreClock`: the program keeps running; the processor's consumption of energy
  is not fair, nor are failures.
* `Gem5Points`, `Gem5Capacity`: every command of the script ends.  gem5 is run
  under `timeout`; AsmGen, make and awk are sequential programs on finite input.
  Failures, kills and other scripts' builds may or may not happen.

## Proofs

Every invariant and every refinement that a run checks is also a theorem, for
every value of the constants that satisfies the named assumptions; but for
`OnlyKnownStrays`, which says which tests of this program's tables stray.  Each is
proved from an inductive invariant.

| theorem | what for all values | argument |
|---|---|---|
| `TypeCorrect` | `TypeOK` of `CoherencyLatency` | `IInv` of `CoherencyLatencyProofs`, which the other four share: who exists (`FreshOK`), where the frame points (`FrameOK`), parities (`ParityOK`), how threads exit and are joined (`ExitOK`, `JoinOK`), and the ledger below |
| `MeasuredTestCorrect` | `MeasuredTestIsClean`, with any number of leftover threads | `LedgerOK`: twice the counter is what the two threads have advanced plus twice what was stolen; when both have finished their loops the counter would exceed 2 `Iter` if anything had been stolen |
| `HangCorrect` | `HangsOnlyIfRobbed` | the second half of `LedgerOK`: as long as nothing was stolen the two threads are one step apart, so the one that is behind can swap |
| `EntriesCorrect` | `EntriesArePinnedPairs` if `Proc \subseteq Online` | `PinOK`: while the frame is live it names the pair's CPUs and started threads are on them; `DoneOK`: `main()`'s loops go to the very next test, so the passed ones are set |
| `RefinesBounce` | `CoherencyLatency` implements `Bounce` if `MaxFailures = 0` | `NoLeftovers`: no other test's thread is alive, so each increment is one of the two threads' and the ledger gives the count at the end; every action is a step of `Bounce` or leaves its state |
| `ShuffleOneCycle` | `OneCycle` for every `Count` and every `rand()` | without induction over the length of a walk: of the positions not yet settled, every closed set contains one (`ForwardMeets`, `BackwardMeets`) and each has a closed set of its own (`Separate`); a swap merges two of these sets |
| `ShuffleNeverStepsBack` | `NeverStepsBack`: the pattern has no step to the position just below | the narrowed choice never takes that position |
| `RingCorrect`, `ChaseWalksTheRing` | `OneCycle` of the chase, refinement of `RingWalk` | `ChaseInv`: the elements of a lap can be left only for the element the next load touches; if that one is in the lap already, the lap is closed and by `OneCycle` the whole array |
| `ChaseStaysInBounds` | `ChaseInBounds` | `ChaseInv` puts the next load on an element of the layout; pages with one line offset differ by a multiple of a page of lines (`SameRemainder`) |
| `ChainsShareNoLine` | `NoSharedLine` of a test, for all lines and chains | chains start on different lines, one that has had its turn went along the ring (`FollowsTheRing`), and the pattern is injective |
| `SweepTypeCorrect`, `SweepSharesNoLine` | `SweepTypeOK`, and `NoSharedLine` in the whole of `LatencySweep` | `SweepInv`: the invariant of the chains goes on holding while `main()` starts one test after another, with what it holds on the heap |
| `BufferIsBigEnough` | `HugeBufferHolds` | `BufferInv`: a test that overruns the buffer is one of the named exceptions (`Excused`); `BufferHasRoom`: up to the maximum, unless its product wraps, every size fits |
| `PrintsItsMeasurements` | `PrintsWhatItMeasures` | the lines so far are those of the first sizes (`LinesSoFar`), the cells so far those the two loops have passed (`CellsSoFar`), the chains of the smallest array have made the rounds they were given (`ChainsInv`), and the printed table is the transposed one (`TableIs`); `Root` is exact for the fourth root of `scale_iterations()` |
| `KernelsStayInBounds`, `WholeKernelsCover`, `WholeKernelsCount` | bounds of all 17 kernels, coverage and count of the 14 whole ones, for all sizes, threads and data amounts | a block that fits before the end (`PlaceInv`), an even count that never passes zero (`ArgsInv`, `LeftInv`), whole KBs that blocks divide; the history counts blocks and passes |
| `OneCopyIsWhole` | `CopiesOneHalf` | `ShortInv`: the pointers of the other two copy kernels stay below the last element of the half |
| `MainTypeCorrect`, `MemoryStaysLive`, `ReportsAreTrue`, `ResultsAreTheirOwn`, `MethodAskedFor`, `CodeCalledIsWritten` | all invariants of `BandwidthMain`: `MainTypeOK`, `ReadsLiveMemory`, `ReportsCountTheWork`, `ResultsAreOwn`, `MeasuresTheMethod`, `CodeIsWritten` | one inductive invariant, `MainInv`, see below |
| `RateTypeCorrect`, `KernelsCountTheirWork`, `ExactKernelsCount` | `TypeOK`, `WithinLoopControl`, `CountsTheWork` (which includes it) for every table of kernels and calls, count and scale that satisfy `RateAssumption` and `ExactAssumption` | `Counted`: each pass takes the work and at most one more from the register; `Sign`: which values a loop can be running or have stopped with |
| `StraysAreAstray` | `ToldByLabels`: a test executes another kernel's instructions exactly if the text of its call or the last branch of its kernel names another kernel, for every table in which a call whose kernel branches away makes a second pass (`StrayAssumption`); `OnlyKnownStrays` is this for the program's own tables, whose labels TLC evaluates | `Astray`: a test whose labels agree is in its own kernel's loop; one whose labels differ has done another's work or is about to, because it is long enough for a second pass |
| `TypeIsKept` | `TypeOK` of `CoreClock` | `Base`: where `main()` is in its body, the loop variable of the energy sums (`KInv`), and that an open descriptor is that of a CPU that is online |
| `RowsOfTheCores`, `FdsAreTooFewOnlyThere`, `BoostIsSetOrSaid` | `RowsAreTheCores`, `FdsHoldTheCores`, `BoostIsSet` | `RowsInv`: the CPUs so far are listed, each pinned or complained about; `FdsInv`: the overrun is exactly that of few CPUs, once past the first; `BoostInv`: without a message what is in hand has the requested bit and the old rest |
| `WrapsShow` | `WrapShows` for any width, number of cores and consumption | `MeterInv`: there is, for each core read, a true consumption and a number of wraps (`Ledger`) such that the sum of the registers is the consumption less the wraps, and both only grow between the two reads; the difference is then right or, being short of whole wraps, huge modulo `Wide` |
| `PointsTypeCorrect`, `StatsAreTheRows` | `TypeOK` of `Gem5Points`, `FinishedRowsAreOwn` for all tests and arguments, any number of sweeps, failures and kills | `Built` follows one point: generated, then binary, then the statistics file are what this point wants, whatever was there before; `RunsItself`: a test selects itself and, of what it selects, the driver runs no other |
| `SummariesAreOfOwnCounts` | `SummaryIsOfOwnCounts`, whatever gem5 counts | `SInv`: a row whose run succeeded has the number this sweep's gem5 counted (`RowRight`); where the loop over the points can end its rows ascend (`Ascending`), so the first two rows are the two lowest points (`BaseIsLowest`), the first row with a property is the least such point and the last one the greatest |
| `CapacityTypeCorrect` | `TypeOK` of `Gem5Capacity`: one line for each argument, in order | a program of this or another script has only counts the machine was run with (`CountsArePossible`), and whatever part of its output reaches the log is lines of two numbers (`CutsArePoints`) |
| `ColumnsAreAlwaysRises` | `ColumnsAreRises` for every curve | `LogOK`: a log is the beginning of one program's output and only its last line may be cut (`CutsAreLogs`); a cut line that reaches a threshold reaches it whole as well (`LessIsNotMore`), and one that is cut below it is the last, so the column is NA (`FirstIsTheRise`) |
| `UndisturbedRowsAreExact` | `FinishedRowsAreExact` for every curve | `OwnProgram`: undisturbed, generated, compiled, run and parsed is this test's program; its counts ascend (`CountsAscend`), so the first index of the maximum has the least x (`TopIsFirst`); the recursive sum over the rows is that over the program's output (`SameSums`) |

`MainInv` of `BandwidthMainProofs` has a part for each thing `main()` does.
`LineInv` and `MethodInv` say what the options read so far have set: the
property is about the whole command line, and what counts is the *set* of
methods seen before the current option.  `LoopInv` places the loops of the data
test and `ThreadInv` the threads of the current test around them; without
`ThreadInv` nothing says that no thread runs while an array is freed.
`HeapInv` has the blocks that are live, `WorkInv` the accesses, which are the
work of one thread times the number of threads that have exited; this needs
that all threads have the same share, which is why the equality holds only
without a failed creation.  `ResultInv` has cells and printed lines.
`CodeInv`, `LinesInv` and `StaleInv` are the same for the instruction test,
`BankInv` for the bank conflicts, where `LoadsInv` knows where the last block
of a pass starts.

The assumptions are those the modules name. They say what the inputs are:
counts and sizes are positive numbers, arrays have a line, an option of
`-threads` is not 0 (`RunsAssumption`; `MeasureBw()` divides by it, and
negative numbers, which nothing in the program refuses, are outside the
model). Some describe data the programs carry: the size tables ascend
(`TablesAssumption`), a kernel's work is its step or one less
(`RateAssumption`), which tests come out even (`ExactAssumption`),
that a test whose branch leaves its kernel gets to a second pass
(`StrayAssumption`), which TLC evaluates on the program's own tables;
bank-conflict sizes are even and larger than the largest spacing
(`RoomAssumption`; 2 KB and 512 bytes in the program). Of the simulated machine nothing is
assumed but that what is counted is a natural number (`CountsAssumption`).
`CpuAssumption` and `WidthAssumption`: the
program runs on a CPU that is online, and the 64-bit difference is wider than
the sum of the 32-bit counters. Two theorems have hypotheses of their own:
`Proc \subseteq Online` in `EntriesCorrect` (CPU numbers without gaps; with
one TLC shows the property violated) and `MaxFailures = 0` in `RefinesBounce`
(with a failure `coherency_steal` shows that a leftover thread takes part).

Sums, partial sums and least elements: where a proof needs an induction over a
bounded range (that a recursive function such as `PartialSums` is what its
equation says, that a finite set of numbers has a least element) it takes a
least counterexample, which exists by `LeastOf`; that lemma follows from the
library's theorem that the strict subsets of finite sets are well-founded.

Only model-checked: liveness (`SweepTerminates`, `SweepReturns`, `Returns`,
`MainEnds`, `SweepEnds`, `ScriptEnds` and the `Ends` of `rates` and
`core_clock`), which needs `ENABLED` and fairness and is out of the prover's
reach; absence of deadlock; and `OnlyKnownStrays`, the list of this program's
own strays.

## Findings

1. `CoherencyLatency`, lines 176-180 (run `coherency_steal`): when one
   `pthread_create` fails, the thread that exists is not joined.  It goes on
   over `RunTest()`'s frame, picks up the target of a later test and takes an
   increment from it; that test can then hang.  `coherency_orphan` and the
   proofs show the limits of the damage: a test that is measured is still right.
2. `MemoryLatency.c:190` (`HugeBufferHolds`): the huge-page buffer is sized
   from `-maxsizemb` or the default sizes, but a larger `-sizekb`, and the TLB
   test with a maximum below 32 MB, run in it all the same.
3. `MemoryLatency.c:211` (`PrintsWhatItMeasures`): `-maxsizemb` limits neither
   the MLP table nor the TLB test, although line 159 says it will.
4. `MemoryBandwidth_x86.s:546` (`CopiesOneHalf`): `avx512_copy` moves blocks of
   512 bytes but advances its pointers by 256, so it copies each block half
   twice and misses most of the rest of its half.
5. `MemoryBandwidth_arm.s:584` (`CodeIsWritten`): the loops of
   `flush_icache()` branch on flags that their `sub` does not set, and
   `__builtin___clear_cache()` is given an end before the return.
6. `MemoryBandwidth_x86.s:658` (`ReadsLiveMemory`): `readbankconflict` reads up
   to five bytes beyond the array.
7. `MemoryBandwidth.c:252` (`MeasuresTheMethod`): an unknown method, and on ARM
   the four x86 methods of the help text, are passed over silently and
   `asm_read` is measured.
8. `InstructionRate` (`OnlyKnownStrays`): the last branch of `vecsubzerotest`
   (`.s:4892`) and, on ARM, of `mixaddjmptest` (`.s:1933`) names another
   kernel's loop; four lines of the `main()`s call another kernel than their
   text says (`x86instructionrate.c:73`, `:117` and `:268`,
   `arminstructionrate.c:42`).  The last but one prints "1:2 256b FMA:PADD" for
   ten `vaddps` and ten `vpaddd`.
9. `CoreClockChecker.c:248` (`FdsHoldTheCores`): with fewer than 16 CPUs an AMD
   processor makes `measurecmd` use `msrFds` beyond its end.
10. `run_gem5_asmgen_points.sh:183` (run `points_stale`): after a failed run of
   gem5 a number is taken from a file without numbers (printed as 0) or from an
   earlier sweep, and the summary uses it.

Findings 2-9 are named exceptions of properties that otherwise hold; TLC
finds the property violated as soon as its exception is left out.

Met while modelling, without a property:

* `CoherencyLatency`: CPU numbers are taken to be `0..get_nprocs()-1`; with
  `Online = {0, 2}` (`MCGapOnline`) TLC finds `EntriesArePinnedPairs` violated,
  because a refused `sched_setaffinity()` is ignored.  A test of less than a
  millisecond returns 0, the value that also means failure.
* `MemoryLatency.c:280`: the comment at line 269 says Sattolo's algorithm, but
  the choice leaves out the position just below; the result is still one cycle
  (proved), of fewer possible ones.  Line 484: `memset(A, INT_MAX, list_size)`
  fills a quarter of the array.  The help says 100000000 iterations (line 73),
  the program starts from 1000000 (line 70).
* `MemoryBandwidth.c:597`: the result of `pthread_create()` is ignored, the
  missing thread's share is reported all the same, and `pthread_join()` gets an
  unset handle; `ReportsCountTheWork` therefore excepts sweeps with a failed
  creation.  Line 379 replaces the amount given with `-data` (help text at line
  82) for tests above 64 KB.  ARM: `asm_copy` never copies the last 64 elements
  of its half (`_arm.s:277`), `asm_cflip` lacks an `add` (`_arm.s:251`) and
  repeats elements; `readbankconflict` exists there but nothing calls it; line
  463 leaves four bytes for a return that lines 501-502 write eight for.  Line
  516 counts a 64-bit number of calls with an `int`.
* `InstructionRate`: kernels whose loop control counts as work (19 of 20, 39 of
  40, 15 of 16), a `jge` that makes one pass too many (`.s:3977`), all in
  `RateInexact`.  Several keys of the filter are prefixes of others, and some
  are compared over fewer characters than they have (`x86instructionrate.c:172`),
  so that one argument runs several tests; `spacedload256wrapper` calls the
  128-bit kernel.  Which kinds of instructions a text names is compared with the
  kernel, their proportion is not: lines 69, 256 and 266 print "1:2 FMA:FADD"
  for kernels with two FMAs to an FADD.
* `CoreClockChecker.c:78`: the power mode divides by whole seconds; the x86
  `clktsctest` counts in `%rdi` (`BoostClockChecker_x86.s:10`), which the `ms_abi`
  of its declaration says is kept; compiled with the Makefile's flags `main()` has
  nothing there.  `getCoreEnergyStat()` of a core beyond the end of `msrFds`
  (finding 9) also writes there if it finds a 0.
* AsmGen: `--only` without a match prints an error and exits with 0
  (`Program.cs:145`), so the Makefile goes on with the files of before.
* Capacity script: a run that stops at `MAXINSTS` exits with 0, so its row looks
  finished although the log is cut; no column tells that another script
  disturbed a row; a rise within the first eight points is found late or never.
* Point script: the same stop gives a row with status 0 whose events are of a
  part of the run, or of no test at all; when the two points of the baseline
  have no events, the columns of 2, 5 and 10 times are NA whatever comes after.

## What is not modelled

* Timing, the formats of printed text, the spelling of options (their values
  and order are modelled) and, where not named above, allocation failures: no
  property is about them.
* What instructions do: operands, vectors, caches.  The properties are about
  counts, addresses and control.
* Out-of-bounds memory, such as `-offset` above 64 in `CoherencyLatency`:
  excluded by assumptions.
* AsmGen's 54 test generators: they print text whose meaning is the simulated
  machine's.  Its separate mode: one directory per test, with nothing shared
  but read-only input.
* `run_gem5_asmgen_se.sh`: a straight copy of statistics without a conclusion.
  In the point script, `first_nonzero.tmp`, which a kill leaves behind for a
  later run into the same `OUT_ROOT`; the other metrics, the
  printed baseline, logs and manifests of both scripts.
* The probes, results, Makefiles other than AsmGen's, and CI: no state that
  steps.

## Plan

Done: the modules above.  Every program of the repository with state has its
module; what is left to model is named in the section before.

Every safety property and every refinement that a run checks is proved, but for
`OnlyKnownStrays`, of which the general half is (`StraysAreAstray`).

Next:

1. Refinements that would say more: `BandwidthMain`'s data test as an abstract
   specification of one row per test, with one kernel call of `BandwidthKernel`
   behind each thread's step.
2. Action properties that are implied by the inductive invariants and not yet
   stated, such as that a result is written once.
3. `run_gem5_asmgen_se.sh`, if it ever draws a conclusion.
