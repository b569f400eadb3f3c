--------------------------- MODULE MemoryBandwidth ---------------------------
(***************************************************************************)
(* The data bandwidth modes of MemoryBandwidth.c: main() runs MeasureBw()  *)
(* for every thread count and test size asked for; MeasureBw() allocates   *)
(* the arrays, creates a thread for each share of the work, joins them and *)
(* turns elapsed time into bandwidth.  A thread's whole kernel call is one *)
(* step: BandwidthKernel shows what it accesses.  Printing and timing are  *)
(* left out, the two malloc()s of thread tables are taken to succeed.      *)
(***************************************************************************)
EXTENDS BandwidthPlan, Sequences

CONSTANTS
    TestSizes,          \* default_test_sizes
    MaxCreateFailures,  \* bounds on failing pthread_create() ...
    MaxAllocFailures    \* ... and posix_memalign() calls

Max(a, b) == IF a >= b THEN a ELSE b

ASSUME SizesAssumption == /\ TestSizes \in Seq(Nat \ {0})
                          /\ TestSizes # <<>>
ASSUME FailuresAssumption == MaxCreateFailures \in Nat /\ MaxAllocFailures \in Nat

VARIABLES
    args, gbToTransfer,
    pc,
    threadIdx, sizeIdx,     \* the loops of main(); sizeIdx from 1
    iterations,
    n,                      \* the loops over threads in MeasureBw(), from 1
    tstate,                 \* by thread number, for the current test
    moved,                  \* history: elements accessed in this test
    heap,                   \* live blocks of MeasureBw(), with their test
    threadResults,          \* by cell
    printed,
    createFailures, allocFailures

loopVars == <<args, threadIdx, sizeIdx>>
testVars == <<gbToTransfer, iterations, n, tstate, moved, heap>>
outVars  == <<threadResults, printed>>
failVars == <<createFailures, allocFailures>>
vars     == <<loopVars, pc, testVars, outVars, failVars>>

\* What the options set, and what it is without any; singleSize and autothreads
\* are 0 when the option is absent.
Args == [threads : Nat \ {0}, shared : BOOLEAN, singleSize : Nat, autothreads : Nat]
NoOption == [threads |-> 1, shared |-> TRUE, singleSize |-> 0, autothreads |-> 0]
DefaultGb == 8

auto     == args.autothreads > 0
sizes    == IF args.singleSize # 0 THEN <<args.singleSize>> ELSE TestSizes
testSize == sizes[sizeIdx]
threads  == IF auto THEN threadIdx ELSE args.threads
lastRound == IF auto THEN args.autothreads ELSE 1

elements == Elements(testSize, threads, args.shared)
work     == ThreadIterations(iterations, threads, args.shared) * elements

Test == <<threads, testSize>>
Tables == [block |-> "tables", owner |-> 0, test |-> Test]
\* The array thread t is given.
Array(t) == [block |-> "arr", owner |-> IF args.shared THEN 0 ELSE t,
             test |-> Test]
Blocks == {Tables} \cup {Array(t) : t \in 1..threads}

NoThreads == [t \in 1..threads |-> "none"]

\* Mutant of Cell: the table is filled by columns.
CellByColumns(round, i) == (i - 1) * Len(sizes) + round - 1

\* Where main() keeps a result of the automatic mode ...
Cell(round, i) == (round - 1) * Len(sizes) + i - 1
\* ... and where it looks for it when it prints the table.
PrintedCell(round, i) == (round - 1) * Len(sizes) + i - 1

Unset == [test |-> <<0, 0>>, counted |-> 0, moved |-> 0]

Init == /\ args = NoOption
        /\ gbToTransfer = DefaultGb
        /\ pc = "test"
        /\ threadIdx = 1 /\ sizeIdx = 1
        /\ iterations = 0 /\ n = 1
        /\ tstate = NoThreads
        /\ moved = 0
        /\ heap = {}
        /\ threadResults = [c \in 0..(args.autothreads * Len(sizes) - 1) |->
                              Unset]
        /\ printed = {}
        /\ createFailures = 0 /\ allocFailures = 0

\* Mutant of NextRound: the thread count is not counted up.
SameRound == threadIdx

NextRound == threadIdx + 1

\* MeasureBw() returned; main() keeps or prints the result and moves on.
Return(counted) ==
    LET result == [test |-> Test, counted |-> counted, moved |-> moved]
    IN  /\ IF auto
           THEN /\ threadResults' =
                     [threadResults EXCEPT ![Cell(threadIdx, sizeIdx)] = result]
                /\ UNCHANGED printed
           ELSE /\ printed' = printed \cup {[test |-> Test, result |-> result]}
                /\ UNCHANGED threadResults
        /\ pc' = IF sizeIdx < Len(sizes) \/ threadIdx < lastRound
                 THEN "test" ELSE "print"
        /\ IF sizeIdx < Len(sizes)
           THEN sizeIdx' = sizeIdx + 1 /\ UNCHANGED threadIdx
           ELSE sizeIdx' = 1 /\ threadIdx' = NextRound
        /\ UNCHANGED args

\* main() calls GetIterationCount() for the argument of MeasureBw(), which
\* refuses fewer KBs than threads and starts allocating.
StartTest ==
    /\ pc = "test"
    /\ gbToTransfer' = GbAfter(gbToTransfer, testSize)
    /\ iterations' = GetIterationCount(gbToTransfer', testSize)
    /\ n' = 1
    /\ tstate' = NoThreads
    /\ moved' = 0
    /\ pc' = "alloc"
    /\ UNCHANGED <<loopVars, heap, outVars, failVars>>

TooManyThreads ==
    /\ pc = "alloc" /\ n = 1
    /\ ~args.shared /\ testSize < threads
    /\ Return(0)
    /\ UNCHANGED <<testVars, failVars>>

\* The shared array, or the next private one.
Alloc ==
    /\ pc = "alloc"
    /\ args.shared \/ testSize >= threads
    /\ heap' = heap \cup {Tables, Array(n)}
    /\ IF args.shared \/ n = threads
       THEN pc' = "create" /\ n' = 1
       ELSE n' = n + 1 /\ UNCHANGED pc
    /\ UNCHANGED <<loopVars, gbToTransfer, iterations, tstate, moved, outVars,
                   failVars>>

\* posix_memalign() fails: MeasureBw() returns at once.  Private arrays come
\* after the thread tables.
AllocFails ==
    /\ pc = "alloc" /\ allocFailures < MaxAllocFailures
    /\ args.shared \/ testSize >= threads
    /\ heap' = IF args.shared THEN heap ELSE heap \cup {Tables}
    /\ Return(0)
    /\ allocFailures' = allocFailures + 1
    /\ UNCHANGED <<gbToTransfer, iterations, n, tstate, moved, createFailures>>

NextThread == IF n = threads THEN pc' = "join" /\ n' = 1
                             ELSE n' = n + 1 /\ UNCHANGED pc

CreateThread ==
    /\ pc = "create"
    /\ tstate' = [tstate EXCEPT ![n] = "running"]
    /\ NextThread
    /\ UNCHANGED <<loopVars, gbToTransfer, iterations, moved, heap, outVars,
                   failVars>>

\* Nobody looks at the result of pthread_create().
CreateThreadFails ==
    /\ pc = "create" /\ createFailures < MaxCreateFailures
    /\ NextThread
    /\ createFailures' = createFailures + 1
    /\ UNCHANGED <<loopVars, gbToTransfer, iterations, tstate, moved, heap,
                   outVars, allocFailures>>

\* ReadBandwidthTestThread(): the thread runs its kernel and exits.
RunKernel(t) ==
    /\ t \in DOMAIN tstate /\ tstate[t] = "running"
    /\ tstate' = [tstate EXCEPT ![t] = "exited"]
    /\ moved' = moved + work
    /\ UNCHANGED <<loopVars, pc, gbToTransfer, iterations, n, heap, outVars,
                   failVars>>

\* Mutant of Joinable: the join does not wait.
JoinableAtOnce(t) == TRUE

Joinable(t) == tstate[t] = "exited"

\* The last join done, MeasureBw() takes the time.
NextJoin == IF n = threads THEN pc' = "report" /\ n' = n
                           ELSE n' = n + 1 /\ UNCHANGED pc

Join ==
    /\ pc = "join" /\ tstate[n] # "none" /\ Joinable(n)
    /\ NextJoin
    /\ UNCHANGED <<loopVars, gbToTransfer, iterations, tstate, moved, heap,
                   outVars, failVars>>

\* pthread_join() of a thread that was never created: its handle is whatever
\* malloc() returned, and the call fails or crashes the program.
JoinGarbage ==
    /\ pc = "join" /\ tstate[n] = "none"
    /\ \/ NextJoin
       \/ pc' = "crashed" /\ n' = n
    /\ UNCHANGED <<loopVars, gbToTransfer, iterations, tstate, moved, heap,
                   outVars, failVars>>

\* Mutant of Counted: private mode is not multiplied back.
CountedOnce == iterations * elements * threads

\* The elements the reported bandwidth is computed from.
Counted == iterations * elements * threads * (IF args.shared THEN 1 ELSE threads)

Freed == Blocks

Report ==
    /\ pc = "report"
    /\ heap' = heap \ Freed
    /\ Return(Counted)
    /\ UNCHANGED <<gbToTransfer, iterations, n, tstate, moved, failVars>>

\* The table of the automatic mode.
PrintTable ==
    /\ pc = "print"
    /\ printed' = IF auto
         THEN {[test |-> <<r, sizes[i]>>,
                result |-> threadResults[PrintedCell(r, i)]] :
                 r \in 1..args.autothreads, i \in 1..Len(sizes)}
         ELSE printed
    /\ pc' = "done"
    /\ UNCHANGED <<loopVars, testVars, threadResults, failVars>>

Main == \/ StartTest \/ TooManyThreads \/ Alloc \/ AllocFails
        \/ CreateThread \/ CreateThreadFails \/ Join \/ JoinGarbage
        \/ Report \/ PrintTable
AThread == \E t \in DOMAIN tstate : RunKernel(t)
-----------------------------------------------------------------------------
TypeOK ==
    /\ args \in Args
    /\ gbToTransfer \in Nat /\ iterations \in Nat /\ moved \in Nat
    /\ pc \in {"test", "alloc", "create", "join", "report", "print", "done",
               "crashed"}
    /\ threadIdx \in 1..(lastRound + 1) /\ sizeIdx \in 1..Len(sizes)
    /\ n \in 1..Max(args.threads, args.autothreads)
    /\ \A t \in DOMAIN tstate : tstate[t] \in {"none", "running", "exited"}
    /\ \A b \in heap : b.block \in {"tables", "arr"}

\* A thread is never inside its kernel when its array is gone, whatever failed
\* before, and blocks outlive their test only where an allocation failed.
ThreadsUseLiveMemory ==
    /\ \A t \in DOMAIN tstate : tstate[t] = "running" => Array(t) \in heap
    /\ \A b \in heap : b.test # Test \/ pc \in {"test", "print", "done"}
                       => allocFailures > 0

Results == {threadResults[c] : c \in DOMAIN threadResults}
           \cup {p.result : p \in printed}

\* The bandwidth that is reported counts the accesses the threads made, unless
\* a thread could not be created.
ReportCountsWork ==
    createFailures = 0 => \A r \in Results : r.counted = r.moved

\* Every line and cell that is printed holds the result of its own test, and
\* none is missing.
PrintsOwnResults ==
    /\ \A p \in printed : p.result.test = p.test
    /\ pc = "done" =>
         {p.test : p \in printed} =
            {<<IF auto THEN r ELSE args.threads, sizes[i]>> :
               r \in 1..lastRound, i \in 1..Len(sizes)}
=============================================================================
