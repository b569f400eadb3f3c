-------------------------- MODULE CoherencyLatency --------------------------
(***************************************************************************)
(* CoherencyLatency/PThreadsCoherencyLatency.c: for every cache-line       *)
(* offset and every ordered pair of logical CPUs, main() runs one test.  A *)
(* test resets a shared counter, starts two threads pinned to the two      *)
(* CPUs, and each thread advances the counter by compare-and-swap, thread  *)
(* 1 from even to odd values and thread 2 from odd to even ones.           *)
(*                                                                         *)
(* The parameters of a thread live in RunTest()'s stack frame.  When one   *)
(* of the two pthread_create calls fails, TimeThreads() returns without    *)
(* joining the other thread, which goes on running over a frame that is    *)
(* dead or already belongs to a later test.                                *)
(***************************************************************************)
EXTENDS Integers

CONSTANTS
    NumProcs,       \* what get_nprocs() returns
    Online,         \* the CPU numbers sched_setaffinity() accepts
    Offsets,        \* -offset: cache lines to sweep, 64 in the allocated page
    Iter,           \* -iterations
    ElapsedMs,      \* wall-clock times, in whole milliseconds, a test may take
    MaxFailures     \* bound: pthread_create calls that fail in one run

ASSUME NumProcsAssumption == NumProcs \in Nat \ {0}
ASSUME OffsetsAssumption  == Offsets \in 1..64
ASSUME IterAssumption     == Iter \in Nat \ {0}
ASSUME ElapsedAssumption  == ElapsedMs \subseteq Nat
ASSUME FailuresAssumption == MaxFailures \in Nat

Proc   == 0..(NumProcs - 1)
Slot   == 0..(Offsets - 1)          \* one 64-byte line of bouncyBase each
Role   == {1, 2}                    \* lat1 / lat2, also the value of `start'
Test   == Slot \X Proc \X Proc      \* offsetIdx, i, j
Thread == Test \X Role

Unset    == -1                      \* an element malloc() left uninitialised
Unpinned == -1                      \* sched_setaffinity() was refused

VARIABLES
    pc,             \* where main(), RunTest() or TimeThreads() is
    offsetIdx, i, j,\* the loop variables of main()
    cell,           \* the counters *bouncy points to, by slot
    lat,            \* lat1 and lat2 in RunTest()'s frame, by role
    latency,        \* the value TimeThreads() returned
    latencies,      \* the result arrays
    tstate,         \* life cycle of each pthread
    current,        \* local variable `current' of LatencyTestThread
    affinity,       \* the CPU a thread is pinned to
    failures,       \* pthread_create calls that failed so far
    reported,       \* tests for which "Could not create threads" was printed
    stolen          \* history: increments since the last reset made by a
                    \* thread that does not belong to the running test

mainVars   == <<offsetIdx, i, j>>
threadVars == <<tstate, current, affinity>>
vars == <<pc, offsetIdx, i, j, cell, lat, latency, latencies, tstate,
          current, affinity, failures, reported, stolen>>

cur == <<offsetIdx, i, j>>          \* the test main() is at
Own(r) == <<cur, r>>

\* Program points between the initialisation of lat1/lat2 and the return of
\* RunTest(): there the frame is live and holds the running test's data.
InTest == {"create1", "create2", "check", "join1", "join2"}
FrameLive == pc \in InTest \cup {"return"}

Init == /\ pc = "pair"
        /\ offsetIdx = 0 /\ i = 0 /\ j = 0
        /\ cell = [s \in Slot |-> 0]
        /\ lat = [r \in Role |-> [target |-> 0, processorIndex |-> 0]]
        /\ latency = 0
        /\ latencies = [t \in Test |-> Unset]
        /\ tstate = [t \in Thread |-> "none"]
        /\ current = [t \in Thread |-> 0]
        /\ affinity = [t \in Thread |-> Unpinned]
        /\ failures = 0
        /\ reported = {}
        /\ stolen = 0
-----------------------------------------------------------------------------
(* main(): the three nested loops *)

\* The loop increments of main(): j innermost, then i, then offsetIdx.
Advance ==
    \/ /\ j + 1 < NumProcs
       /\ j' = j + 1 /\ pc' = "pair" /\ UNCHANGED <<i, offsetIdx>>
    \/ /\ j + 1 = NumProcs /\ i + 1 < NumProcs
       /\ j' = 0 /\ i' = i + 1 /\ pc' = "pair" /\ UNCHANGED offsetIdx
    \/ /\ j + 1 = NumProcs /\ i + 1 = NumProcs /\ offsetIdx + 1 < Offsets
       /\ j' = 0 /\ i' = 0 /\ offsetIdx' = offsetIdx + 1 /\ pc' = "pair"
    \/ /\ j + 1 = NumProcs /\ i + 1 = NumProcs /\ offsetIdx + 1 = Offsets
       /\ pc' = "print" /\ UNCHANGED mainVars

\* The diagonal of the matrix is set without running a test.
SkipDiagonal ==
    /\ pc = "pair" /\ i = j
    /\ latencies' = [latencies EXCEPT ![cur] = 0]
    /\ Advance
    /\ UNCHANGED <<cell, lat, latency, threadVars, failures, reported, stolen>>

\* RunTest() returned: its result is stored and the loops go on.
StoreResult ==
    /\ pc = "return"
    /\ latencies' = [latencies EXCEPT ![cur] = latency]
    /\ Advance
    /\ UNCHANGED <<cell, lat, latency, threadVars, failures, reported, stolen>>

\* The result matrices are printed and main() returns, which ends every
\* thread that is still running.
PrintResults ==
    /\ pc = "print"
    /\ pc' = "exit"
    /\ UNCHANGED <<mainVars, cell, lat, latency, latencies, threadVars,
                   failures, reported, stolen>>
-----------------------------------------------------------------------------
(* RunTest() and TimeThreads() *)

\* Mutant of ResetCell: *bouncy keeps the value of the previous test.
ResetCellForgotten ==
    /\ pc = "pair" /\ i # j
    /\ stolen' = 0
    /\ pc' = "fill"
    /\ UNCHANGED <<mainVars, cell, lat, latency, latencies, threadVars,
                   failures, reported>>

ResetCell ==
    /\ pc = "pair" /\ i # j
    /\ cell' = [cell EXCEPT ![offsetIdx] = 0]
    /\ stolen' = 0
    /\ pc' = "fill"
    /\ UNCHANGED <<mainVars, lat, latency, latencies, threadVars, failures,
                   reported>>

\* Mutant of FillLatencyData: both threads get processor1.
FillWithFirstProcessor ==
    /\ pc = "fill"
    /\ lat' = [r \in Role |-> [target |-> offsetIdx, processorIndex |-> i]]
    /\ pc' = "create1"
    /\ UNCHANGED <<mainVars, cell, latency, latencies, threadVars, failures,
                   reported, stolen>>

FillLatencyData ==
    /\ pc = "fill"
    /\ lat' = [r \in Role |-> [target |-> offsetIdx,
                               processorIndex |-> IF r = 1 THEN i ELSE j]]
    /\ pc' = "create1"
    /\ UNCHANGED <<mainVars, cell, latency, latencies, threadVars, failures,
                   reported, stolen>>

AfterCreate(r) == IF r = 1 THEN "create2" ELSE "check"

CreateThread(r) ==
    /\ pc = IF r = 1 THEN "create1" ELSE "create2"
    /\ tstate' = [tstate EXCEPT ![Own(r)] = "created"]
    /\ pc' = AfterCreate(r)
    /\ UNCHANGED <<mainVars, cell, lat, latency, latencies, current, affinity,
                   failures, reported, stolen>>

CreateThreadFails(r) ==
    /\ pc = IF r = 1 THEN "create1" ELSE "create2"
    /\ failures < MaxFailures
    /\ failures' = failures + 1
    /\ pc' = AfterCreate(r)
    /\ UNCHANGED <<mainVars, cell, lat, latency, latencies, threadVars,
                   reported, stolen>>

\* t1rc and t2rc: a thread that was not created is still "none".
BothCreated == \A r \in Role : tstate[Own(r)] # "none"

ReportFailure ==
    /\ pc = "check" /\ ~BothCreated
    /\ reported' = reported \cup {cur}
    /\ latency' = 0
    /\ pc' = "return"
    /\ UNCHANGED <<mainVars, cell, lat, latencies, threadVars, failures,
                   stolen>>

AwaitThreads ==
    /\ pc = "check" /\ BothCreated
    /\ pc' = "join1"
    /\ UNCHANGED <<mainVars, cell, lat, latency, latencies, threadVars,
                   failures, reported, stolen>>

JoinFirst ==
    /\ pc = "join1" /\ tstate[Own(1)] = "exited"
    /\ pc' = "join2"
    /\ UNCHANGED <<mainVars, cell, lat, latency, latencies, threadVars,
                   failures, reported, stolen>>

\* Mutant of JoinSecond: the second thread is not waited for.
JoinSecondSkipped ==
    /\ pc = "join2"
    /\ \E ms \in ElapsedMs : latency' = ms
    /\ pc' = "return"
    /\ UNCHANGED <<mainVars, cell, lat, latencies, threadVars, failures,
                   reported, stolen>>

\* The second join and the closing gettimeofday().  The elapsed time is an
\* integer division by 1000, so a test of less than a millisecond took 0.
JoinSecond ==
    /\ pc = "join2" /\ tstate[Own(2)] = "exited"
    /\ \E ms \in ElapsedMs : latency' = ms
    /\ pc' = "return"
    /\ UNCHANGED <<mainVars, cell, lat, latencies, threadVars, failures,
                   reported, stolen>>

Main == \/ SkipDiagonal \/ StoreResult \/ PrintResults
        \/ ResetCell \/ FillLatencyData
        \/ \E r \in Role : CreateThread(r) \/ CreateThreadFails(r)
        \/ ReportFailure \/ AwaitThreads \/ JoinFirst \/ JoinSecond
-----------------------------------------------------------------------------
(* LatencyTestThread() *)

Alive == pc \notin {"exit", "crashed"}      \* the process

\* The prologue: read start and processorIndex from the frame, pin the thread.
\* The return value of sched_setaffinity() is ignored.
StartThread(t) ==
    LET cpu == lat[t[2]].processorIndex
    IN  /\ Alive /\ tstate[t] = "created"
        /\ tstate' = [tstate EXCEPT ![t] = "running"]
        /\ current' = [current EXCEPT ![t] = t[2]]
        /\ affinity' = [affinity EXCEPT
                            ![t] = IF cpu \in Online THEN cpu ELSE Unpinned]
        /\ UNCHANGED <<pc, mainVars, cell, lat, latency, latencies, failures,
                       reported, stolen>>

Looping(t) == Alive /\ tstate[t] = "running" /\ current[t] <= 2 * Iter
CasWouldSucceed(t) == cell[lat[t[2]].target] = current[t] - 1

\* __sync_bool_compare_and_swap() through the target pointer of the frame.
Cas(t) ==
    /\ Looping(t) /\ CasWouldSucceed(t)
    /\ cell' = [cell EXCEPT ![lat[t[2]].target] = current[t]]
    /\ current' = [current EXCEPT ![t] = @ + 2]
    /\ stolen' = IF t[1] # cur /\ lat[t[2]].target = offsetIdx
                 THEN stolen + 1 ELSE stolen
    /\ UNCHANGED <<pc, mainVars, lat, latency, latencies, tstate, affinity,
                   failures, reported>>

\* A compare-and-swap that fails: the thread spins.
Spin(t) == Looping(t) /\ ~CasWouldSucceed(t) /\ UNCHANGED vars

ExitThread(t) ==
    /\ Alive /\ tstate[t] = "running" /\ current[t] > 2 * Iter
    /\ tstate' = [tstate EXCEPT ![t] = "exited"]
    /\ UNCHANGED <<pc, mainVars, cell, lat, latency, latencies, current,
                   affinity, failures, reported, stolen>>

\* A thread nobody joined reads RunTest()'s frame after RunTest() returned.
\* What it finds is undefined: the old contents (the actions above), an
\* iteration count that ends its loop, or a pointer it may not follow.
ReadDeadFrame(t) ==
    /\ Alive /\ ~FrameLive
    /\ tstate[t] \in {"created", "running"}
    /\ \/ tstate' = [tstate EXCEPT ![t] = "exited"] /\ UNCHANGED pc
       \/ pc' = "crashed" /\ UNCHANGED tstate
    /\ UNCHANGED <<mainVars, cell, lat, latency, latencies, current, affinity,
                   failures, reported, stolen>>

ThreadStep(t) == StartThread(t) \/ Cas(t) \/ ExitThread(t)

Finished == ~Alive /\ UNCHANGED vars

Next == \/ Main
        \/ \E t \in Thread : ThreadStep(t) \/ Spin(t) \/ ReadDeadFrame(t)
        \/ Finished

Spec == Init /\ [][Next]_vars

\* Every thread is scheduled again and again, main() included.  Nothing is
\* assumed about the outcome of a compare-and-swap.
FairSpec == Spec /\ WF_vars(Main) /\ \A t \in Thread : WF_vars(ThreadStep(t))
-----------------------------------------------------------------------------
(* Properties *)

TypeOK ==
    /\ pc \in InTest \cup {"pair", "fill", "return", "print", "exit", "crashed"}
    /\ offsetIdx \in Slot /\ i \in Proc /\ j \in Proc
    /\ cell \in [Slot -> 0..(2 * Iter)]
    /\ lat \in [Role -> [target : Slot, processorIndex : Proc]]
    /\ latency \in Nat
    /\ latencies \in [Test -> Nat \cup {Unset}]
    /\ tstate \in [Thread -> {"none", "created", "running", "exited"}]
    /\ current \in [Thread -> 0..(2 * Iter + 2)]
    /\ affinity \in [Thread -> Proc \cup {Unpinned}]
    /\ failures \in 0..MaxFailures
    /\ reported \subseteq Test
    /\ stolen \in Nat

\* A test that TimeThreads() measured, as opposed to one it gave up on.
Measured == pc = "return" /\ cur \notin reported

\* A measured test made all of its 2 * Iter handoffs, and its own two threads
\* made every one of them, even when threads of failed tests are still around:
\* a leftover thread can hang a later test but cannot shorten it.
MeasuredTestIsClean == Measured => cell[offsetIdx] = 2 * Iter /\ stolen = 0

\* The two threads of a measured test ran pinned to the CPUs of its entry of
\* the matrix, and when PrintResults prints it no entry is uninitialised.
EntriesArePinnedPairs ==
    /\ Measured => affinity[Own(1)] = i /\ affinity[Own(2)] = j
    /\ pc = "exit" => \A t \in Test : latencies[t] # Unset

\* A thread left behind by one test never moves the counter of another one:
\* "test latency between two logical CPUs".
TwoCpusBounce == pc \in InTest => stolen = 0

Waiting == \/ pc = "join1" /\ tstate[Own(1)] # "exited"
           \/ pc = "join2" /\ tstate[Own(2)] # "exited"

CanMove(t) == \/ tstate[t] = "created"
              \/ tstate[t] = "running" /\ current[t] > 2 * Iter
              \/ Looping(t) /\ CasWouldSucceed(t)

\* While main() waits in a join, one of the two threads of the test can do
\* something other than spin, unless a leftover thread took an increment that
\* was theirs: only then can a test hang.
HangsOnlyIfRobbed ==
    Waiting /\ stolen = 0 => \E r \in Role : CanMove(Own(r))

\* Main() gets through all tests and prints the matrices.
SweepTerminates == <>(pc = "exit")

Bouncing == pc \in InTest \cup {"fill"}
B == INSTANCE Bounce WITH
         phase <- IF Bouncing THEN "bouncing" ELSE "idle",
         val   <- IF Bouncing THEN cell[offsetIdx] ELSE 0

\* Without thread-creation failures the program implements Bounce.
Implements == B!Spec
=============================================================================
