---------------------------- MODULE Gem5Capacity ----------------------------
(***************************************************************************)
(* tools/run_gem5_asmgen_capacity.sh.  For each test it has AsmGen         *)
(* generate and the Makefile compile one program with all points of the    *)
(* test's range, runs that under gem5, takes the points from what the      *)
(* program printed and says where the cycles rise to 1.5 and 2 times those *)
(* of the first points.  The cycles may be any function of the point: they *)
(* need not jump where a structure is full, nor only there.  The generated *)
(* files and the binary are in one place, which an earlier or another      *)
(* script may have written to.                                             *)
(*                                                                         *)
(* No prefix of a configured test begins another test's, so that --only    *)
(* selects, and the generated driver runs, the test of that name alone     *)
(* (Gem5Points has the names for which this is not so).                    *)
(***************************************************************************)
EXTENDS Integers, SequencesExt

CONSTANTS
    Ranges,         \* <<low, high, step>> of each configured test
    Curve,          \* the cycles the simulated machine takes: Curve[test][x]
    Args,           \* argument lists: sequences of test names
    Strangers,      \* programs that other scripts build: [test, counts]
    BaseN,          \* the points of the baseline, 8
    InstLimit,      \* TRUE if MAXINSTS is not 0
    MaxFailures,    \* bound on the failures of dotnet, gcc and gem5
    MaxOthers       \* bound on the builds of other scripts

ASSUME BaseNAssumption == BaseN \in Nat \ {0}
ASSUME ArgsAssumption == Args \subseteq Seq(STRING)
ASSUME RangesAssumption ==
    \A t \in DOMAIN Ranges :
        /\ Ranges[t] \in Nat \X Nat \X Nat
        /\ 1 <= Ranges[t][1] /\ Ranges[t][1] <= Ranges[t][2] /\ Ranges[t][3] >= 1

\* The machine runs every count that a program may have.
ASSUME CountsAssumption ==
    /\ \A t \in DOMAIN Ranges : Ranges[t][1]..Ranges[t][2] \subseteq DOMAIN Curve[t]
    /\ \A s \in Strangers : s.test \in DOMAIN Ranges =>
            s.counts \in Seq(DOMAIN Curve[s.test])
    /\ \A t \in DOMAIN Ranges : \A x \in DOMAIN Curve[t] : x \in Nat /\ Curve[t][x] \in Nat

VARIABLES
    pc,             \* where the script is
    tests, at,      \* its arguments, and the one it is at
    generated,      \* the program in generate/
    binary,         \* the program compiled from it
    log,            \* what gem5 and the program printed: points [x, cycles]
    status,         \* "ok" if gem5 exited with 0
    summary,        \* the lines of summary.tsv
    failures, others,
    whole,          \* history: the program ran to its end
    disturbed       \* history: another script built since this test's build

budget == <<failures, others>>
history == <<whole, disturbed>>
vars == <<pc, tests, at, generated, binary, log, status, summary, budget, history>>

-----------------------------------------------------------------------------
NA == -1

Test == tests[at]
Configured == Test \in DOMAIN Ranges

\* low, low + step, ... up to high.
CountArray(low, high, step) == [i \in 1..((high - low) \div step + 1) |-> low + (i - 1) * step]

Nothing == [test |-> "none", counts |-> <<>>]
Program(t) == [test |-> t, counts |-> CountArray(Ranges[t][1], Ranges[t][2], Ranges[t][3])]

\* The driver: it prints a line for each count if it has the test.
Output(program, name) ==
    IF program.test # name THEN <<>>
    ELSE [i \in DOMAIN program.counts |->
            [x |-> program.counts[i], cycles |-> Curve[name][program.counts[i]]]]

\* What reaches the log of a run that does not end: some of the lines, and of
\* the last one maybe not all digits.
Cuts(lines) ==
    {SubSeq(lines, 1, n) : n \in 0..Len(lines)} \cup
    UNION {{Append(SubSeq(lines, 1, n - 1), [lines[n] EXCEPT !.cycles = c]) :
                c \in 0..lines[n].cycles} : n \in DOMAIN lines}

-----------------------------------------------------------------------------
(* summarize_points                                                        *)

\* base_n
BaseLen(points) == Min({BaseN, Len(points)})

\* sum, after the first k points
PartialSums(points) ==
    LET sum[k \in 0..Len(points)] == IF k = 0 THEN 0 ELSE sum[k - 1] + points[k].cycles
    IN  sum
BaseSum(points) == PartialSums(points)[BaseLen(points)]

\* (mutant: the count of base points starts at 1)
AtLeastOffByOne(p, points, halves) ==
    2 * p.cycles * (BaseLen(points) + 1) >= halves * BaseSum(points)

\* A point has at least halves/2 times the mean cycles of the base points.
AtLeast(p, points, halves) == 2 * p.cycles * BaseLen(points) >= halves * BaseSum(points)

\* The x of the first point after the base that reaches the threshold.
First(points, halves) ==
    LET high == {i \in (BaseLen(points) + 1)..Len(points) : AtLeast(points[i], points, halves)}
    IN  IF high = {} THEN NA ELSE points[Min(high)].x

\* The first of the points with the most cycles.
Top(points) ==
    points[CHOOSE i \in DOMAIN points : \A j \in DOMAIN points :
        points[j].cycles <= points[i].cycles /\ (j < i => points[j].cycles < points[i].cycles)]

Line(s, points) ==
    [test |-> Test, status |-> s, n |-> Len(points),
     first15 |-> IF points = <<>> THEN NA ELSE First(points, 3),
     first20 |-> IF points = <<>> THEN NA ELSE First(points, 4),
     max |-> IF points = <<>> THEN [x |-> NA, cycles |-> NA] ELSE Top(points),
     whole |-> whole, disturbed |-> disturbed]

-----------------------------------------------------------------------------
Init ==
    /\ pc = "test" /\ tests \in Args /\ at = 1
    /\ generated \in Strangers \cup {Nothing} /\ binary \in Strangers \cup {Nothing}
    /\ log = <<>> /\ status = "ok" /\ summary = <<>>
    /\ failures = 0 /\ others = 0
    /\ whole = FALSE /\ disturbed = FALSE

NextTest(line) ==
    /\ summary' = Append(summary, line)
    /\ pc' = "test" /\ at' = at + 1
    /\ UNCHANGED <<tests, log, status, history>>

MissingRange ==
    /\ pc = "test" /\ at <= Len(tests) /\ ~Configured
    /\ NextTest(Line("missing_range", <<>>))
    /\ UNCHANGED <<generated, binary, budget>>

\* make ONLY=test RANGE=test=range: dotnet run
Generate ==
    /\ pc = "test" /\ at <= Len(tests) /\ Configured
    /\ pc' = "compile"
    /\ generated' = Program(Test)
    /\ whole' = FALSE /\ disturbed' = FALSE
    /\ UNCHANGED <<tests, at, binary, log, status, summary, budget>>

\* dotnet fails, before it has written anything or between two files.
GenerateFails ==
    /\ pc = "test" /\ at <= Len(tests) /\ Configured /\ failures < MaxFailures
    /\ failures' = failures + 1
    /\ generated' \in {generated, Nothing}
    /\ NextTest(Line("build_failed", <<>>))
    /\ UNCHANGED <<binary, others>>

\* (mutant: make compiles only if there is no binary)
CompileOnce ==
    /\ pc = "compile" /\ generated # Nothing
    /\ pc' = "run"
    /\ binary' = IF binary = Nothing THEN generated ELSE binary
    /\ UNCHANGED <<tests, at, generated, log, status, summary, budget, history>>

Compile ==
    /\ pc = "compile" /\ generated # Nothing
    /\ pc' = "run"
    /\ binary' = generated
    /\ UNCHANGED <<tests, at, generated, log, status, summary, budget, history>>

\* Files that do not fit together do not link, or the compiler fails.  (Nothing
\* has no RISC-V source only before the first Generate; what another script leaves
\* half-written has.)
CompileFails ==
    /\ pc = "compile"
    /\ generated = Nothing \/ failures < MaxFailures
    /\ failures' = IF generated = Nothing THEN failures ELSE failures + 1
    /\ binary' \in {binary, Nothing}
    /\ NextTest(Line("build_failed", <<>>))
    /\ UNCHANGED <<generated, others>>

\* gem5 runs the program to its end.
Run ==
    /\ pc = "run" /\ binary # Nothing
    /\ pc' = "parse" /\ status' = "ok" /\ whole' = TRUE
    /\ log' = Output(binary, Test)
    /\ UNCHANGED <<tests, at, generated, binary, summary, budget, disturbed>>

\* (mutant: without timeout(1), gem5 hangs when the program is not there)
RunHangs ==
    /\ pc = "run" /\ binary # Nothing /\ failures < MaxFailures
    /\ failures' = failures + 1
    /\ pc' = "parse" /\ status' = "failed"
    /\ log' \in Cuts(Output(binary, Test))
    /\ UNCHANGED <<tests, at, generated, binary, summary, others, history>>

\* timeout(1) ends gem5, or gem5 fails; or the program has vanished.
RunFails ==
    /\ pc = "run"
    /\ binary = Nothing \/ failures < MaxFailures
    /\ failures' = IF binary = Nothing THEN failures ELSE failures + 1
    /\ pc' = "parse" /\ status' = "failed"
    /\ log' \in Cuts(Output(binary, Test))
    /\ UNCHANGED <<tests, at, generated, binary, summary, others, history>>

\* gem5 stops at MAXINSTS instructions, which is a success.
RunStops ==
    /\ pc = "run" /\ binary # Nothing /\ InstLimit /\ failures < MaxFailures
    /\ failures' = failures + 1
    /\ pc' = "parse" /\ status' = "ok"
    /\ log' \in Cuts(Output(binary, Test))
    /\ UNCHANGED <<tests, at, generated, binary, summary, others, history>>

\* The points are taken from the log whatever the exit status was.
Summarize ==
    /\ pc = "parse"
    /\ NextTest(Line(status, log))
    /\ UNCHANGED <<generated, binary, budget>>

End ==
    /\ pc = "test" /\ at > Len(tests)
    /\ pc' = "done"
    /\ UNCHANGED <<tests, at, generated, binary, log, status, summary, budget, history>>

\* Another script generates or compiles, or fails in it, at any time.
OtherBuild ==
    /\ pc # "done" /\ others < MaxOthers
    /\ others' = others + 1
    /\ disturbed' = TRUE
    /\ \/ generated' \in Strangers \cup {Nothing} /\ UNCHANGED binary
       \/ binary' \in {generated, Nothing} /\ UNCHANGED generated
    /\ UNCHANGED <<pc, tests, at, log, status, summary, failures, whole>>

Script ==
    \/ MissingRange \/ Generate \/ GenerateFails \/ Compile \/ CompileFails
    \/ Run \/ RunFails \/ RunStops \/ Summarize \/ End

Next == Script \/ OtherBuild

Spec == Init /\ [][Next]_vars

\* The builds end, and gem5 ends because of timeout(1).
FairSpec == Spec /\ WF_vars(Script)

-----------------------------------------------------------------------------
Programs == Strangers \cup {Nothing} \cup {Program(t) : t \in DOMAIN Ranges}
Points == [x : Nat, cycles : Nat]

\* Type invariant of Gem5Capacity: the arguments before the one the script is
\* at have one line each in summary.tsv, in their order.
TypeOK ==
    /\ pc \in {"test", "compile", "run", "parse", "done"}
    /\ tests \in Args /\ at \in 1..(Len(tests) + 1)
    /\ generated \in Programs /\ binary \in Programs
    /\ log \in Seq(Points) /\ status \in {"ok", "failed"}
    /\ DOMAIN summary = 1..(at - 1)
    /\ \A i \in DOMAIN summary : summary[i].test = tests[i]
    /\ failures \in Nat /\ others \in Nat

\* The k-th point of a program takes halves/2 times the mean of its first BaseN.
Rises(program, k, halves) ==
    2 * Curve[program.test][program.counts[k]] * BaseN
        >= halves * PartialSums(Output(program, program.test))[BaseN]

\* The first x after those for which this is so.
RiseOf(program, halves) ==
    LET rises == {k \in (BaseN + 1)..Len(program.counts) : Rises(program, k, halves)}
    IN  IF rises = {} THEN NA ELSE program.counts[Min(rises)]

\* Wherever the log ends, even within a number that the baseline is made of, and
\* whoever else builds, a line is about one program of its test: the log's end
\* may take a column away but never moves it to another x than the one where that
\* program's cycles rise, and max_cycles is never more than the machine took at
\* max_x.
ColumnsAreRises ==
    \A i \in DOMAIN summary :
        LET line == summary[i]
        IN  line.n > 0 => \E p \in Programs :
                /\ p.test = line.test /\ line.n <= Len(p.counts)
                /\ line.first15 \in {NA, RiseOf(p, 3)}
                /\ line.first20 \in {NA, RiseOf(p, 4)}
                /\ line.max.x \in ToSet(p.counts)
                /\ line.max.cycles <= Curve[line.test][line.max.x]

\* If gem5 ran the program to its end and no other script built in between,
\* the line is about all points of this test's range, whatever failed for the
\* tests before: it has the first of the maxima, and its columns say where the
\* cycles rise, if they do.
FinishedRowsAreExact ==
    \A i \in DOMAIN summary :
        LET line == summary[i]
            counts == Program(line.test).counts
        IN  line.status = "ok" /\ line.whole /\ ~line.disturbed =>
            /\ line.n = Len(counts)
            /\ \A x \in ToSet(counts) :
                    \/ Curve[line.test][x] < line.max.cycles
                    \/ Curve[line.test][x] = line.max.cycles /\ x >= line.max.x
            /\ line.first15 = RiseOf(Program(line.test), 3)
            /\ line.first20 = RiseOf(Program(line.test), 4)

\* The script ends with a line for every argument, whatever fails in it and
\* whatever others build.
ScriptEnds == <>(pc = "done" /\ Len(summary) = Len(tests))
=============================================================================
