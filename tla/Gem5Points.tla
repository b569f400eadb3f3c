----------------------------- MODULE Gem5Points -----------------------------
(***************************************************************************)
(* tools/run_gem5_asmgen_points.sh.  For each point x of each test it has  *)
(* AsmGen generate and the Makefile compile one benchmark binary, runs it  *)
(* under gem5 and takes a full-queue event count from gem5's statistics;   *)
(* then it says where the count leaves zero and where it reaches 2, 5 and  *)
(* 10 times that of the first points.  The generated files, the binary and *)
(* gem5's output directories outlive a run of the script; its tables are   *)
(* new in each.  gem5 may count anything: there are events far below the   *)
(* point at which a structure is full, and structures that show none.      *)
(*                                                                         *)
(* A test name is a sequence of words: --only and the generated driver     *)
(* compare prefixes, --only without regard to case.                        *)
(***************************************************************************)
EXTENDS Integers, SequencesExt

CONSTANTS
    Tests,          \* the prefixes of the tests that AsmGen knows
    Ranged,         \* those with a count array, which --range can set
    Fold(_),        \* a word in lower case
    Counts,         \* what gem5 may have counted when it ends
    InstLimit,      \* TRUE if MAXINSTS is not 0
    Args,           \* argument lists: sequences of [test, range]
    MaxSweeps,      \* bound on the runs of the script
    Repeated,       \* bound: the argument lists of runs that have another one
                    \* before or after them
    MaxRows,        \* bound on the rows of one of them
    MaxFailures     \* bound on the failures of dotnet, gcc and gem5

ASSUME TestsAssumption == Tests \subseteq Seq(STRING)
ASSUME RangedAssumption == Ranged \subseteq Tests
ASSUME ArgsAssumption ==
    Args \subseteq Seq([test : Seq(STRING), range : Seq(Int)])
ASSUME CountsAssumption == Counts \subseteq Nat

VARIABLES
    pc,             \* where the script is; "idle" when it does not run
    sweep,          \* which run of the script this is
    specs, spec,    \* its arguments, and the one it is at
    x,              \* the point
    rows,           \* the lines of <test>.points.tsv, which points.tsv collects
    summary,        \* the lines of summary.tsv
    generated,      \* what is in generate/, and its tests and count
    binary,         \* ... and in the binary compiled from them
    stats,          \* the statistics files, by test and point
    status,         \* "ok" if gem5 exited with 0
    failures

scriptVars == <<sweep, specs>>
files == <<generated, binary, stats>>
vars == <<pc, scriptVars, spec, x, rows, summary, files, status, failures>>

-----------------------------------------------------------------------------
NA == -1

\* What is there in place of a program: no directory or no binary, a directory
\* without the RISC-V source, or files that do not fit together.
Without(what) == [files |-> what, tests |-> {}, count |-> 0]
Nothing == Without("none")
NoSource == Without("no source")
Unfit == Without("unfit")

Name == specs[spec].test
Bounds == specs[spec].range

\* (mutant: the step is left empty when it is not given)
StepAsGiven(range) == IF Len(range) < 3 THEN 0 ELSE range[3]

\* low:high[:step]
Step(range) == IF Len(range) < 3 THEN 1 ELSE range[3]

\* The tests that --only selects, and the program that is generated for them.
Folded(name) == [i \in 1..Len(name) |-> Fold(name[i])]
Selected(name) == {t \in Tests : IsPrefix(Folded(name), Folded(t))}
Program(name, n) == [files |-> "whole", tests |-> Selected(name), count |-> n]

\* The test blocks the driver runs: strncmp() over the length of the prefix.
Blocks(program, name) == {t \in program.tests : IsPrefix(t, name)}

\* What gem5 leaves in stats.txt: the counts of the test blocks that ran, which
\* are all of them if the program ran to its end.
Dump(ran, whole, n) ==
    [sweep |-> sweep, ran |-> ran, count |-> binary.count, whole |-> whole, events |-> n]

Row(s, target, dumps) ==
    [spec |-> spec, test |-> Name, x |-> x, status |-> s, target |-> target, dumps |-> dumps]

\* A statistics file written at this test and point.
Written(dumps) ==
    [k \in DOMAIN stats \cup {<<Name, x>>} |-> IF k = <<Name, x>> THEN dumps ELSE stats[k]]

\* extract_stat: the last value in the file, 0 if it has none.
Extract(dumps) == IF dumps = <<>> THEN 0 ELSE Last(dumps).events

-----------------------------------------------------------------------------
Init ==
    /\ pc = "idle" /\ sweep = 0 /\ specs = <<>> /\ spec = 1 /\ x = 0
    /\ rows = <<>> /\ summary = <<>>
    /\ generated = Nothing /\ binary = Nothing
    /\ stats = <<>>
    /\ status = "ok" /\ failures = 0

\* OUT_ROOT has the time in its name.
StartSweep ==
    /\ pc = "idle" /\ sweep < MaxSweeps
    /\ sweep' = sweep + 1
    /\ specs' \in Args
    /\ sweep > 0 => {specs, specs'} \subseteq Repeated
    /\ pc' = "spec" /\ spec' = 1 /\ rows' = <<>> /\ summary' = <<>>
    /\ UNCHANGED <<x, files, status, failures>>

\* No candidate range, or one without a low or a high.
SkipSpec ==
    /\ pc = "spec" /\ spec <= Len(specs) /\ Len(Bounds) < 2
    /\ spec' = spec + 1
    /\ UNCHANGED <<pc, scriptVars, x, rows, summary, files, status, failures>>

FirstPoint ==
    /\ pc = "spec" /\ spec <= Len(specs) /\ Len(Bounds) >= 2
    /\ pc' = "point" /\ x' = Bounds[1]
    /\ UNCHANGED <<scriptVars, spec, rows, summary, files, status, failures>>

\* The for loop's step, after a row has been written.
NextPoint(row) ==
    /\ Len(rows) < MaxRows
    /\ rows' = Append(rows, row)
    /\ x' = x + Step(Bounds)
    /\ pc' = "point"
    /\ UNCHANGED <<scriptVars, spec, summary>>

BuildFailed == NextPoint(Row("build_failed", NA, <<>>))

InRange == pc = "point" /\ x <= Bounds[2]

\* --range Name=x:x:1 is for a test that has a count array, and a count.
Accepted == Selected(Name) \cap Ranged # {} /\ x >= 1

\* dotnet run --only Name --range Name=x:x:1
Generate ==
    /\ InRange /\ Accepted
    /\ pc' = "compile"
    /\ generated' = Program(Name, x)
    /\ UNCHANGED <<scriptVars, spec, x, rows, summary, binary, stats, status, failures>>

\* "no tests matched --only": Main() returns, and make goes on.
GenerateNothing ==
    /\ InRange /\ Selected(Name) = {}
    /\ pc' = "compile"
    /\ UNCHANGED <<scriptVars, spec, x, rows, summary, files, status, failures>>

\* The range is refused with exit status 1 and nothing is written.
GenerateRefused ==
    /\ InRange /\ Selected(Name) # {} /\ ~Accepted
    /\ BuildFailed
    /\ UNCHANGED <<files, status, failures>>

\* The files of a generation that fails: none is written, or some are.
Leftovers ==
    {generated} \cup
    IF ~Accepted THEN {}
    ELSE {Unfit, Program(Name, x)} \cup IF generated = Nothing THEN {NoSource} ELSE {}

\* dotnet itself fails.
GenerateFails ==
    /\ InRange /\ failures < MaxFailures
    /\ failures' = failures + 1
    /\ generated' \in Leftovers
    /\ BuildFailed
    /\ UNCHANGED <<binary, stats, status>>

\* (mutant: make compiles only if there is no binary yet)
CompileOnce ==
    /\ pc = "compile" /\ generated.files = "whole"
    /\ pc' = "run"
    /\ binary' = IF binary = Nothing THEN generated ELSE binary
    /\ UNCHANGED <<scriptVars, spec, x, rows, summary, generated, stats, status, failures>>

Compile ==
    /\ pc = "compile" /\ generated.files = "whole"
    /\ pc' = "run"
    /\ binary' = generated
    /\ UNCHANGED <<scriptVars, spec, x, rows, summary, generated, stats, status, failures>>

\* Without the RISC-V source nothing is compiled, which is no error.
CompileNothing ==
    /\ pc = "compile" /\ generated = NoSource
    /\ pc' = "run"
    /\ UNCHANGED <<scriptVars, spec, x, rows, summary, files, status, failures>>

\* There is no generate/ to go to.
CompileNowhere ==
    /\ pc = "compile" /\ generated = Nothing
    /\ BuildFailed
    /\ UNCHANGED <<files, status, failures>>

\* The files do not link, or the compiler or the linker fails; the old binary may
\* be removed.
CompileFails ==
    /\ pc = "compile" /\ generated.files \in {"unfit", "whole"}
    /\ generated = Unfit \/ failures < MaxFailures
    /\ failures' = IF generated = Unfit THEN failures ELSE failures + 1
    /\ binary' \in {binary, Nothing}
    /\ BuildFailed
    /\ UNCHANGED <<generated, stats, status>>

\* gem5 runs the program to its end and writes its statistics.
Run ==
    /\ pc = "run" /\ binary # Nothing
    /\ pc' = "extract" /\ status' = "ok"
    /\ \E n \in Counts : stats' = Written(<<Dump(Blocks(binary, Name), TRUE, n)>>)
    /\ UNCHANGED <<scriptVars, spec, x, rows, summary, generated, binary, failures>>

\* gem5 stops at MAXINSTS instructions and writes its statistics as well, which is
\* a success.
RunStops ==
    /\ pc = "run" /\ binary # Nothing /\ InstLimit /\ failures < MaxFailures
    /\ failures' = failures + 1
    /\ pc' = "extract" /\ status' = "ok"
    /\ \E n \in Counts, ran \in SUBSET Blocks(binary, Name) :
            stats' = Written(<<Dump(ran, FALSE, n)>>)
    /\ UNCHANGED <<scriptVars, spec, x, rows, summary, generated, binary>>

\* gem5 fails before or after it has opened the file, or runs into the timeout; it
\* fails if there is no binary.
RunFails ==
    /\ pc = "run"
    /\ binary = Nothing \/ failures < MaxFailures
    /\ failures' = IF binary = Nothing THEN failures ELSE failures + 1
    /\ pc' = "extract" /\ status' = "failed"
    /\ stats' \in {stats, Written(<<>>)}
    /\ UNCHANGED <<scriptVars, spec, x, rows, summary, generated, binary>>

\* The statistics are read whatever the exit status was.
ExtractStats ==
    /\ pc = "extract" /\ <<Name, x>> \in DOMAIN stats
    /\ NextPoint(Row(status, Extract(stats[<<Name, x>>]), stats[<<Name, x>>]))
    /\ UNCHANGED <<files, status, failures>>

NoStats ==
    /\ pc = "extract" /\ <<Name, x>> \notin DOMAIN stats
    /\ NextPoint(Row(status, NA, <<>>))
    /\ UNCHANGED <<files, status, failures>>

\* (mutant: the rows of the other arguments are summarised as well)
OwnRowsAll == {i \in DOMAIN rows : rows[i].target # NA}

\* The places of the rows of this argument that have a number.
OwnRows == {i \in DOMAIN rows : rows[i].spec = spec /\ rows[i].target # NA}

\* The last x without events and the first one with events.
LastZero ==
    LET zeros == {i \in OwnRows : rows[i].target = 0}
    IN  IF zeros = {} THEN NA ELSE rows[Max(zeros)].x
FirstNonzero ==
    LET hits == {i \in OwnRows : rows[i].target > 0}
    IN  IF hits = {} THEN NA ELSE rows[Min(hits)].x

\* The first two of the rows, or the only one, and twice the mean of their numbers.
BaseRows == {i \in OwnRows : \A j, k \in OwnRows : j < i /\ k < i => j = k}
TwiceBaseline == rows[Min(BaseRows)].target + rows[Max(BaseRows)].target

\* The first x after them whose number is ratio times their mean, unless that is 0.
FirstAtLeast(ratio) ==
    LET hits == {i \in OwnRows \ BaseRows : /\ TwiceBaseline > 0
                                           /\ 2 * rows[i].target >= ratio * TwiceBaseline}
    IN  IF hits = {} THEN NA ELSE rows[Min(hits)].x

Ratios == {2, 5, 10}

Summarize ==
    /\ pc = "point" /\ x > Bounds[2]
    /\ summary' = Append(summary, [spec |-> spec, lastZero |-> LastZero,
                                   firstNonzero |-> FirstNonzero,
                                   firstGe |-> [r \in Ratios |-> FirstAtLeast(r)]])
    /\ spec' = spec + 1 /\ pc' = "spec"
    /\ UNCHANGED <<scriptVars, x, rows, files, status, failures>>

EndSweep ==
    /\ pc = "spec" /\ spec > Len(specs)
    /\ pc' = "idle"
    /\ UNCHANGED <<scriptVars, spec, x, rows, summary, files, status, failures>>

\* The script is killed; its files stay.  A command that is killed with it leaves
\* what it leaves when it fails.
Interrupt ==
    /\ pc # "idle" /\ failures < MaxFailures
    /\ failures' = failures + 1
    /\ pc' = "idle"
    /\ UNCHANGED <<scriptVars, spec, x, rows, summary, files, status>>

Script ==
    \/ SkipSpec \/ FirstPoint \/ Generate \/ GenerateNothing \/ GenerateRefused
    \/ GenerateFails \/ Compile \/ CompileNothing \/ CompileNowhere \/ CompileFails
    \/ Run \/ RunStops \/ RunFails \/ ExtractStats \/ NoStats \/ Summarize \/ EndSweep

Next == StartSweep \/ Script \/ Interrupt

Spec == Init /\ [][Next]_vars

\* Every command of the script ends; gem5's do because of timeout(1).
FairSpec == Spec /\ WF_vars(Script)

-----------------------------------------------------------------------------
Programs == [files : {"none", "no source", "unfit", "whole"}, tests : SUBSET Tests, count : Int]
Dumps == [sweep : Nat, ran : SUBSET Tests, count : Int, whole : BOOLEAN, events : Nat]
RowType == [spec : Nat, test : Seq(STRING), x : Int, target : Nat \cup {NA},
            dumps : Seq(Dumps), status : {"build_failed", "ok", "failed"}]

\* Type invariant of Gem5Points, but for the summary: at a point the script has
\* an argument, and each row has the dumps that its number was taken from.
TypeOK ==
    /\ pc \in {"idle", "spec", "point", "compile", "run", "extract"}
    /\ sweep \in Nat /\ specs \in Args \cup {<<>>}
    /\ pc # "idle" => spec \in Nat \ {0}
    /\ pc \notin {"idle", "spec"} => spec \in 1..Len(specs)
    /\ x \in Int
    /\ rows \in Seq(RowType)
    /\ generated \in Programs /\ binary \in Programs
    /\ \A k \in DOMAIN stats : stats[k] \in Seq(Dumps)
    /\ status \in {"ok", "failed"}

\* The numbers of a row come from this sweep's run of a program of this point, and
\* from no other test than this one, which has run if gem5 got to the end.
Own(row) ==
    /\ Len(row.dumps) = 1
    /\ LET d == row.dumps[1]
       IN  /\ d.sweep = sweep /\ d.count = row.x
           /\ d.ran \subseteq {row.test}
           /\ d.whole => d.ran = {row.test}

\* Where gem5 succeeded, "stats are attributable to that x", whatever failed
\* or was interrupted before, for every test that AsmGen can build a point of.
FinishedRowsAreOwn ==
    \A i \in DOMAIN rows :
        rows[i].status = "ok" /\ rows[i].test \in Ranged => Own(rows[i])

\* "Each x is built and run as a separate binary/range, so stats are
\* attributable to that x": every number in the table.
StatsAreAttributable ==
    \A i \in DOMAIN rows : rows[i].target # NA => Own(rows[i])

RowsOf(s) == {rows[i] : i \in {j \in DOMAIN rows : rows[j].spec = s}}

\* What gem5 counted in this sweep at the points of an argument.
Counted(s) == {[x |-> r.x, events |-> r.dumps[1].events] :
                  r \in {q \in RowsOf(s) : q.status = "ok"}}

\* The two lowest of some points, or the only one.
LowestTwo(points) ==
    {p \in points : \A q, w \in points : q.x < p.x /\ w.x < p.x => q = w}

\* A point at which there were ratio times the events of the points in base, on
\* average, and some there.
Jumps(p, base, ratio) ==
    \E lo, hi \in base : /\ base = {lo, hi} /\ lo.events + hi.events > 0
                         /\ 2 * p.events >= ratio * (lo.events + hi.events)

\* x is the least or the greatest of some points, or NA where there are none.
IsLeast(x1, points) ==
    IF points = {} THEN x1 = NA
    ELSE \E p \in points : x1 = p.x /\ \A q \in points : p.x <= q.x
IsGreatest(x1, points) ==
    IF points = {} THEN x1 = NA
    ELSE \E p \in points : x1 = p.x /\ \A q \in points : q.x <= p.x

\* A summary line says of the counts of this sweep and this test where the last
\* zero is, where the first event is and where they jump to 2, 5 and 10 times
\* those at the two lowest points that were built, whichever builds failed,
\* unless a run of gem5 failed.
SummaryIsOfOwnCounts ==
    \A i \in DOMAIN summary :
        LET line == summary[i]
            points == Counted(line.spec)
            base == LowestTwo(points)
        IN  /\ specs[line.spec].test \in Ranged
            /\ \A r \in RowsOf(line.spec) : r.status # "failed"
            =>
            /\ IsGreatest(line.lastZero, {p \in points : p.events = 0})
            /\ IsLeast(line.firstNonzero, {p \in points : p.events > 0})
            /\ \A ratio \in Ratios :
                  IsLeast(line.firstGe[ratio], {p \in points \ base : Jumps(p, base, ratio)})

\* A sweep ends, whatever fails in it.
SweepEnds == pc # "idle" ~> pc = "idle"
=============================================================================
