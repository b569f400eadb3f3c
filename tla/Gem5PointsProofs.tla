-------------------------- MODULE Gem5PointsProofs --------------------------
(***************************************************************************)
(* Proof that a finished run of gem5 is booked to the test and the point   *)
(* it was made for, for every set of tests and arguments and any number of *)
(* sweeps, failures and interruptions, and that the summary says where the *)
(* counts of one test, whatever they are, leave zero and jump.  Built      *)
(* follows one point through generation, compilation and the run;          *)
(* Ascending follows the loop over the points of one argument.             *)
(***************************************************************************)
EXTENDS Gem5Points, FiniteSetTheorems, SequenceTheorems, WellFoundedInduction, TLAPS

\* The program for the test at the point the script is at.
Wanted == Program(Name, x)

\* The statistics of one run in this sweep of the program wanted.
Ours(dumps) ==
    /\ dumps \in Seq(Dumps) /\ Len(dumps) = 1
    /\ dumps[1].sweep = sweep /\ dumps[1].count = x
    /\ dumps[1].ran \subseteq {Name}
    /\ dumps[1].whole => dumps[1].ran = {Name}

\* What is on disk for the point the script is at.
Built ==
    /\ pc = "compile" /\ Name \in Ranged => generated = Wanted
    /\ pc = "run" /\ Name \in Ranged => binary = Wanted
    /\ pc = "extract" /\ status = "ok" /\ Name \in Ranged =>
         <<Name, x>> \in DOMAIN stats /\ Ours(stats[<<Name, x>>])

IInv == TypeOK /\ Built /\ FinishedRowsAreOwn

-----------------------------------------------------------------------------
(* The operators of the model.                                             *)

\* A beginning of a name that is as long as it is the whole name.
LEMMA PrefixOfItsLength ==
    ASSUME NEW s \in Seq(STRING), NEW t \in Seq(STRING), IsPrefix(s, t), Len(s) = Len(t)
    PROVE  s = t
<1>1. SubSeq(s, 1, Len(s)) = SubSeq(t, 1, Len(t))
  BY DEF IsPrefix
<1>2. SubSeq(s, 1, Len(s)) = s /\ SubSeq(t, 1, Len(t)) = t
  OBVIOUS
<1> QED
  BY <1>1, <1>2

\* Folding keeps the length of a name.
LEMMA FoldedLength ==
    ASSUME NEW t \in Seq(STRING)
    PROVE  Len(Folded(t)) = Len(t)
<1>1. Len(t) \in Nat
  OBVIOUS
<1> QED
  BY <1>1 DEF Folded

\* A test selects itself, and of the tests it selects the driver runs no other.
LEMMA RunsItself ==
    ASSUME NEW t \in Ranged, NEW n \in Int
    PROVE  /\ t \in Selected(t)
           /\ Blocks(Program(t, n), t) = {t}
           /\ Program(t, n) \in Programs
           /\ Program(t, n).files = "whole" /\ Program(t, n).count = n
<1>1. t \in Seq(STRING) /\ t \in Tests
  BY TestsAssumption, RangedAssumption
<1>2. IsPrefix(t, t) /\ IsPrefix(Folded(t), Folded(t))
  <2>1. Len(t) \in Nat /\ Len(Folded(t)) \in Nat
    BY <1>1, FoldedLength
  <2> QED
    BY <2>1 DEF IsPrefix
<1>3. t \in Selected(t)
  BY <1>1, <1>2 DEF Selected
<1>4. \A u \in Selected(t) : IsPrefix(u, t) => u = t
  <2> SUFFICES ASSUME NEW u \in Selected(t), IsPrefix(u, t) PROVE u = t
    OBVIOUS
  <2>1. u \in Seq(STRING) /\ IsPrefix(Folded(t), Folded(u))
    BY TestsAssumption DEF Selected
  <2>2. Len(t) = Len(u)
    <3>1. Len(Folded(t)) <= Len(Folded(u)) /\ Len(u) <= Len(t)
      BY <2>1 DEF IsPrefix
    <3>2. Len(t) <= Len(u) /\ Len(t) \in Nat /\ Len(u) \in Nat
      BY <1>1, <2>1, <3>1, FoldedLength
    <3> QED
      BY <3>1, <3>2
  <2> QED
    BY <1>1, <2>1, <2>2, PrefixOfItsLength
<1>5. {u \in Selected(t) : IsPrefix(u, t)} = {t}
  BY <1>2, <1>3, <1>4, Zenon
<1>6. Program(t, n).tests = Selected(t) /\ Program(t, n).files = "whole" /\ Program(t, n).count = n
  BY DEF Program
<1>7. Program(t, n) \in Programs
  BY DEF Program, Programs, Selected
<1> QED
  BY <1>3, <1>5, <1>6, <1>7 DEF Blocks

\* There are finitely many arguments.
LEMMA ArgumentsAreSequences ==
    ASSUME NEW args \in Args \cup {<<>>}
    PROVE  args \in Seq([test : Seq(STRING), range : Seq(Int)]) /\ Len(args) \in Nat
<1>1. args \in Seq([test : Seq(STRING), range : Seq(Int)])
  <2>1. CASE args \in Args
    BY <2>1, ArgsAssumption, Zenon
  <2>2. CASE args = <<>>
    BY <2>2
  <2> QED
    BY <2>1, <2>2
<1> QED
  BY <1>1

\* The script's arguments have a name and whole bounds.
LEMMA SpecTypes ==
    ASSUME specs \in Args \cup {<<>>}, spec \in 1..Len(specs)
    PROVE  /\ Name \in Seq(STRING)
           /\ Bounds \in Seq(Int)
           /\ Step(Bounds) \in Int
<1>1. specs \in Seq([test : Seq(STRING), range : Seq(Int)])
  BY ArgumentsAreSequences
<1>2. specs[spec] \in [test : Seq(STRING), range : Seq(Int)]
  BY <1>1, ElementOfSeq, Zenon
<1>3. Name \in Seq(STRING) /\ Bounds \in Seq(Int)
  <2>1. specs[spec].test \in Seq(STRING) /\ specs[spec].range \in Seq(Int)
    BY <1>2
  <2> QED
    BY <2>1 DEF Name, Bounds
<1>4. \A r \in Seq(Int) : Step(r) \in Int
  BY DEF Step
<1> QED
  BY <1>3, <1>4

\* A row is one of the table's.
LEMMA RowTyped ==
    ASSUME TypeOK, pc \notin {"idle", "spec"},
           NEW s \in {"build_failed", "ok", "failed"}, NEW t \in Nat \cup {NA}, NEW d \in Seq(Dumps)
    PROVE  Row(s, t, d) \in RowType
<1>1. spec \in Nat /\ x \in Int /\ Name \in Seq(STRING)
  BY SpecTypes DEF TypeOK
<1> QED
  BY <1>1 DEF Row, RowType

\* A row that is its own run's, or makes no claim to be, may be added.
LEMMA RowAdded ==
    ASSUME TypeOK, FinishedRowsAreOwn, pc \notin {"idle", "spec"},
           NEW r \in RowType, rows' = Append(rows, r), sweep' = sweep,
           r.status = "ok" /\ r.test \in Ranged => Own(r)
    PROVE  rows' \in Seq(RowType) /\ FinishedRowsAreOwn'
<1>1. rows \in Seq(RowType)
  BY DEF TypeOK
<1>2. rows' \in Seq(RowType) /\ Len(rows') = Len(rows) + 1 /\ rows'[Len(rows) + 1] = r
      /\ \A i \in 1..Len(rows) : rows'[i] = rows[i]
  BY <1>1
<1>3. DOMAIN rows = 1..Len(rows) /\ DOMAIN rows' = 1..Len(rows')
  BY <1>1, <1>2
<1>4. ASSUME NEW i \in DOMAIN rows', rows'[i].status = "ok", rows'[i].test \in Ranged
      PROVE  Own(rows'[i])
  <2>1. CASE i = Len(rows) + 1
    <3>1. rows'[i] = r
      BY <1>2, <2>1
    <3> QED
      BY <1>4, <3>1
  <2>2. CASE i # Len(rows) + 1
    <3>1. i \in DOMAIN rows /\ rows'[i] = rows[i]
      BY <1>2, <1>3, <1>4, <2>2
    <3>2. Own(rows[i])
      BY <1>4, <3>1 DEF FinishedRowsAreOwn
    <3> QED
      BY <3>1, <3>2
  <2> QED
    BY <2>1, <2>2
<1>5. FinishedRowsAreOwn'
  BY <1>4 DEF FinishedRowsAreOwn, Own
<1> QED
  BY <1>2, <1>5

\* A failed build writes a row without numbers and goes to the next point.
LEMMA BuildFailedIInv ==
    ASSUME IInv, BuildFailed, pc \notin {"idle", "spec"},
           generated' \in Programs, stats' = stats, status' = status, binary' \in Programs
    PROVE  IInv'
<1> DEFINE r == Row("build_failed", NA, <<>>)
<1>1. r \in RowType /\ r.status = "build_failed"
  <2>1. NA \in Nat \cup {NA} /\ <<>> \in Seq(Dumps)
    OBVIOUS
  <2> QED
    BY <2>1, RowTyped DEF IInv, Row
<1>2. /\ rows' = Append(rows, r) /\ x' = x + Step(Bounds) /\ pc' = "point"
      /\ sweep' = sweep /\ specs' = specs /\ spec' = spec
  BY DEF BuildFailed, NextPoint, scriptVars
<1>3. rows' \in Seq(RowType) /\ FinishedRowsAreOwn'
  BY <1>1, <1>2, RowAdded DEF IInv
<1>4. x' \in Int
  BY <1>2, SpecTypes DEF IInv, TypeOK
<1>5. TypeOK'
  BY <1>2, <1>3, <1>4 DEF IInv, TypeOK
<1>6. Built'
  BY <1>2 DEF Built
<1> QED
  BY <1>3, <1>5, <1>6 DEF IInv

\* A row with gem5's exit status and what its file holds.
LEMMA MeasuredIInv ==
    ASSUME IInv, pc = "extract", NEW t \in Nat \cup {NA}, NEW d \in Seq(Dumps),
           NextPoint(Row(status, t, d)), UNCHANGED <<files, status>>,
           status = "ok" /\ Name \in Ranged => Ours(d)
    PROVE  IInv'
<1> DEFINE r == Row(status, t, d)
<1>1. r \in RowType
  BY RowTyped DEF IInv, TypeOK
<1>2. r.status = "ok" /\ r.test \in Ranged => Own(r)
  BY DEF Row, Own, Ours
<1>3. /\ rows' = Append(rows, r) /\ x' = x + Step(Bounds) /\ pc' = "point"
      /\ sweep' = sweep /\ specs' = specs /\ spec' = spec
  BY DEF NextPoint, scriptVars
<1>4. rows' \in Seq(RowType) /\ FinishedRowsAreOwn'
  BY <1>1, <1>2, <1>3, RowAdded DEF IInv
<1>5. x' \in Int
  BY <1>3, SpecTypes DEF IInv, TypeOK
<1>6. TypeOK'
  BY <1>3, <1>4, <1>5 DEF IInv, TypeOK, files
<1>7. Built'
  BY <1>3 DEF Built
<1> QED
  BY <1>4, <1>6, <1>7 DEF IInv

\* The steps that leave the table and the point alone.
LEMMA SameRows ==
    ASSUME IInv, UNCHANGED <<sweep, rows>>
    PROVE  FinishedRowsAreOwn'
  BY DEF IInv, FinishedRowsAreOwn, Own

LEMMA InitIInv == Init => IInv
<1> SUFFICES ASSUME Init PROVE IInv
  OBVIOUS
<1>1. Nothing \in Programs
  BY DEF Nothing, Without, Programs
<1>2. TypeOK
  BY <1>1 DEF Init, TypeOK
<1> QED
  BY <1>2 DEF Init, Built, FinishedRowsAreOwn, IInv

LEMMA StartSweepIInv ==
    ASSUME IInv, StartSweep
    PROVE  IInv'
<1>1. TypeOK'
  BY DEF StartSweep, IInv, TypeOK, files
<1>2. Built' /\ FinishedRowsAreOwn'
  BY DEF StartSweep, Built, FinishedRowsAreOwn
<1> QED
  BY <1>1, <1>2 DEF IInv

\* SkipSpec, FirstPoint, Summarize, EndSweep and Interrupt only move the script.
LEMMA MoveIInv ==
    ASSUME IInv, SkipSpec \/ FirstPoint \/ Summarize \/ EndSweep \/ Interrupt
    PROVE  IInv'
<1>1. UNCHANGED <<sweep, specs, rows, generated, binary, stats, status>>
  BY DEF SkipSpec, FirstPoint, Summarize, EndSweep, Interrupt, scriptVars, files
<1>2. pc' \in {"idle", "spec", "point"}
  BY DEF SkipSpec, FirstPoint, Summarize, EndSweep, Interrupt
<1>3. Len(specs) \in Nat
  <2>1. specs \in Args \cup {<<>>}
    BY DEF IInv, TypeOK
  <2> QED
    BY <2>1, ArgumentsAreSequences
<1>4. x' \in Int
  <2>1. CASE FirstPoint
    <3>1. spec \in 1..Len(specs)
      BY <1>3, <2>1 DEF FirstPoint, IInv, TypeOK
    <3>2. Bounds \in Seq(Int) /\ Len(Bounds) >= 2
      BY <2>1, <3>1, SpecTypes DEF FirstPoint, IInv, TypeOK
    <3> QED
      BY <2>1, <3>2 DEF FirstPoint
  <2>2. CASE ~FirstPoint
    BY <2>2 DEF SkipSpec, Summarize, EndSweep, Interrupt, IInv, TypeOK
  <2> QED
    BY <2>1, <2>2
<1>5. pc' # "idle" => spec' \in Nat \ {0}
  BY DEF SkipSpec, FirstPoint, Summarize, EndSweep, Interrupt, IInv, TypeOK
<1>6. pc' = "point" => spec' \in 1..Len(specs)
  BY <1>3 DEF SkipSpec, FirstPoint, Summarize, EndSweep, Interrupt, IInv, TypeOK
<1>7. TypeOK'
  BY <1>1, <1>2, <1>4, <1>5, <1>6 DEF IInv, TypeOK
<1>8. Built'
  BY <1>2 DEF Built
<1> QED
  BY <1>1, <1>7, <1>8, SameRows DEF IInv

\* Generation writes what is wanted, or nothing where nothing is selected.
LEMMA GenerateIInv ==
    ASSUME IInv, Generate \/ GenerateNothing
    PROVE  IInv'
<1>1. /\ UNCHANGED <<sweep, specs, spec, x, rows, binary, stats, status>>
      /\ pc = "point" /\ pc' = "compile"
  BY DEF Generate, GenerateNothing, InRange, scriptVars, files
<1>2. generated' \in Programs
  <2>1. Wanted \in Programs
    BY <1>1 DEF Wanted, Program, Programs, Selected, IInv, TypeOK
  <2> QED
    BY <2>1 DEF Generate, GenerateNothing, Wanted, files, IInv, TypeOK
<1>3. Name' = Name /\ Wanted' = Wanted
  BY <1>1 DEF Name, Wanted, Program, Selected
<1>4. Name \in Ranged => generated' = Wanted
  BY RunsItself, <1>1 DEF Generate, GenerateNothing, Wanted, IInv, TypeOK
<1>5. TypeOK'
  BY <1>1, <1>2 DEF IInv, TypeOK
<1>6. Built'
  BY <1>1, <1>3, <1>4 DEF Built
<1> QED
  BY <1>1, <1>5, <1>6, SameRows DEF IInv

\* The program is compiled; a directory without the source is not the wanted one.
LEMMA CompileIInv ==
    ASSUME IInv, Compile \/ CompileNothing
    PROVE  IInv'
<1>1. /\ UNCHANGED <<sweep, specs, spec, x, rows, generated, stats, status>>
      /\ pc = "compile" /\ pc' = "run" /\ binary' \in {generated, binary}
  BY DEF Compile, CompileNothing, scriptVars, files
<1>2. Name' = Name /\ Wanted' = Wanted
  BY <1>1 DEF Name, Wanted, Program, Selected
<1>3. Name \in Ranged => generated = Wanted /\ binary' = generated
  <2>1. Name \in Ranged => generated = Wanted /\ Wanted.files = "whole"
    BY <1>1, RunsItself DEF IInv, TypeOK, Built, Wanted
  <2>2. NoSource.files # "whole"
    BY DEF NoSource, Without
  <2> QED
    BY <2>1, <2>2 DEF Compile, CompileNothing
<1>4. TypeOK'
  BY <1>1 DEF IInv, TypeOK
<1>5. Built'
  BY <1>1, <1>2, <1>3 DEF Built
<1> QED
  BY <1>1, <1>4, <1>5, SameRows DEF IInv

\* What gem5 leaves behind when it has run a program that is there.
LEMMA DumpTyped ==
    ASSUME TypeOK, NEW n \in Counts, NEW whole \in BOOLEAN, NEW ran \in SUBSET Blocks(binary, Name)
    PROVE  Dump(ran, whole, n) \in Dumps
<1>1. binary.tests \in SUBSET Tests /\ binary.count \in Int
  BY DEF TypeOK, Programs
<1>2. ran \in SUBSET Tests
  BY <1>1 DEF Blocks
<1>3. n \in Nat /\ sweep \in Nat
  BY CountsAssumption DEF TypeOK
<1> QED
  BY <1>1, <1>2, <1>3 DEF Dump, Dumps

\* Statistics that gem5 writes at its end or where it stops.
LEMMA StatsWritten ==
    ASSUME IInv, pc = "run", NEW n \in Counts, NEW whole \in BOOLEAN,
           NEW ran \in SUBSET Blocks(binary, Name), whole => ran = Blocks(binary, Name)
    PROVE  /\ <<Dump(ran, whole, n)>> \in Seq(Dumps)
           /\ Name \in Ranged => Ours(<<Dump(ran, whole, n)>>)
<1> DEFINE d == Dump(ran, whole, n)
<1>1. d \in Dumps
  BY DumpTyped DEF IInv
<1>2. d.sweep = sweep /\ d.ran = ran /\ d.count = binary.count /\ d.whole = whole
  BY DEF Dump
<1> HIDE DEF d
<1>3. ASSUME Name \in Ranged
      PROVE  ran \subseteq {Name} /\ (whole => ran = {Name}) /\ binary.count = x
  <2>1. binary = Program(Name, x) /\ x \in Int
    BY <1>3 DEF IInv, Built, Wanted, TypeOK
  <2>2. Blocks(binary, Name) = {Name} /\ binary.count = x
    BY <1>3, <2>1, RunsItself
  <2> QED
    BY <2>2
<1>4. <<d>> \in Seq(Dumps) /\ Len(<<d>>) = 1 /\ <<d>>[1] = d
  BY <1>1
<1>5. Name \in Ranged => Ours(<<d>>)
  BY <1>2, <1>3, <1>4 DEF Ours
<1> QED
  BY <1>4, <1>5 DEF d

LEMMA RunIInv ==
    ASSUME IInv, Run \/ RunStops \/ RunFails
    PROVE  IInv'
<1>1. /\ UNCHANGED <<sweep, specs, spec, x, rows, generated, binary>>
      /\ pc = "run" /\ pc' = "extract" /\ status' \in {"ok", "failed"}
  BY DEF Run, RunStops, RunFails, scriptVars
<1>2. Name' = Name
  BY <1>1 DEF Name
<1>3. \/ status' = "failed" /\ stats' = stats
      \/ \E d \in Seq(Dumps) : /\ stats' = Written(d)
                               /\ status' = "ok" /\ Name \in Ranged => Ours(d)
  <2>1. CASE Run
    <3>1. PICK n \in Counts : stats' = Written(<<Dump(Blocks(binary, Name), TRUE, n)>>)
      BY <2>1 DEF Run
    <3> QED
      BY <1>1, <3>1, StatsWritten
  <2>2. CASE RunStops
    <3>1. PICK n \in Counts, ran \in SUBSET Blocks(binary, Name) :
                stats' = Written(<<Dump(ran, FALSE, n)>>)
      BY <2>2 DEF RunStops
    <3> QED
      BY <1>1, <3>1, StatsWritten
  <2>3. CASE RunFails
    <3>1. <<>> \in Seq(Dumps)
      OBVIOUS
    <3>2. status' = "failed" /\ (stats' = stats \/ stats' = Written(<<>>)) /\ "failed" # "ok"
      BY <2>3 DEF RunFails
    <3> QED
      BY <3>1, <3>2
  <2> QED
    BY <2>1, <2>2, <2>3
<1>4. /\ \A k \in DOMAIN stats' : stats'[k] \in Seq(Dumps)
      /\ status' = "ok" /\ Name \in Ranged =>
           <<Name, x>> \in DOMAIN stats' /\ Ours(stats'[<<Name, x>>])
  <2>1. \A k \in DOMAIN stats : stats[k] \in Seq(Dumps)
    BY DEF IInv, TypeOK
  <2>2. CASE status' = "failed" /\ stats' = stats
    BY <2>1, <2>2
  <2>3. ASSUME NEW d \in Seq(Dumps), stats' = Written(d),
               status' = "ok" /\ Name \in Ranged => Ours(d)
        PROVE  /\ \A k \in DOMAIN stats' : stats'[k] \in Seq(Dumps)
               /\ status' = "ok" /\ Name \in Ranged =>
                    <<Name, x>> \in DOMAIN stats' /\ Ours(stats'[<<Name, x>>])
    <3>1. /\ DOMAIN stats' = DOMAIN stats \cup {<<Name, x>>}
          /\ \A k \in DOMAIN stats' : stats'[k] = IF k = <<Name, x>> THEN d ELSE stats[k]
      BY <2>3 DEF Written
    <3> QED
      BY <2>1, <2>3, <3>1
  <2> QED
    BY <1>3, <2>2, <2>3
<1>5. TypeOK'
  BY <1>1, <1>4 DEF IInv, TypeOK
<1>6. Built'
  BY <1>1, <1>2, <1>4 DEF Built, Ours
<1> QED
  BY <1>1, <1>5, <1>6, SameRows DEF IInv

\* What is taken from a statistics file.
LEMMA ExtractTyped ==
    ASSUME NEW d \in Seq(Dumps)
    PROVE  Extract(d) \in Nat /\ (Len(d) = 1 => Extract(d) = d[1].events)
<1>1. d # <<>> => Last(d) = d[Len(d)] /\ Len(d) \in 1..Len(d)
  BY DEF Last
<1>2. d # <<>> => Last(d) \in Dumps
  BY <1>1
<1>3. \A e \in Dumps : e.events \in Nat
  BY DEF Dumps
<1> QED
  BY <1>1, <1>2, <1>3 DEF Extract

LEMMA ExtractIInv ==
    ASSUME IInv, ExtractStats \/ NoStats
    PROVE  IInv'
<1>1. CASE ExtractStats
  <2> DEFINE d == stats[<<Name, x>>]
  <2>1. d \in Seq(Dumps)
    BY <1>1 DEF ExtractStats, IInv, TypeOK
  <2>2. Extract(d) \in Nat \cup {NA}
    BY <2>1, ExtractTyped
  <2>3. status = "ok" /\ Name \in Ranged => Ours(d)
    BY <1>1 DEF ExtractStats, IInv, Built
  <2>4. pc = "extract" /\ NextPoint(Row(status, Extract(d), d)) /\ UNCHANGED <<files, status>>
    BY <1>1 DEF ExtractStats
  <2> HIDE DEF d
  <2> QED
    BY <2>1, <2>2, <2>3, <2>4, MeasuredIInv
<1>2. CASE NoStats
  <2>1. ~(status = "ok" /\ Name \in Ranged)
    BY <1>2 DEF NoStats, IInv, Built
  <2>2. pc = "extract" /\ NextPoint(Row(status, NA, <<>>)) /\ UNCHANGED <<files, status>>
    BY <1>2 DEF NoStats
  <2>3. NA \in Nat \cup {NA} /\ <<>> \in Seq(Dumps)
    OBVIOUS
  <2> QED
    BY <2>1, <2>2, <2>3, MeasuredIInv
<1> QED
  BY <1>1, <1>2

LEMMA FailedBuildIInv ==
    ASSUME IInv, GenerateRefused \/ GenerateFails \/ CompileNowhere \/ CompileFails
    PROVE  IInv'
<1>1. BuildFailed /\ pc \in {"point", "compile"}
  BY DEF GenerateRefused, GenerateFails, CompileNowhere, CompileFails, InRange
<1>2. stats' = stats /\ status' = status
  BY DEF GenerateRefused, GenerateFails, CompileNowhere, CompileFails, files
<1>3. Nothing \in Programs /\ Unfit \in Programs /\ NoSource \in Programs
  BY DEF Nothing, Unfit, NoSource, Without, Programs
<1>4. Leftovers \subseteq Programs
  <2>1. x \in Int /\ generated \in Programs
    BY DEF IInv, TypeOK
  <2>2. Program(Name, x) \in Programs
    BY <2>1 DEF Program, Programs, Selected
  <2> QED
    BY <1>3, <2>1, <2>2 DEF Leftovers
<1>5. generated' \in Programs /\ binary' \in Programs
  <2>1. binary' \in {binary, Nothing} /\ (generated' = generated \/ generated' \in Leftovers)
    BY DEF GenerateRefused, GenerateFails, CompileNowhere, CompileFails, files
  <2> QED
    BY <1>3, <1>4, <2>1 DEF IInv, TypeOK
<1> QED
  BY <1>1, <1>2, <1>5, BuildFailedIInv

LEMMA NextIInv ==
    ASSUME IInv, [Next]_vars
    PROVE  IInv'
<1>1. CASE StartSweep
  BY <1>1, StartSweepIInv
<1>2. CASE SkipSpec \/ FirstPoint \/ Summarize \/ EndSweep \/ Interrupt
  BY <1>2, MoveIInv
<1>3. CASE Generate \/ GenerateNothing
  BY <1>3, GenerateIInv
<1>4. CASE Compile \/ CompileNothing
  BY <1>4, CompileIInv
<1>5. CASE Run \/ RunStops \/ RunFails
  BY <1>5, RunIInv
<1>6. CASE ExtractStats \/ NoStats
  BY <1>6, ExtractIInv
<1>7. CASE GenerateRefused \/ GenerateFails \/ CompileNowhere \/ CompileFails
  BY <1>7, FailedBuildIInv
<1>8. CASE UNCHANGED vars
  <2>1. UNCHANGED <<pc, sweep, specs, spec, x, rows, generated, binary, stats, status>>
    BY <1>8 DEF vars, scriptVars, files
  <2>2. Name' = Name /\ Wanted' = Wanted
    BY <2>1 DEF Name, Wanted, Program, Selected
  <2>3. TypeOK'
    BY <2>1 DEF IInv, TypeOK
  <2>4. Built'
    BY <2>1, <2>2 DEF IInv, Built, Ours
  <2> QED
    BY <2>1, <2>3, <2>4, SameRows DEF IInv
<1> QED
  BY <1>1, <1>2, <1>3, <1>4, <1>5, <1>6, <1>7, <1>8 DEF Next, Script

\* The type invariant of the point sweep, for every set of tests, ranges and
\* arguments: no step of the script reads past its arguments.
THEOREM PointsTypeCorrect == Spec => []TypeOK
<1>1. IInv => TypeOK
  BY DEF IInv
<1> QED
  BY <1>1, InitIInv, NextIInv, PTL DEF Spec

\* Whatever failed or was interrupted before, a row whose gem5 run succeeded
\* holds the numbers of its own test at its own point.
THEOREM StatsAreTheRows == Spec => []FinishedRowsAreOwn
<1>1. Init => IInv
  BY InitIInv
<1>2. IInv /\ [Next]_vars => IInv'
  BY NextIInv
<1>3. IInv => FinishedRowsAreOwn
  BY DEF IInv
<1> QED
  BY <1>1, <1>2, <1>3, PTL DEF Spec

-----------------------------------------------------------------------------
(* The summary                                                             *)

\* A row has no number if its build failed, and what gem5 counted if that succeeded.
RowRight(r) ==
    /\ r.status = "build_failed" => r.target = NA
    /\ r.status = "ok" /\ r.test \in Ranged => r.target = r.dumps[1].events /\ r.target \in Nat

RowsRight == \A i \in DOMAIN rows : RowRight(rows[i])

\* The rows are of this argument or of those before it; the points of this
\* one are in the loop's bounds, and ascend where the loop can end.
RowsOfTheirSpec ==
    \A i \in DOMAIN rows :
        /\ rows[i].test = specs[rows[i].spec].test
        /\ pc # "idle" => rows[i].spec <= spec
        /\ pc = "spec" => rows[i].spec < spec

PointInRange ==
    /\ pc \notin {"idle", "spec"} => Len(Bounds) >= 2
    /\ pc \in {"compile", "run", "extract"} => x <= Bounds[2]

Ascending ==
    pc \notin {"idle", "spec"} =>
        \A i \in DOMAIN rows : rows[i].spec = spec =>
            /\ Step(Bounds) <= 0 => x <= Bounds[2]
            /\ Step(Bounds) > 0 =>
                 /\ rows[i].x < x
                 /\ \A j \in DOMAIN rows : rows[j].spec = spec /\ i < j => rows[i].x < rows[j].x

\* SummaryIsOfOwnCounts of one line, which is about an argument before this one.
LineOK(line) ==
    LET points == Counted(line.spec)
        base == LowestTwo(points)
    IN  /\ specs[line.spec].test \in Ranged
        /\ \A r \in RowsOf(line.spec) : r.status # "failed"
        =>
        /\ IsGreatest(line.lastZero, {p \in points : p.events = 0})
        /\ IsLeast(line.firstNonzero, {p \in points : p.events > 0})
        /\ \A ratio \in Ratios :
              IsLeast(line.firstGe[ratio], {p \in points \ base : Jumps(p, base, ratio)})

Lines == [spec : Nat, lastZero : Int, firstNonzero : Int, firstGe : [Ratios -> Int]]

LinesRight ==
    /\ summary \in Seq(Lines)
    /\ \A i \in DOMAIN summary : LineOK(summary[i]) /\ (pc # "idle" => summary[i].spec < spec)

SInv == IInv /\ RowsRight /\ RowsOfTheirSpec /\ PointInRange /\ Ascending /\ LinesRight

\* Every set of natural numbers has a least element, a bounded one a greatest.
LEMMA LeastOf ==
    ASSUME NEW T, T \subseteq Nat, T # {}
    PROVE  \E y \in T : \A z \in T : y <= z
<1> DEFINE R == StrictSubsetOrdering(Nat)
           I == {0..y : y \in T}
<1>1. IsWellFoundedOn(R, FiniteSubsetsOf(Nat))
  BY FS_StrictSubsetOrderingWellFounded
<1>2. I \subseteq FiniteSubsetsOf(Nat) /\ I # {}
  <2>1. ASSUME NEW y \in T PROVE 0..y \subseteq Nat /\ IsFiniteSet(0..y)
    BY FS_Interval
  <2> QED
    BY <2>1 DEF FiniteSubsetsOf
<1> HIDE DEF R
<1>3. PICK s \in I : \A t \in I : <<t, s>> \notin R
  <2> HIDE DEF I
  <2> QED
    BY <1>1, <1>2, WFMin
<1>4. PICK y \in T : s = 0..y
  BY <1>3
<1>5. ASSUME NEW z \in T, ~ (y <= z) PROVE FALSE
  <2>1. 0..z \subseteq 0..y /\ y \in 0..y /\ y \notin 0..z
    BY <1>5
  <2>2. <<0..z, s>> \in R
    BY <1>4, <2>1 DEF R, StrictSubsetOrdering
  <2> QED
    BY <1>3, <2>2
<1> QED
  BY <1>5

LEMMA MinAndMax ==
    ASSUME NEW n \in Nat, NEW T, T \subseteq 1..n, T # {}
    PROVE  /\ Min(T) \in T /\ \A y \in T : Min(T) <= y
           /\ Max(T) \in T /\ \A y \in T : Max(T) >= y
<1>1. \E y \in T : \A z \in T : y <= z
  <2>1. T \subseteq Nat
    OBVIOUS
  <2> QED
    BY <2>1, LeastOf
<1>2. \E y \in T : \A z \in T : y >= z
  <2> DEFINE D == {n - y : y \in T}
  <2>1. D \subseteq Nat /\ D # {}
    OBVIOUS
  <2>2. PICK d \in D : \A e \in D : d <= e
    <3> HIDE DEF D
    <3> QED
      BY <2>1, LeastOf
  <2>3. PICK y \in T : d = n - y
    BY <2>2
  <2>4. \A z \in T : n - y <= n - z
    BY <2>2, <2>3
  <2>5. \A z \in T : y \in 1..n /\ z \in 1..n
    OBVIOUS
  <2> QED
    BY <2>4, <2>5
<1> QED
  BY <1>1, <1>2 DEF Min, Max

\* The rows are elements of the table's type.
LEMMA RowTypes ==
    ASSUME TypeOK
    PROVE  /\ Len(rows) \in Nat /\ DOMAIN rows = 1..Len(rows)
           /\ \A i \in 1..Len(rows) :
                 /\ rows[i] \in RowType /\ rows[i].x \in Int /\ rows[i].spec \in Nat
                 /\ rows[i].target \in Nat \cup {NA}
                 /\ rows[i].status \in {"build_failed", "ok", "failed"}
<1>1. rows \in Seq(RowType)
  BY DEF TypeOK
<1>2. \A i \in 1..Len(rows) : rows[i] \in RowType
  BY <1>1
<1>3. \A r \in RowType : /\ r.x \in Int /\ r.spec \in Nat /\ r.target \in Nat \cup {NA}
                         /\ r.status \in {"build_failed", "ok", "failed"}
  BY DEF RowType
<1> QED
  BY <1>1, <1>2, <1>3

\* The first and the last of some places are the least and the greatest where
\* what is there ascends.
LEMMA AscendingEnds ==
    ASSUME NEW n \in Nat, NEW T, T \subseteq 1..n, NEW f,
           \A i \in T : f[i].x \in Int,
           \A i, j \in T : i < j => f[i].x < f[j].x
    PROVE  /\ IsLeast(IF T = {} THEN NA ELSE f[Min(T)].x, {f[i] : i \in T})
           /\ IsGreatest(IF T = {} THEN NA ELSE f[Max(T)].x, {f[i] : i \in T})
<1>1. CASE T = {}
  <2>1. {f[i] : i \in T} = {}
    BY <1>1
  <2> QED
    BY <1>1, <2>1 DEF IsLeast, IsGreatest
<1>2. CASE T # {}
  <2>1. /\ Min(T) \in T /\ \A y \in T : Min(T) <= y
        /\ Max(T) \in T /\ \A y \in T : Max(T) >= y
    BY <1>2, MinAndMax
  <2>2. \A i, j \in T : i <= j => f[i].x <= f[j].x
    <3> SUFFICES ASSUME NEW i \in T, NEW j \in T, i <= j PROVE f[i].x <= f[j].x
      OBVIOUS
    <3>1. i \in Int /\ j \in Int /\ f[i].x \in Int /\ f[j].x \in Int
      <4>1. i \in 1..n /\ j \in 1..n
        OBVIOUS
      <4>2. f[i].x \in Int /\ f[j].x \in Int
        OBVIOUS
      <4> QED
        BY <4>1, <4>2
    <3>2. CASE i = j
      <4>1. f[i].x <= f[i].x
        BY <3>1
      <4> QED
        BY <3>2, <4>1
    <3>3. CASE i < j
      <4>1. f[i].x < f[j].x
        BY <3>3
      <4> QED
        BY <3>1, <4>1
    <3> QED
      BY <3>1, <3>2, <3>3
  <2>3. ASSUME NEW i \in T
        PROVE  f[Min(T)].x <= f[i].x /\ f[i].x <= f[Max(T)].x
    <3>1. Min(T) <= i /\ i <= Max(T)
      <4>1. i \in 1..n /\ Max(T) \in 1..n
        BY <2>1
      <4> QED
        BY <2>1, <4>1
    <3> QED
      BY <2>1, <2>2, <3>1
  <2>4. {f[i] : i \in T} # {} /\ f[Min(T)] \in {f[i] : i \in T} /\ f[Max(T)] \in {f[i] : i \in T}
    BY <2>1
  <2>5. \A q \in {f[i] : i \in T} : f[Min(T)].x <= q.x /\ q.x <= f[Max(T)].x
    BY <2>3
  <2> QED
    BY <1>2, <2>4, <2>5 DEF IsLeast, IsGreatest
<1> QED
  BY <1>1, <1>2

\* What gem5 counted at the point of a row.
Point(i) == [x |-> rows[i].x, events |-> rows[i].target]

\* The rows that Summarize looks at: they ascend, and if no run of gem5 failed
\* they are what was counted.
LEMMA OwnRowsAre ==
    ASSUME SInv, pc = "point", x > Bounds[2]
    PROVE  /\ Len(rows) \in Nat /\ OwnRows \subseteq 1..Len(rows)
           /\ \A i \in OwnRows : rows[i].target \in Nat /\ rows[i].x \in Int
           /\ \A i, j \in OwnRows : i < j => rows[i].x < rows[j].x
           /\ Name \in Ranged /\ (\A r \in RowsOf(spec) : r.status # "failed") =>
                Counted(spec) = {Point(i) : i \in OwnRows}
<1> DEFINE own == {i \in DOMAIN rows : rows[i].spec = spec}
           n == Len(rows)
<1>1. TypeOK /\ RowsRight /\ spec \in 1..Len(specs) /\ x \in Int
  BY DEF SInv, IInv, TypeOK
<1>2. /\ n \in Nat /\ DOMAIN rows = 1..n
      /\ \A i \in 1..n : /\ rows[i].x \in Int /\ rows[i].spec \in Nat
                          /\ rows[i].target \in Nat \cup {NA}
                          /\ rows[i].status \in {"build_failed", "ok", "failed"}
  BY <1>1, RowTypes
<1>3. Bounds[2] \in Int /\ Step(Bounds) \in Int /\ spec \in Nat
  <2>1. Bounds \in Seq(Int) /\ Len(Bounds) >= 2 /\ Step(Bounds) \in Int
    BY <1>1, SpecTypes DEF SInv, PointInRange, TypeOK
  <2>2. Len(specs) \in Nat
    BY <1>1, ArgumentsAreSequences DEF TypeOK
  <2> QED
    BY <1>1, <2>1, <2>2
<1>4. \A i \in own : Step(Bounds) > 0
  BY <1>1, <1>3 DEF SInv, Ascending
<1>5. \A i, j \in own : i < j => rows[i].x < rows[j].x
  BY <1>4 DEF SInv, Ascending
<1>6. \A i \in own : i \in 1..n /\ RowRight(rows[i]) /\ rows[i].test = Name
  BY <1>1, <1>2 DEF RowsRight, SInv, RowsOfTheirSpec, Name
<1>7. OwnRows \subseteq own /\ \A i \in own : i \in OwnRows <=> rows[i].target # NA
  BY DEF OwnRows
<1>8. RowsOf(spec) = {rows[i] : i \in own}
  BY DEF RowsOf
<1> HIDE DEF own, n
<1>9. ASSUME Name \in Ranged, \A r \in RowsOf(spec) : r.status # "failed"
      PROVE  Counted(spec) = {Point(i) : i \in OwnRows}
  <2>1. ASSUME NEW i \in own
        PROVE  /\ rows[i].status = "ok" <=> i \in OwnRows
               /\ rows[i].status = "ok" => rows[i].dumps[1].events = rows[i].target
    <3>1. rows[i].status \in {"build_failed", "ok"}
      <4>1. rows[i] \in RowsOf(spec)
        BY <1>8
      <4> QED
        BY <1>2, <1>6, <1>9, <4>1
    <3>2. NA \notin Nat
      BY DEF NA
    <3> QED
      BY <1>6, <1>7, <1>9, <3>1, <3>2 DEF RowRight
  <2> DEFINE seen(r) == [x |-> r.x, events |-> r.dumps[1].events]
  <2>2. Counted(spec) = {seen(r) : r \in {q \in RowsOf(spec) : q.status = "ok"}}
    BY DEF Counted
  <2>3. \A i \in OwnRows : i \in own /\ rows[i].status = "ok" /\ seen(rows[i]) = Point(i)
    BY <1>7, <2>1 DEF Point
  <2>4. {q \in RowsOf(spec) : q.status = "ok"} = {rows[i] : i \in OwnRows}
    BY <1>7, <1>8, <2>1
  <2> HIDE DEF seen
  <2>5. {seen(r) : r \in {rows[i] : i \in OwnRows}} = {Point(i) : i \in OwnRows}
    BY <2>3
  <2> QED
    BY <2>2, <2>4, <2>5
<1>10. \A i \in OwnRows : rows[i].target \in Nat /\ rows[i].x \in Int
  BY <1>2, <1>6, <1>7
<1> QED
  BY <1>2, <1>5, <1>6, <1>7, <1>9, <1>10 DEF n

\* The first two of the rows are the two lowest points; twice the baseline is
\* the sum of what was counted there.
LEMMA BaseIsLowest ==
    ASSUME SInv, pc = "point", x > Bounds[2],
           NEW points, points = {Point(i) : i \in OwnRows}
    PROVE  /\ BaseRows \subseteq OwnRows
           /\ LowestTwo(points) = {Point(i) : i \in BaseRows}
           /\ points \ LowestTwo(points) = {Point(i) : i \in OwnRows \ BaseRows}
           /\ OwnRows # {} => /\ TwiceBaseline \in Nat
                              /\ \A p \in points, ratio \in Ratios :
                                    Jumps(p, LowestTwo(points), ratio)
                                    <=> TwiceBaseline > 0 /\ 2 * p.events >= ratio * TwiceBaseline
<1> DEFINE n == Len(rows)
<1>1. /\ n \in Nat /\ OwnRows \subseteq 1..n
      /\ \A i \in OwnRows : rows[i].target \in Nat /\ rows[i].x \in Int
      /\ \A i, j \in OwnRows : i < j => rows[i].x < rows[j].x
  BY OwnRowsAre
<1> HIDE DEF n
<1>2. \A i : Point(i).x = rows[i].x /\ Point(i).events = rows[i].target
  BY DEF Point
<1>3. \A i, j \in OwnRows : /\ rows[i].x < rows[j].x <=> i < j
                            /\ Point(i) = Point(j) <=> i = j
  <2> SUFFICES ASSUME NEW i \in OwnRows, NEW j \in OwnRows
               PROVE  /\ rows[i].x < rows[j].x <=> i < j
                      /\ Point(i) = Point(j) <=> i = j
    OBVIOUS
  <2>1. i \in 1..n /\ j \in 1..n /\ rows[i].x \in Int /\ rows[j].x \in Int
    BY <1>1
  <2>2. i < j => rows[i].x < rows[j].x
    BY <1>1
  <2>3. j < i => rows[j].x < rows[i].x
    BY <1>1
  <2>4. i = j \/ i < j \/ j < i
    BY <2>1
  <2> QED
    BY <1>2, <2>1, <2>2, <2>3, <2>4
<1>4. BaseRows \subseteq OwnRows
  BY DEF BaseRows
<1>5. ASSUME NEW i \in OwnRows
      PROVE  Point(i) \in LowestTwo(points) <=> i \in BaseRows
  <2>1. Point(i) \in points
    OBVIOUS
  <2>2. Point(i) \in LowestTwo(points)
        <=> \A q, w \in points : q.x < Point(i).x /\ w.x < Point(i).x => q = w
    BY <2>1 DEF LowestTwo
  <2>3. (\A q, w \in points : q.x < Point(i).x /\ w.x < Point(i).x => q = w)
        <=> \A j, k \in OwnRows : Point(j).x < Point(i).x /\ Point(k).x < Point(i).x
                                   => Point(j) = Point(k)
    <3> HIDE DEF Point
    <3> QED
      BY Zenon
  <2>4. (\A j, k \in OwnRows : Point(j).x < Point(i).x /\ Point(k).x < Point(i).x => Point(j) = Point(k))
        <=> \A j, k \in OwnRows : j < i /\ k < i => j = k
    BY <1>2, <1>3
  <2>5. (\A j, k \in OwnRows : j < i /\ k < i => j = k) <=> i \in BaseRows
    BY DEF BaseRows
  <2> QED
    BY <2>2, <2>3, <2>4, <2>5
<1>6. LowestTwo(points) = {Point(i) : i \in BaseRows}
  <2>1. \A p : p \in LowestTwo(points) => p \in points
    BY DEF LowestTwo
  <2> QED
    BY <1>4, <1>5, <2>1
<1>7. points \ LowestTwo(points) = {Point(i) : i \in OwnRows \ BaseRows}
  BY <1>5
<1>8. ASSUME OwnRows # {}
      PROVE  /\ TwiceBaseline \in Nat
             /\ \A p \in points, ratio \in Ratios :
                   Jumps(p, LowestTwo(points), ratio)
                   <=> TwiceBaseline > 0 /\ 2 * p.events >= ratio * TwiceBaseline
  <2> DEFINE a == Min(BaseRows)
             b == Max(BaseRows)
  <2>1. BaseRows # {} /\ BaseRows \subseteq 1..n
    <3>1. Min(OwnRows) \in OwnRows /\ \A y \in OwnRows : Min(OwnRows) <= y
      BY <1>1, <1>8, MinAndMax
    <3>2. \A j \in OwnRows : ~(j < Min(OwnRows))
      <4>1. \A j \in OwnRows : j \in 1..n /\ Min(OwnRows) \in 1..n
        BY <1>1, <3>1
      <4> QED
        BY <3>1, <4>1
    <3>3. Min(OwnRows) \in BaseRows
      BY <3>1, <3>2 DEF BaseRows
    <3> QED
      BY <1>1, <1>4, <3>3
  <2>2. /\ a \in BaseRows /\ \A y \in BaseRows : a <= y
        /\ b \in BaseRows /\ \A y \in BaseRows : b >= y
    BY <1>1, <2>1, MinAndMax
  <2>3. TwiceBaseline = Point(a).events + Point(b).events
    BY <1>2 DEF TwiceBaseline
  <2> HIDE DEF a, b
  <2>4. BaseRows = {a, b}
    <3> SUFFICES ASSUME NEW i \in BaseRows, i # a, i # b PROVE FALSE
      BY <2>2
    <3>1. i \in 1..n /\ a \in 1..n /\ b \in 1..n
      BY <2>1, <2>2
    <3>2. a <= i /\ b >= i
      BY <2>2
    <3>3. a < i /\ i < b /\ a < b
      BY <3>1, <3>2
    <3>4. \A j, k \in OwnRows : j < b /\ k < b => j = k
      BY <2>2 DEF BaseRows
    <3> QED
      BY <1>4, <2>2, <3>3, <3>4
  <2>5. LowestTwo(points) = {Point(a), Point(b)}
    BY <1>6, <2>4
  <2>6. Point(a).events \in Nat /\ Point(b).events \in Nat
    BY <1>1, <1>2, <1>4, <2>2
  <2>7. ASSUME NEW p \in points, NEW ratio \in Ratios
        PROVE  Jumps(p, LowestTwo(points), ratio)
               <=> TwiceBaseline > 0 /\ 2 * p.events >= ratio * TwiceBaseline
    <3>1. \A lo, hi \in LowestTwo(points) :
            LowestTwo(points) = {lo, hi} => lo.events + hi.events = TwiceBaseline
      <4> SUFFICES ASSUME NEW lo \in {Point(a), Point(b)}, NEW hi \in {Point(a), Point(b)},
                          {Point(a), Point(b)} = {lo, hi}
                   PROVE  lo.events + hi.events = Point(a).events + Point(b).events
        BY <2>3, <2>5
      <4>1. (lo = Point(a) /\ hi = Point(b)) \/ (lo = Point(b) /\ hi = Point(a))
        OBVIOUS
      <4> QED
        BY <2>6, <4>1
    <3>2. \E lo, hi \in LowestTwo(points) : LowestTwo(points) = {lo, hi}
      BY <2>5
    <3> DEFINE reached(sum) == sum > 0 /\ 2 * p.events >= ratio * sum
    <3>3. Jumps(p, LowestTwo(points), ratio)
          <=> \E lo, hi \in LowestTwo(points) :
                 LowestTwo(points) = {lo, hi} /\ reached(lo.events + hi.events)
      BY Zenon DEF Jumps
    <3>4. reached(TwiceBaseline) <=> TwiceBaseline > 0 /\ 2 * p.events >= ratio * TwiceBaseline
      OBVIOUS
    <3> HIDE DEF reached
    <3>5. ASSUME Jumps(p, LowestTwo(points), ratio)
          PROVE  reached(TwiceBaseline)
      <4>1. PICK lo, hi \in LowestTwo(points) :
               LowestTwo(points) = {lo, hi} /\ reached(lo.events + hi.events)
        BY <3>3, <3>5
      <4> QED
        BY <3>1, <4>1
    <3>6. ASSUME reached(TwiceBaseline)
          PROVE  Jumps(p, LowestTwo(points), ratio)
      <4>1. PICK lo, hi \in LowestTwo(points) : LowestTwo(points) = {lo, hi}
        BY <3>2
      <4>2. lo.events + hi.events = TwiceBaseline
        BY <3>1, <4>1
      <4>3. reached(lo.events + hi.events)
        BY <3>6, <4>2
      <4> QED
        BY <3>3, <4>1, <4>3, Zenon
    <3> QED
      BY <3>4, <3>5, <3>6
  <2>8. TwiceBaseline \in Nat
    BY <2>3, <2>6
  <2> QED
    BY <2>7, <2>8
<1> QED
  BY <1>4, <1>6, <1>7, <1>8

\* The line that Summarize writes is of this argument's counts.
LEMMA OwnLine ==
    ASSUME SInv, pc = "point", x > Bounds[2], NEW line,
           line = [spec |-> spec, lastZero |-> LastZero, firstNonzero |-> FirstNonzero,
                   firstGe |-> [r \in Ratios |-> FirstAtLeast(r)]]
    PROVE  LineOK(line) /\ line \in Lines
<1> DEFINE zeros == {i \in OwnRows : rows[i].target = 0}
           hits == {i \in OwnRows : rows[i].target > 0}
           jumps(ratio) == {i \in OwnRows \ BaseRows :
                               TwiceBaseline > 0 /\ 2 * rows[i].target >= ratio * TwiceBaseline}
           f == [i \in OwnRows |-> Point(i)]
           n == Len(rows)
           points == {Point(i) : i \in OwnRows}
<1>1. /\ n \in Nat /\ OwnRows \subseteq 1..n
      /\ \A i \in OwnRows : rows[i].target \in Nat /\ rows[i].x \in Int
      /\ \A i, j \in OwnRows : i < j => rows[i].x < rows[j].x
      /\ Name \in Ranged /\ (\A r \in RowsOf(spec) : r.status # "failed") => Counted(spec) = points
  BY OwnRowsAre
<1>2. \A i \in OwnRows : f[i] = Point(i) /\ f[i].x = rows[i].x /\ f[i].events = rows[i].target
  BY DEF Point
<1>3. /\ line.spec = spec
      /\ line.lastZero = IF zeros = {} THEN NA ELSE rows[Max(zeros)].x
      /\ line.firstNonzero = IF hits = {} THEN NA ELSE rows[Min(hits)].x
      /\ \A ratio \in Ratios : line.firstGe[ratio] = FirstAtLeast(ratio)
      /\ \A ratio \in Ratios :
            FirstAtLeast(ratio) = IF jumps(ratio) = {} THEN NA ELSE rows[Min(jumps(ratio))].x
  BY DEF LastZero, FirstNonzero, FirstAtLeast
<1>4. zeros \subseteq OwnRows /\ hits \subseteq OwnRows
      /\ \A ratio \in Ratios : jumps(ratio) \subseteq OwnRows
  OBVIOUS
<1> HIDE DEF n, f
<1>5. ASSUME NEW T, T \subseteq OwnRows
      PROVE  /\ IsLeast(IF T = {} THEN NA ELSE rows[Min(T)].x, {Point(i) : i \in T})
             /\ IsGreatest(IF T = {} THEN NA ELSE rows[Max(T)].x, {Point(i) : i \in T})
             /\ (IF T = {} THEN NA ELSE rows[Min(T)].x) \in Int
             /\ (IF T = {} THEN NA ELSE rows[Max(T)].x) \in Int
  <2>1. T \subseteq 1..n
    BY <1>1, <1>5
  <2>2. T # {} => Min(T) \in OwnRows /\ Max(T) \in OwnRows
    BY <1>1, <1>5, <2>1, MinAndMax
  <2>3. (\A i \in T : f[i].x \in Int) /\ \A i, j \in T : i < j => f[i].x < f[j].x
    BY <1>1, <1>2, <1>5
  <2>4. /\ IsLeast(IF T = {} THEN NA ELSE f[Min(T)].x, {f[i] : i \in T})
        /\ IsGreatest(IF T = {} THEN NA ELSE f[Max(T)].x, {f[i] : i \in T})
    BY <1>1, <2>1, <2>3, AscendingEnds
  <2>5. {f[i] : i \in T} = {Point(i) : i \in T}
    BY <1>2, <1>5
  <2>6. T # {} => f[Min(T)].x = rows[Min(T)].x /\ f[Max(T)].x = rows[Max(T)].x
    BY <1>2, <2>2
  <2>7. NA \in Int
    BY DEF NA
  <2> HIDE DEF NA
  <2>8. (IF T = {} THEN NA ELSE rows[Min(T)].x) \in Int /\ (IF T = {} THEN NA ELSE rows[Max(T)].x) \in Int
    BY <1>1, <2>2, <2>7
  <2> QED
    BY <2>4, <2>5, <2>6, <2>8
<1>6. /\ BaseRows \subseteq OwnRows
      /\ points \ LowestTwo(points) = {Point(i) : i \in OwnRows \ BaseRows}
      /\ OwnRows # {} => /\ TwiceBaseline \in Nat
                         /\ \A p \in points, ratio \in Ratios :
                               Jumps(p, LowestTwo(points), ratio)
                               <=> TwiceBaseline > 0 /\ 2 * p.events >= ratio * TwiceBaseline
  BY BaseIsLowest
<1>7. line \in Lines
  <2>1. spec \in Nat
    BY DEF SInv, IInv, TypeOK
  <2>2. LastZero \in Int /\ FirstNonzero \in Int /\ \A ratio \in Ratios : FirstAtLeast(ratio) \in Int
    BY <1>3, <1>4, <1>5
  <2> QED
    BY <2>1, <2>2 DEF Lines
<1>8. ASSUME Name \in Ranged, \A r \in RowsOf(spec) : r.status # "failed"
      PROVE  /\ IsGreatest(line.lastZero, {p \in points : p.events = 0})
             /\ IsLeast(line.firstNonzero, {p \in points : p.events > 0})
             /\ \A ratio \in Ratios :
                   IsLeast(line.firstGe[ratio],
                           {p \in points \ LowestTwo(points) : Jumps(p, LowestTwo(points), ratio)})
  <2>1. {p \in points : p.events = 0} = {Point(i) : i \in zeros}
    BY DEF Point
  <2>2. {p \in points : p.events > 0} = {Point(i) : i \in hits}
    BY DEF Point
  <2>3. ASSUME NEW ratio \in Ratios
        PROVE  {p \in points \ LowestTwo(points) : Jumps(p, LowestTwo(points), ratio)}
               = {Point(i) : i \in jumps(ratio)}
    <3>1. ASSUME NEW i \in OwnRows
          PROVE  Jumps(Point(i), LowestTwo(points), ratio)
                 <=> TwiceBaseline > 0 /\ 2 * rows[i].target >= ratio * TwiceBaseline
      <4>1. Point(i) \in points /\ Point(i).events = rows[i].target
        BY DEF Point
      <4> QED
        BY <1>6, <3>1, <4>1
    <3>2. {p \in {Point(i) : i \in OwnRows \ BaseRows} : Jumps(p, LowestTwo(points), ratio)}
          = {Point(i) : i \in jumps(ratio)}
      <4> HIDE DEF Point, points
      <4> QED
        BY <3>1
    <3> QED
      BY <1>6, <3>2
  <2>4. IsGreatest(line.lastZero, {Point(i) : i \in zeros}) /\ IsLeast(line.firstNonzero, {Point(i) : i \in hits})
    BY <1>3, <1>4, <1>5
  <2>5. \A ratio \in Ratios : IsLeast(line.firstGe[ratio], {Point(i) : i \in jumps(ratio)})
    BY <1>3, <1>4, <1>5
  <2> HIDE DEF zeros, hits, jumps, points
  <2> QED
    BY <2>1, <2>2, <2>3, <2>4, <2>5
<1>9. LineOK(line)
  <2> HIDE DEF points
  <2> SUFFICES ASSUME Name \in Ranged, \A r \in RowsOf(spec) : r.status # "failed"
               PROVE  /\ IsGreatest(line.lastZero, {p \in Counted(spec) : p.events = 0})
                      /\ IsLeast(line.firstNonzero, {p \in Counted(spec) : p.events > 0})
                      /\ \A ratio \in Ratios :
                            IsLeast(line.firstGe[ratio],
                                    {p \in Counted(spec) \ LowestTwo(Counted(spec)) :
                                        Jumps(p, LowestTwo(Counted(spec)), ratio)})
    BY <1>3 DEF LineOK, Name
  <2>1. Counted(spec) = points
    BY <1>1
  <2> QED
    BY <1>8, <2>1
<1> QED
  BY <1>7, <1>9

-----------------------------------------------------------------------------
(* The summary: the steps.                                                 *)

\* The lines of the summary name arguments.
LEMMA LineTypes ==
    ASSUME LinesRight
    PROVE  /\ Len(summary) \in Nat /\ DOMAIN summary = 1..Len(summary)
           /\ \A i \in DOMAIN summary : summary[i].spec \in Nat
<1>1. summary \in Seq(Lines)
  BY DEF LinesRight
<1>2. \A line \in Lines : line.spec \in Nat
  BY DEF Lines
<1>3. \A i \in DOMAIN summary : summary[i] \in Lines
  BY <1>1
<1> QED
  BY <1>1, <1>2, <1>3

\* The rows of the other arguments stay when a row of this one is added.
LEMMA RowWritten ==
    ASSUME SInv, pc \notin {"idle", "spec"}, x <= Bounds[2],
           NEW r \in RowType, NextPoint(r), RowRight(r),
           r.spec = spec, r.test = Name, r.x = x
    PROVE  RowsRight' /\ RowsOfTheirSpec' /\ PointInRange' /\ Ascending' /\ LinesRight'
<1> DEFINE n == Len(rows)
<1>1. /\ rows' = Append(rows, r) /\ x' = x + Step(Bounds) /\ pc' = "point"
      /\ specs' = specs /\ spec' = spec /\ summary' = summary /\ Bounds' = Bounds
  BY DEF NextPoint, scriptVars, Bounds
<1>2. TypeOK /\ spec \in 1..Len(specs) /\ x \in Int
  BY DEF SInv, IInv, TypeOK
<1>3. /\ n \in Nat /\ DOMAIN rows = 1..n /\ rows \in Seq(RowType)
      /\ \A i \in 1..n : rows[i].x \in Int /\ rows[i].spec \in Nat
  BY <1>2, RowTypes DEF TypeOK
<1>4. Bounds[2] \in Int /\ Step(Bounds) \in Int /\ Len(Bounds) >= 2 /\ spec \in Nat
  <2>1. Bounds \in Seq(Int) /\ Len(Bounds) >= 2 /\ Step(Bounds) \in Int
    BY <1>2, SpecTypes DEF SInv, PointInRange, TypeOK
  <2>2. Len(specs) \in Nat
    BY <1>2, ArgumentsAreSequences DEF TypeOK
  <2> QED
    BY <1>2, <2>1, <2>2
<1>5. /\ DOMAIN rows' = 1..(n + 1) /\ rows'[n + 1] = r
      /\ \A i \in 1..n : rows'[i] = rows[i]
  BY <1>1, <1>3
<1>6. \A i \in 1..(n + 1) : i = n + 1 \/ (i \in 1..n /\ i < n + 1)
  BY <1>3
<1> HIDE DEF n
<1>7. RowsRight'
  <2>1. \A i \in 1..n : RowRight(rows[i])
    BY <1>3 DEF SInv, RowsRight
  <2>2. \A i \in 1..(n + 1) : RowRight(rows'[i])
    BY <1>5, <1>6, <2>1
  <2> QED
    BY <1>5, <2>2 DEF RowsRight, RowRight
<1>8. RowsOfTheirSpec'
  <2>1. \A i \in 1..n : rows[i].test = specs[rows[i].spec].test /\ rows[i].spec <= spec
    BY <1>3 DEF SInv, RowsOfTheirSpec
  <2>2. \A i \in 1..(n + 1) : rows'[i].test = specs[rows'[i].spec].test /\ rows'[i].spec <= spec
    BY <1>4, <1>5, <1>6, <2>1 DEF Name
  <2> QED
    BY <1>1, <1>5, <2>2 DEF RowsOfTheirSpec
<1>9. PointInRange'
  BY <1>1, <1>4 DEF PointInRange
<1>10. Ascending'
  <2> DEFINE s == Step(Bounds)
  <2>1. s \in Int /\ (s <= 0 => x + s <= Bounds[2]) /\ (s > 0 => x < x + s)
    BY <1>2, <1>4
  <2>2. Step(Bounds)' = s
    BY <1>1 DEF Step
  <2> HIDE DEF s
  <2>3. s > 0 => \A i \in 1..n : rows[i].spec = spec =>
                    /\ rows[i].x < x
                    /\ \A j \in 1..n : rows[j].spec = spec /\ i < j => rows[i].x < rows[j].x
    BY <1>3 DEF SInv, Ascending, s
  <2>4. ASSUME s > 0, NEW i \in 1..(n + 1), rows'[i].spec = spec
        PROVE  /\ rows'[i].x < x + s
               /\ \A j \in 1..(n + 1) : rows'[j].spec = spec /\ i < j => rows'[i].x < rows'[j].x
    <3>1. CASE i = n + 1
      <4>1. \A j \in 1..(n + 1) : ~(i < j)
        BY <1>3, <3>1
      <4> QED
        BY <1>5, <2>1, <2>4, <3>1, <4>1
    <3>2. CASE i # n + 1
      <4>1. i \in 1..n /\ rows'[i] = rows[i] /\ rows[i].x \in Int /\ rows[i].spec = spec
        BY <1>3, <1>5, <1>6, <2>4, <3>2
      <4>2. rows[i].x < x
        BY <2>3, <2>4, <4>1
      <4>3. rows[i].x < x + s
        BY <1>2, <2>1, <2>4, <4>1, <4>2
      <4>4. ASSUME NEW j \in 1..(n + 1), rows'[j].spec = spec, i < j
            PROVE  rows'[i].x < rows'[j].x
        BY <1>5, <1>6, <2>3, <2>4, <4>1, <4>2, <4>4
      <4> QED
        BY <4>1, <4>3, <4>4
    <3> QED
      BY <3>1, <3>2
  <2> QED
    BY <1>1, <1>5, <2>1, <2>2, <2>4 DEF Ascending
<1>11. LinesRight'
  <2>1. ASSUME NEW k, k # spec
        PROVE  {rows'[i] : i \in {j \in DOMAIN rows' : rows'[j].spec = k}}
               = {rows[i] : i \in {j \in DOMAIN rows : rows[j].spec = k}}
    <3>1. \A j : (j \in DOMAIN rows' /\ rows'[j].spec = k) <=> (j \in DOMAIN rows /\ rows[j].spec = k)
      BY <1>3, <1>5, <1>6, <2>1
    <3>2. \A j \in DOMAIN rows : rows'[j] = rows[j]
      BY <1>3, <1>5
    <3> QED
      BY <3>1, <3>2
  <2>2. ASSUME NEW line, line.spec # spec
        PROVE  LineOK(line)' <=> LineOK(line)
    <3>1. RowsOf(line.spec)' = RowsOf(line.spec)
      BY <2>1, <2>2 DEF RowsOf
    <3>2. Counted(line.spec)' = Counted(line.spec)
      BY <3>1 DEF Counted
    <3> QED
      BY <1>1, <3>1, <3>2 DEF LineOK
  <2>3. ASSUME NEW i \in DOMAIN summary
        PROVE  LineOK(summary[i])' /\ summary[i].spec < spec
    <3>1. LineOK(summary[i]) /\ summary[i].spec < spec
      BY DEF SInv, LinesRight
    <3>2. summary[i].spec # spec
      <4>1. summary[i].spec \in Nat
        BY LineTypes DEF SInv
      <4> QED
        BY <1>4, <3>1, <4>1
    <3> QED
      BY <1>1, <2>2, <3>1, <3>2
  <2> QED
    BY <1>1, <2>3 DEF SInv, LinesRight
<1> QED
  BY <1>7, <1>8, <1>9, <1>10, <1>11

\* A failed build says nothing of the point.
LEMMA FailedBuildSInv ==
    ASSUME SInv, GenerateRefused \/ GenerateFails \/ CompileNowhere \/ CompileFails
    PROVE  SInv'
<1> DEFINE r == Row("build_failed", NA, <<>>)
<1>1. NextPoint(r) /\ pc \notin {"idle", "spec"} /\ x <= Bounds[2]
  BY DEF GenerateRefused, GenerateFails, CompileNowhere, CompileFails, BuildFailed, InRange,
         SInv, PointInRange
<1>2. r \in RowType
  <2>1. NA \in Nat \cup {NA} /\ <<>> \in Seq(Dumps)
    OBVIOUS
  <2> QED
    BY <1>1, <2>1, RowTyped DEF SInv, IInv
<1>3. RowRight(r) /\ r.spec = spec /\ r.test = Name /\ r.x = x
  BY DEF Row, RowRight
<1> HIDE DEF r
<1>4. IInv'
  BY FailedBuildIInv DEF SInv
<1> QED
  BY <1>1, <1>2, <1>3, <1>4, RowWritten DEF SInv

\* A row that is measured has the exit status of gem5.
LEMMA ExtractSInv ==
    ASSUME SInv, ExtractStats \/ NoStats
    PROVE  SInv'
<1>1. /\ pc = "extract" /\ status \in {"ok", "failed"} /\ x <= Bounds[2] /\ x \in Int
  BY DEF ExtractStats, NoStats, SInv, PointInRange, IInv, TypeOK
<1>2. ASSUME NEW t \in Nat \cup {NA}, NEW d \in Seq(Dumps), NextPoint(Row(status, t, d)),
             status = "ok" /\ Name \in Ranged => t = d[1].events /\ t \in Nat
      PROVE  SInv'
  <2> DEFINE r == Row(status, t, d)
  <2>1. r \in RowType
    BY <1>1, RowTyped DEF SInv, IInv
  <2>2. RowRight(r) /\ r.spec = spec /\ r.test = Name /\ r.x = x
    BY <1>1, <1>2 DEF Row, RowRight
  <2> HIDE DEF r
  <2>3. IInv'
    BY ExtractIInv DEF SInv
  <2> QED
    BY <1>1, <1>2, <2>1, <2>2, <2>3, RowWritten DEF SInv, r
<1>3. CASE ExtractStats
  <2> DEFINE d == stats[<<Name, x>>]
  <2>1. d \in Seq(Dumps) /\ NextPoint(Row(status, Extract(d), d))
    BY <1>3 DEF ExtractStats, SInv, IInv, TypeOK
  <2>2. Extract(d) \in Nat \cup {NA}
    BY <2>1, ExtractTyped
  <2>3. ASSUME status = "ok", Name \in Ranged
        PROVE  Extract(d) = d[1].events /\ Extract(d) \in Nat
    <3>1. Len(d) = 1
      BY <1>1, <2>3 DEF SInv, IInv, Built, Ours
    <3> HIDE DEF d
    <3> QED
      BY <2>1, <3>1, ExtractTyped
  <2> HIDE DEF d
  <2> QED
    BY <1>2, <2>1, <2>2, <2>3
<1>4. CASE NoStats
  <2>1. ~(status = "ok" /\ Name \in Ranged)
    BY <1>4 DEF NoStats, SInv, IInv, Built
  <2>2. NextPoint(Row(status, NA, <<>>))
    BY <1>4 DEF NoStats
  <2>3. NA \in Nat \cup {NA} /\ <<>> \in Seq(Dumps)
    OBVIOUS
  <2> QED
    BY <1>2, <2>1, <2>2, <2>3
<1> QED
  BY <1>3, <1>4

\* The steps that write neither a row nor a line keep both right.
LEMMA SameTables ==
    ASSUME SInv, UNCHANGED <<specs, rows, summary>>,
           pc' # "idle" => /\ pc # "idle" /\ spec' \in Nat /\ spec' >= spec
                           /\ pc' = "spec" => pc = "spec"
    PROVE  RowsRight' /\ RowsOfTheirSpec' /\ LinesRight'
<1>1. TypeOK /\ (pc # "idle" => spec \in Nat)
  BY DEF SInv, IInv, TypeOK
<1>2. \A i \in DOMAIN rows : rows[i].spec \in Nat
  BY <1>1, RowTypes
<1>3. RowsRight'
  BY DEF SInv, RowsRight, RowRight
<1>4. RowsOfTheirSpec'
  BY <1>1, <1>2 DEF SInv, RowsOfTheirSpec
<1>5. \A i \in DOMAIN summary : summary[i].spec \in Nat
  BY LineTypes DEF SInv
<1>6. \A i \in DOMAIN summary' :
        LineOK(summary[i])' /\ (pc' # "idle" => summary'[i].spec < spec')
  <2>1. \A line : LineOK(line)' <=> LineOK(line)
    BY DEF LineOK, RowsOf, Counted
  <2>2. \A i \in DOMAIN summary :
          LineOK(summary[i]) /\ (pc # "idle" => summary[i].spec < spec)
    BY DEF SInv, LinesRight
  <2>3. ASSUME NEW i \in DOMAIN summary, pc' # "idle"
        PROVE  summary[i].spec < spec'
    BY <1>1, <1>5, <2>2, <2>3
  <2> QED
    BY <2>1, <2>2, <2>3
<1>7. LinesRight'
  BY <1>6 DEF SInv, LinesRight
<1> QED
  BY <1>3, <1>4, <1>7

\* The steps that go from one argument to another, or stop.
LEMMA MoveSInv ==
    ASSUME SInv, SkipSpec \/ FirstPoint \/ EndSweep \/ Interrupt
    PROVE  SInv'
<1>1. IInv' /\ TypeOK
  BY MoveIInv DEF SInv, IInv
<1>2. UNCHANGED <<specs, rows, summary>>
  BY DEF SkipSpec, FirstPoint, EndSweep, Interrupt, scriptVars
<1>3. pc' # "idle" => /\ pc # "idle" /\ spec' \in Nat /\ spec' >= spec
                      /\ pc' = "spec" => pc = "spec"
  BY <1>1 DEF SkipSpec, FirstPoint, EndSweep, Interrupt, TypeOK
<1>4. RowsRight' /\ RowsOfTheirSpec' /\ LinesRight'
  BY <1>2, <1>3, SameTables
<1>5. PointInRange' /\ Ascending'
  <2>1. CASE FirstPoint
    <3>1. pc' = "point" /\ pc = "spec" /\ spec' = spec /\ Len(Bounds) >= 2 /\ Bounds' = Bounds
      BY <2>1 DEF FirstPoint, scriptVars, Bounds
    <3>2. \A i \in DOMAIN rows : rows[i].spec \in Nat /\ rows[i].spec < spec
      BY <1>1, <3>1, RowTypes DEF SInv, RowsOfTheirSpec
    <3>3. spec \in Nat
      BY <1>1, <3>1 DEF TypeOK
    <3>4. \A i \in DOMAIN rows' : rows'[i].spec # spec'
      BY <1>2, <3>1, <3>2, <3>3
    <3>5. Ascending'
      BY <3>4 DEF Ascending
    <3> QED
      BY <3>1, <3>5 DEF PointInRange
  <2>2. CASE ~FirstPoint
    <3>1. pc' \in {"idle", "spec"}
      BY <2>2 DEF SkipSpec, EndSweep, Interrupt
    <3> QED
      BY <3>1 DEF PointInRange, Ascending
  <2> QED
    BY <2>1, <2>2
<1> QED
  BY <1>1, <1>4, <1>5 DEF SInv

\* The steps of one point before its row is written.
LEMMA BuildSInv ==
    ASSUME SInv, Generate \/ GenerateNothing \/ Compile \/ CompileNothing
                 \/ Run \/ RunStops \/ RunFails
    PROVE  SInv'
<1>1. IInv' /\ TypeOK
  BY GenerateIInv, CompileIInv, RunIInv DEF SInv, IInv
<1>2. /\ UNCHANGED <<specs, spec, x, rows, summary>>
      /\ pc \notin {"idle", "spec"} /\ pc' \in {"compile", "run", "extract"}
  BY DEF Generate, GenerateNothing, Compile, CompileNothing, Run, RunStops, RunFails, InRange, scriptVars
<1>3. Bounds' = Bounds /\ Name' = Name /\ Step(Bounds)' = Step(Bounds)
  BY <1>2 DEF Bounds, Name, Step
<1>4. spec \in Nat
  BY <1>1, <1>2 DEF TypeOK
<1>5. RowsRight' /\ RowsOfTheirSpec' /\ LinesRight'
  BY <1>2, <1>4, SameTables
<1>6. x <= Bounds[2]
  BY DEF Generate, GenerateNothing, Compile, CompileNothing, Run, RunStops, RunFails, InRange,
         SInv, PointInRange
<1>7. PointInRange'
  BY <1>2, <1>3, <1>6 DEF SInv, PointInRange
<1>8. Ascending'
  BY <1>2, <1>3 DEF SInv, Ascending
<1> QED
  BY <1>1, <1>5, <1>7, <1>8 DEF SInv

LEMMA SummarizeSInv ==
    ASSUME SInv, Summarize
    PROVE  SInv'
<1> DEFINE line == [spec |-> spec, lastZero |-> LastZero, firstNonzero |-> FirstNonzero,
                    firstGe |-> [r \in Ratios |-> FirstAtLeast(r)]]
           n == Len(summary)
<1>1. IInv' /\ TypeOK
  BY MoveIInv DEF SInv, IInv
<1>2. /\ UNCHANGED <<specs, rows>> /\ pc = "point" /\ pc' = "spec" /\ spec' = spec + 1
      /\ x > Bounds[2] /\ summary' = Append(summary, line)
  BY DEF Summarize, scriptVars
<1>3. LineOK(line) /\ line \in Lines /\ line.spec = spec
  BY <1>2, OwnLine
<1>4. summary \in Seq(Lines) /\ n \in Nat /\ DOMAIN summary = 1..n
      /\ \A i \in 1..n : LineOK(summary[i]) /\ summary[i].spec < spec /\ summary[i].spec \in Nat
  BY <1>2, LineTypes DEF SInv, LinesRight
<1>5. spec \in Nat
  BY <1>1, <1>2 DEF TypeOK
<1> HIDE DEF line, n
<1>6. /\ summary' \in Seq(Lines) /\ DOMAIN summary' = 1..(n + 1) /\ summary'[n + 1] = line
      /\ \A i \in 1..n : summary'[i] = summary[i]
  BY <1>2, <1>3, <1>4 DEF n
<1>7. ASSUME NEW i \in 1..(n + 1)
      PROVE  LineOK(summary'[i]) /\ summary'[i].spec < spec'
  <2>1. CASE i = n + 1
    BY <1>2, <1>3, <1>5, <1>6, <2>1
  <2>2. CASE i # n + 1
    <3>1. i \in 1..n
      BY <1>4, <2>2
    <3> QED
      BY <1>2, <1>4, <1>5, <1>6, <3>1
  <2> QED
    BY <2>1, <2>2
<1>8. LinesRight'
  <2>1. \A l : LineOK(l)' <=> LineOK(l)
    BY <1>2 DEF LineOK, RowsOf, Counted
  <2>2. \A i \in DOMAIN summary' : LineOK(summary[i])' /\ (pc' # "idle" => summary'[i].spec < spec')
    BY <1>6, <1>7, <2>1
  <2> QED
    BY <1>6, <2>2 DEF LinesRight
<1>9. RowsRight'
  BY <1>2 DEF SInv, RowsRight, RowRight
<1>10. RowsOfTheirSpec'
  <2>1. \A i \in DOMAIN rows : rows[i].spec \in Nat /\ rows[i].spec <= spec
    BY <1>1, <1>2, RowTypes DEF SInv, RowsOfTheirSpec
  <2> QED
    BY <1>2, <1>5, <2>1 DEF SInv, RowsOfTheirSpec
<1> QED
  BY <1>1, <1>2, <1>8, <1>9, <1>10 DEF SInv, PointInRange, Ascending

LEMMA NextSInv ==
    ASSUME SInv, [Next]_vars
    PROVE  SInv'
<1>1. CASE StartSweep
  <2>1. IInv'
    BY <1>1, StartSweepIInv DEF SInv
  <2>2. rows' = <<>> /\ summary' = <<>> /\ pc' = "spec"
    BY <1>1 DEF StartSweep
  <2> QED
    BY <2>1, <2>2 DEF SInv, RowsRight, RowsOfTheirSpec, PointInRange, Ascending, LinesRight
<1>2. CASE SkipSpec \/ FirstPoint \/ EndSweep \/ Interrupt
  BY <1>2, MoveSInv
<1>3. CASE Generate \/ GenerateNothing \/ Compile \/ CompileNothing \/ Run \/ RunStops \/ RunFails
  BY <1>3, BuildSInv
<1>4. CASE ExtractStats \/ NoStats
  BY <1>4, ExtractSInv
<1>5. CASE GenerateRefused \/ GenerateFails \/ CompileNowhere \/ CompileFails
  BY <1>5, FailedBuildSInv
<1>6. CASE Summarize
  BY <1>6, SummarizeSInv
<1>7. CASE UNCHANGED vars
  <2>1. UNCHANGED <<pc, specs, spec, x, rows, summary>>
    BY <1>7 DEF vars, scriptVars
  <2>2. Bounds' = Bounds /\ Name' = Name /\ Step(Bounds)' = Step(Bounds)
    BY <2>1 DEF Bounds, Name, Step
  <2>3. IInv' /\ (pc # "idle" => spec \in Nat)
    BY <1>7, NextIInv DEF SInv, IInv, TypeOK
  <2>4. RowsRight' /\ RowsOfTheirSpec' /\ LinesRight'
    BY <2>1, <2>3, SameTables
  <2>5. PointInRange' /\ Ascending'
    BY <2>1, <2>2 DEF SInv, PointInRange, Ascending
  <2> QED
    BY <2>3, <2>4, <2>5 DEF SInv
<1> QED
  BY <1>1, <1>2, <1>3, <1>4, <1>5, <1>6, <1>7 DEF Next, Script

LEMMA InitSInv == Init => SInv
<1>1. Init => rows = <<>> /\ summary = <<>> /\ pc = "idle"
  BY DEF Init
<1> QED
  BY <1>1, InitIInv
     DEF SInv, RowsRight, RowsOfTheirSpec, PointInRange, Ascending, LinesRight

\* A summary line says of the counts of its test in this sweep, whatever they are,
\* where the last zero is, where the first event is and where they jump,
\* whichever builds failed, unless a run of gem5 did.
THEOREM SummariesAreOfOwnCounts == Spec => []SummaryIsOfOwnCounts
<1>1. SInv => SummaryIsOfOwnCounts
  BY DEF SInv, LinesRight, LineOK, SummaryIsOfOwnCounts
<1> QED
  BY <1>1, InitSInv, NextSInv, PTL DEF Spec
=============================================================================
