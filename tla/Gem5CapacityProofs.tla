------------------------- MODULE Gem5CapacityProofs -------------------------
(***************************************************************************)
(* For every set of tests, ranges, curves, arguments and programs of other *)
(* scripts, run_gem5_asmgen_capacity.sh reads only arguments it has and    *)
(* writes one line for each, in their order; wherever a log ends, a column *)
(* names the x at which the cycles of one program rise or nothing, and the *)
(* line of a test that was not disturbed is exact.                         *)
(***************************************************************************)
EXTENDS Gem5Capacity, FiniteSetTheorems, WellFoundedInduction, TLAPS

\* What runs under gem5 is a program of this script or of another one, and has
\* only counts that the machine has been run with.
LEMMA CountsArePossible ==
    ASSUME NEW p \in Programs, p.test \in DOMAIN Ranges
    PROVE  /\ p.counts \in Seq(Nat)
           /\ \A i \in DOMAIN p.counts : p.counts[i] \in DOMAIN Curve[p.test]
           /\ \A i \in DOMAIN p.counts : Curve[p.test][p.counts[i]] \in Nat
<1>1. CASE p \in Strangers
  <2>1. p.counts \in Seq(DOMAIN Curve[p.test]) /\ DOMAIN Curve[p.test] \subseteq Nat
    BY <1>1, CountsAssumption
  <2> QED
    BY <2>1, CountsAssumption
<1>2. CASE p = Nothing
  BY <1>2 DEF Nothing
<1>3. CASE \E t \in DOMAIN Ranges : p = Program(t)
  <2>1. PICK t \in DOMAIN Ranges : p = Program(t)
    BY <1>3
  <2>2. PICK l \in Nat, h \in Nat, s \in Nat :
           /\ l = Ranges[t][1] /\ h = Ranges[t][2] /\ s = Ranges[t][3]
           /\ l <= h /\ s >= 1
    BY RangesAssumption
  <2>3. p.test = t /\ p.counts = [i \in 1..((h - l) \div s + 1) |-> l + (i - 1) * s]
    BY <2>1, <2>2 DEF Program, CountArray
  <2>4. ASSUME NEW i \in 1..((h - l) \div s + 1)
        PROVE  l + (i - 1) * s \in l..h
    <3> DEFINE d == h - l
               q == d \div s
    <3>1. d \in Nat /\ s \in Nat \ {0}
      BY <2>2
    <3>2. q \in Nat /\ q * s <= d
      BY <3>1
    <3>3. PICK k \in Nat : q = (i - 1) + k
      <4>1. q - (i - 1) \in Nat /\ q = (i - 1) + (q - (i - 1))
        BY <3>2
      <4> QED
        BY <4>1
    <3>4. q * s = (i - 1) * s + k * s /\ k * s \in Nat /\ (i - 1) * s \in Nat
      BY <3>1, <3>3
    <3> HIDE DEF q
    <3>5. (i - 1) * s <= d /\ (i - 1) * s \in Nat
      BY <3>1, <3>2, <3>4
    <3> QED
      BY <2>2, <3>5
  <2>5. (h - l) \div s + 1 \in Nat
    BY <2>2
  <2>6. l..h \subseteq DOMAIN Curve[t] /\ l..h \subseteq Nat
    BY <2>2, CountsAssumption
  <2>7. p.counts \in [1..((h - l) \div s + 1) -> Nat]
    BY <2>3, <2>4, <2>6
  <2>8. p.counts \in Seq(Nat)
    BY <2>5, <2>7
  <2>9. \A i \in DOMAIN p.counts : p.counts[i] \in DOMAIN Curve[t]
    BY <2>3, <2>4, <2>6
  <2> QED
    BY <2>3, <2>8, <2>9, CountsAssumption
<1> QED
  BY <1>1, <1>2, <1>3 DEF Programs

LEMMA OutputIsPoints ==
    ASSUME NEW p \in Programs, NEW name \in DOMAIN Ranges
    PROVE  Output(p, name) \in Seq(Points)
<1>1. CASE p.test # name
  BY <1>1 DEF Output
<1>2. CASE p.test = name
  <2> DEFINE pt(i) == [x |-> p.counts[i], cycles |-> Curve[name][p.counts[i]]]
  <2>1. p.counts \in Seq(Nat) /\ \A i \in DOMAIN p.counts : Curve[name][p.counts[i]] \in Nat
    BY <1>2, CountsArePossible
  <2>2. \A i \in DOMAIN p.counts : pt(i) \in Points
    BY <2>1 DEF Points
  <2>3. Output(p, name) = [i \in DOMAIN p.counts |-> pt(i)]
    BY <1>2 DEF Output
  <2>4. DOMAIN p.counts = 1..Len(p.counts) /\ Len(p.counts) \in Nat
    BY <2>1
  <2> HIDE DEF pt
  <2>5. Output(p, name) \in [1..Len(p.counts) -> Points]
    BY <2>2, <2>3, <2>4
  <2> QED
    BY <2>4, <2>5
<1> QED
  BY <1>1, <1>2

\* However much of its output reaches the log, it is lines of two numbers.
LEMMA CutsArePoints ==
    ASSUME NEW lines \in Seq(Points), NEW cut \in Cuts(lines)
    PROVE  cut \in Seq(Points)
<1>1. ASSUME NEW n \in 0..Len(lines) PROVE SubSeq(lines, 1, n) \in Seq(Points)
  BY <1>1
<1>2. CASE \E n \in 0..Len(lines) : cut = SubSeq(lines, 1, n)
  BY <1>1, <1>2
<1>3. ASSUME NEW n \in DOMAIN lines, NEW c \in 0..lines[n].cycles,
             cut = Append(SubSeq(lines, 1, n - 1), [lines[n] EXCEPT !.cycles = c])
      PROVE  cut \in Seq(Points)
  <2>1. lines[n] \in Points /\ n \in 1..Len(lines) /\ Len(lines) \in Nat
    OBVIOUS
  <2>2. c \in Nat
    BY <2>1 DEF Points
  <2>3. [lines[n] EXCEPT !.cycles = c] \in Points
    BY <2>1, <2>2 DEF Points
  <2>4. SubSeq(lines, 1, n - 1) \in Seq(Points)
    BY <1>1, <2>1
  <2> QED
    BY <1>3, <2>3, <2>4
<1> QED
  BY <1>2, <1>3 DEF Cuts
-----------------------------------------------------------------------------
\* TypeOK does not say that the test at hand has a range, which the log needs,
\* nor that the summary is a sequence.
IInv ==
    /\ TypeOK
    /\ summary = [i \in 1..(at - 1) |-> summary[i]]
    /\ pc \in {"compile", "run", "parse"} => at <= Len(tests) /\ Configured

LEMMA NothingIsAProgram == Nothing \in Programs /\ Strangers \subseteq Programs
BY DEF Programs

LEMMA InitIInv == Init => IInv
<1> SUFFICES ASSUME Init PROVE IInv
  OBVIOUS
<1>1. tests \in Seq(STRING) /\ Len(tests) \in Nat
  BY ArgsAssumption DEF Init
<1>2. summary = <<>> /\ at = 1 /\ 1..(at - 1) = {}
  BY DEF Init
<1> QED
  BY <1>1, <1>2, NothingIsAProgram DEF Init, IInv, TypeOK

\* A line is written: the script goes on to the next argument.
LEMMA NextTestIInv ==
    ASSUME IInv, NEW line, NextTest(line), at <= Len(tests), line.test = Test,
           generated' \in Programs, binary' \in Programs,
           failures' \in Nat, others' \in Nat
    PROVE  IInv'
<1>1. /\ tests \in Seq(STRING) /\ Len(tests) \in Nat /\ at \in 1..Len(tests)
  BY ArgsAssumption DEF IInv, TypeOK
<1>2. /\ pc' = "test" /\ at' = at + 1 /\ UNCHANGED <<tests, log, status>>
      /\ summary' = Append(summary, line)
  BY DEF NextTest
<1> DEFINE S == {summary[i] : i \in 1..(at - 1)} \cup {line}
<1>3. summary \in Seq(S) /\ Len(summary) = at - 1
  <2>1. summary \in [1..(at - 1) -> S] /\ at - 1 \in Nat
    BY <1>1 DEF IInv
  <2> HIDE DEF S
  <2> QED
    BY <2>1
<1>4. line \in S
  OBVIOUS
<1> HIDE DEF S
<1>5. /\ summary' \in Seq(S) /\ Len(summary') = at
      /\ \A i \in 1..at : summary'[i] = IF i = at THEN line ELSE summary[i]
  BY <1>1, <1>2, <1>3, <1>4
<1>6. /\ DOMAIN summary' = 1..(at' - 1)
      /\ \A i \in DOMAIN summary' : summary'[i].test = tests'[i]
      /\ summary' = [i \in 1..(at' - 1) |-> summary'[i]]
  <2>1. at' - 1 = at /\ DOMAIN summary' = 1..at
    BY <1>1, <1>2, <1>5
  <2>2. summary' = [i \in 1..at |-> summary'[i]]
    <3>1. summary' = [i \in DOMAIN summary' |-> summary'[i]]
      BY <1>5
    <3> QED
      BY <2>1, <3>1, Zenon
  <2>3. ASSUME NEW i \in 1..at
        PROVE  summary'[i].test = tests[i]
    <3>1. CASE i = at
      BY <1>5, <3>1 DEF Test
    <3>2. CASE i # at
      <4>1. i \in 1..(at - 1) /\ summary'[i] = summary[i]
        BY <1>1, <1>5, <3>2
      <4> QED
        BY <4>1 DEF IInv, TypeOK
    <3> QED
      BY <3>1, <3>2
  <2> QED
    BY <1>2, <2>1, <2>2, <2>3
<1>7. tests' \in Args /\ at' \in 1..(Len(tests') + 1)
  BY <1>1, <1>2 DEF IInv, TypeOK
<1>8. log' \in Seq(Points) /\ status' \in {"ok", "failed"}
  BY <1>2 DEF IInv, TypeOK
<1>9. TypeOK'
  BY <1>2, <1>6, <1>7, <1>8 DEF TypeOK, Programs
<1> QED
  BY <1>2, <1>6, <1>9 DEF IInv

LEMMA LineTest == \A s, points : Line(s, points).test = Test
BY DEF Line

\* Steps within a test: the arguments and the summary stay.
LEMMA SameTestIInv ==
    ASSUME IInv, UNCHANGED <<tests, at, summary>>,
           pc' \in {"test", "compile", "run", "parse", "done"},
           pc' \in {"compile", "run", "parse"} => at <= Len(tests) /\ Configured,
           generated' \in Programs, binary' \in Programs,
           log' \in Seq(Points), status' \in {"ok", "failed"},
           failures' \in Nat, others' \in Nat
    PROVE  IInv'
BY DEF IInv, TypeOK, Programs, Configured, Test, Points

LEMMA NextIInv ==
    ASSUME IInv, [Next]_vars
    PROVE  IInv'
<1> USE NothingIsAProgram
<1>1. CASE MissingRange
  BY <1>1, NextTestIInv, LineTest DEF MissingRange, budget, IInv, TypeOK
<1>2. CASE Generate
  <2>1. Test \in DOMAIN Ranges /\ Program(Test) \in Programs
    BY <1>2 DEF Generate, Configured, Programs
  <2> QED
    BY <1>2, <2>1, SameTestIInv DEF Generate, budget, IInv, TypeOK
<1>3. CASE GenerateFails
  BY <1>3, NextTestIInv, LineTest DEF GenerateFails, IInv, TypeOK
<1>4. CASE Compile
  BY <1>4, SameTestIInv DEF Compile, budget, history, IInv, TypeOK
<1>5. CASE CompileFails
  BY <1>5, NextTestIInv, LineTest DEF CompileFails, IInv, TypeOK
<1>6. CASE Run
  <2>1. log' \in Seq(Points)
    BY <1>6, OutputIsPoints DEF Run, IInv, TypeOK, Configured
  <2> QED
    BY <1>6, <2>1, SameTestIInv DEF Run, budget, IInv, TypeOK
<1>7. CASE RunFails \/ RunStops
  <2>1. log' \in Seq(Points)
    BY <1>7, OutputIsPoints, CutsArePoints DEF RunFails, RunStops, IInv, TypeOK, Configured
  <2> QED
    BY <1>7, <2>1, SameTestIInv DEF RunFails, RunStops, history, IInv, TypeOK
<1>8. CASE Summarize
  BY <1>8, NextTestIInv, LineTest DEF Summarize, budget, IInv, TypeOK
<1>9. CASE End
  BY <1>9, SameTestIInv DEF End, budget, history, IInv, TypeOK
<1>10. CASE OtherBuild
  <2>1. generated' \in Programs /\ binary' \in Programs
    BY <1>10 DEF OtherBuild, IInv, TypeOK
  <2> QED
    BY <1>10, <2>1, SameTestIInv DEF OtherBuild, IInv, TypeOK
<1>11. CASE UNCHANGED vars
  BY <1>11, SameTestIInv DEF vars, budget, history, IInv, TypeOK
<1> QED
  BY <1>1, <1>2, <1>3, <1>4, <1>5, <1>6, <1>7, <1>8, <1>9, <1>10, <1>11
     DEF Next, Script

\* summary.tsv has one line for each argument before the one the script is at,
\* about that argument and in their order, whatever failed and whatever other
\* scripts built; and no step of the script is without what it reads.
THEOREM CapacityTypeCorrect == Spec => []TypeOK
<1>1. IInv => TypeOK
  BY DEF IInv
<1> QED
  BY <1>1, InitIInv, NextIInv, PTL DEF Spec
-----------------------------------------------------------------------------
\* Every set of natural numbers has a least element.
LEMMA LeastOf ==
    ASSUME NEW T, T \subseteq Nat, T # {}
    PROVE  \E x \in T : \A y \in T : x <= y
<1> DEFINE R == StrictSubsetOrdering(Nat)
           I == {0..x : x \in T}
<1>1. IsWellFoundedOn(R, FiniteSubsetsOf(Nat))
  BY FS_StrictSubsetOrderingWellFounded
<1>2. I \subseteq FiniteSubsetsOf(Nat) /\ I # {}
  <2>1. ASSUME NEW x \in T PROVE 0..x \subseteq Nat /\ IsFiniteSet(0..x)
    BY FS_Interval
  <2> QED
    BY <2>1 DEF FiniteSubsetsOf
<1> HIDE DEF R
<1>3. PICK s \in I : \A t \in I : <<t, s>> \notin R
  <2> HIDE DEF I
  <2> QED
    BY <1>1, <1>2, WFMin
<1>4. PICK x \in T : s = 0..x
  BY <1>3
<1>5. ASSUME NEW y \in T, ~ (x <= y) PROVE FALSE
  <2>1. 0..y \subseteq 0..x /\ x \in 0..x /\ x \notin 0..y
    BY <1>5
  <2>2. <<0..y, s>> \in R
    BY <1>4, <2>1 DEF R, StrictSubsetOrdering
  <2> QED
    BY <1>3, <2>2
<1> QED
  BY <1>5

LEMMA MinIsLeast ==
    ASSUME NEW T, T \subseteq Nat, T # {}
    PROVE  Min(T) \in T /\ \A y \in T : Min(T) <= y
<1>1. \E x \in T : \A y \in T : x <= y
  BY LeastOf
<1> QED
  BY <1>1 DEF Min

\* The sums are defined by recursion: the function exists for every length.
LEMMA SumsAreSums ==
    ASSUME NEW points \in Seq(Points)
    PROVE  /\ PartialSums(points)[0] = 0
           /\ \A k \in 1..Len(points) :
                 PartialSums(points)[k] = PartialSums(points)[k - 1] + points[k].cycles
<1> DEFINE Sums(g, l) == g = [k \in 0..l |-> IF k = 0 THEN 0 ELSE g[k - 1] + points[k].cycles]
           bad == {l \in 0..Len(points) : ~ \E g : Sums(g, l)}
<1>0. Len(points) \in Nat
  OBVIOUS
<1>1. bad = {}
  <2> SUFFICES ASSUME bad # {}
               PROVE  FALSE
    OBVIOUS
  <2>1. PICK l \in bad : \A k \in bad : l <= k
    <3>1. bad \subseteq Nat
      BY <1>0
    <3> HIDE DEF bad
    <3> QED
      BY <3>1, LeastOf
  <2>2. CASE l = 0
    <3>1. Sums([k \in 0..0 |-> 0], 0)
      <4>1. \A k \in 0..0 : k = 0
        OBVIOUS
      <4> QED
        BY <4>1
    <3> HIDE DEF Sums
    <3> QED
      BY <2>1, <2>2, <3>1
  <2>3. CASE l # 0
    <3>1. l \in Nat /\ l - 1 \in 0..Len(points) /\ ~(l <= l - 1)
      BY <1>0, <2>1, <2>3
    <3>2. l - 1 \notin bad
      BY <2>1, <3>1
    <3>3. PICK g : Sums(g, l - 1)
      BY <3>1, <3>2
    <3> DEFINE h == [k \in 0..l |-> IF k = l THEN g[l - 1] + points[l].cycles ELSE g[k]]
    <3>4. ASSUME NEW k \in 0..l
          PROVE  h[k] = IF k = 0 THEN 0 ELSE h[k - 1] + points[k].cycles
      <4>1. CASE k = l
        <5>1. k - 1 \in 0..l /\ k - 1 # l
          BY <2>3, <3>1, <4>1
        <5> QED
          BY <2>3, <4>1, <5>1
      <4>2. CASE k # l
        <5>1. k \in 0..(l - 1) /\ h[k] = g[k]
          BY <3>1, <4>2
        <5>2. g[k] = IF k = 0 THEN 0 ELSE g[k - 1] + points[k].cycles
          BY <3>3, <5>1
        <5>3. k # 0 => h[k - 1] = g[k - 1]
          BY <3>1, <5>1
        <5> HIDE DEF h
        <5> QED
          BY <5>1, <5>2, <5>3
      <4> QED
        BY <4>1, <4>2
    <3>5. Sums(h, l)
      <4>1. h = [k \in 0..l |-> h[k]]
        OBVIOUS
      <4> HIDE DEF h
      <4> QED
        BY <3>4, <4>1
    <3> HIDE DEF Sums, h
    <3> QED
      BY <2>1, <3>5
  <2> QED
    BY <2>2, <2>3
<1>2. \E g : Sums(g, Len(points))
  BY <1>0, <1>1
<1>3. PartialSums(points) = CHOOSE g : Sums(g, Len(points))
  BY DEF PartialSums
<1>4. Sums(PartialSums(points), Len(points))
  <2> HIDE DEF Sums
  <2> QED
    BY <1>2, <1>3
<1> DEFINE s == PartialSums(points)
<1>5. s = [k \in 0..Len(points) |-> IF k = 0 THEN 0 ELSE s[k - 1] + points[k].cycles]
  BY <1>4
<1> HIDE DEF s
<1>6. s[0] = 0 /\ \A k \in 1..Len(points) : s[k] = s[k - 1] + points[k].cycles
  BY <1>0, <1>5
<1> QED
  BY <1>6 DEF s

LEMMA PointTypes ==
    ASSUME NEW points \in Seq(Points)
    PROVE  /\ Len(points) \in Nat /\ DOMAIN points = 1..Len(points)
           /\ \A i \in 1..Len(points) : points[i].x \in Nat /\ points[i].cycles \in Nat
<1>1. Len(points) \in Nat /\ DOMAIN points = 1..Len(points)
      /\ \A i \in 1..Len(points) : points[i] \in Points
  OBVIOUS
<1>2. \A p \in Points : p.x \in Nat /\ p.cycles \in Nat
  BY DEF Points
<1> QED
  BY <1>1, <1>2

\* Logs that agree in their first lines have the same sum there.
LEMMA SameSums ==
    ASSUME NEW points \in Seq(Points), NEW other \in Seq(Points),
           NEW m \in 0..Len(points), m <= Len(other),
           \A i \in 1..m : points[i].cycles = other[i].cycles
    PROVE  /\ PartialSums(points)[m] \in Nat
           /\ PartialSums(points)[m] = PartialSums(other)[m]
<1> DEFINE s == PartialSums(points)
           o == PartialSums(other)
           bad == {k \in 0..m : ~(s[k] \in Nat /\ s[k] = o[k])}
<1>1. /\ m \in Nat /\ Len(points) \in Nat /\ Len(other) \in Nat
      /\ \A i \in 1..m : points[i].cycles \in Nat
  <2>1. Len(points) \in Nat /\ Len(other) \in Nat
    OBVIOUS
  <2> QED
    BY <2>1, PointTypes
<1>2. /\ s[0] = 0 /\ \A k \in 1..m : s[k] = s[k - 1] + points[k].cycles
      /\ o[0] = 0 /\ \A k \in 1..m : o[k] = o[k - 1] + other[k].cycles
  BY <1>1, SumsAreSums
<1> HIDE DEF s, o
<1>3. bad = {}
  <2> SUFFICES ASSUME bad # {}
               PROVE  FALSE
    OBVIOUS
  <2>1. PICK k \in bad : \A j \in bad : k <= j
    <3>1. bad \subseteq Nat
      BY <1>1
    <3> HIDE DEF bad
    <3> QED
      BY <3>1, LeastOf
  <2>2. k # 0
    BY <1>2, <2>1
  <2>3. k \in 1..m /\ k - 1 \in 0..m /\ ~(k <= k - 1)
    BY <1>1, <2>1, <2>2
  <2>4. s[k - 1] \in Nat /\ s[k - 1] = o[k - 1]
    BY <2>1, <2>3
  <2>5. s[k] = o[k]
    BY <1>2, <2>3, <2>4
  <2>6. s[k] \in Nat
    <3>1. points[k].cycles \in Nat /\ s[k] = s[k - 1] + points[k].cycles
      BY <1>1, <1>2, <2>3
    <3> QED
      BY <2>4, <3>1
  <2> QED
    BY <2>1, <2>5, <2>6
<1> QED
  BY <1>1, <1>3 DEF s, o

LEMMA BaseLenIs ==
    ASSUME NEW points \in Seq(Points), points # <<>>
    PROVE  /\ BaseLen(points) \in 1..Len(points) /\ BaseLen(points) <= BaseN
           /\ BaseLen(points) \in {BaseN, Len(points)}
           /\ Len(points) \in Nat \ {0}
<1>1. Len(points) \in Nat \ {0} /\ BaseN \in Nat \ {0}
  BY BaseNAssumption
<1> DEFINE T == {BaseN, Len(points)}
<1>2. Min(T) \in T /\ \A y \in T : Min(T) <= y
  <2>1. T \subseteq Nat /\ T # {}
    BY <1>1
  <2> HIDE DEF T
  <2> QED
    BY <2>1, MinIsLeast
<1> QED
  BY <1>1, <1>2 DEF BaseLen

\* What can reach the log of a program: some of its lines, all but the last whole.
CutOf(points, p) ==
    /\ p \in Programs /\ points \in Seq(Points) /\ Len(points) <= Len(p.counts)
    /\ \A i \in 1..Len(points) :
          /\ points[i].x = p.counts[i]
          /\ points[i].cycles <= Curve[p.test][p.counts[i]]
          /\ i < Len(points) => points[i].cycles = Curve[p.test][p.counts[i]]

\* All of it.
WholeOf(points, p) ==
    /\ p \in Programs /\ points \in Seq(Points) /\ Len(points) = Len(p.counts)
    /\ \A i \in 1..Len(points) :
          points[i].x = p.counts[i] /\ points[i].cycles = Curve[p.test][p.counts[i]]

LogOK(points, t) ==
    /\ points \in Seq(Points)
    /\ points # <<>> => \E p \in Programs : p.test = t /\ CutOf(points, p)

\* There is a first one among the points with the most cycles.
LEMMA TopIsFirst ==
    ASSUME NEW points \in Seq(Points), points # <<>>
    PROVE  \E i \in 1..Len(points) :
              /\ Top(points) = points[i]
              /\ \A j \in 1..Len(points) : /\ points[j].cycles <= points[i].cycles
                                           /\ j < i => points[j].cycles < points[i].cycles
<1> DEFINE c(i) == points[i].cycles
           Tops(k, i) == /\ i \in 1..k
                         /\ \A j \in 1..k : c(j) <= c(i) /\ (j < i => c(j) < c(i))
           bad == {k \in 1..Len(points) : ~ \E i : Tops(k, i)}
<1>1. /\ Len(points) \in Nat \ {0} /\ DOMAIN points = 1..Len(points)
      /\ \A i \in 1..Len(points) : c(i) \in Nat
  BY PointTypes
<1> HIDE DEF c
<1>2. bad = {}
  <2> SUFFICES ASSUME bad # {}
               PROVE  FALSE
    OBVIOUS
  <2>1. PICK k \in bad : \A j \in bad : k <= j
    <3>1. bad \subseteq Nat
      BY <1>1
    <3> HIDE DEF bad
    <3> QED
      BY <3>1, LeastOf
  <2>2. k \in 1..Len(points) /\ ~ \E i : Tops(k, i)
    OBVIOUS
  <2>3. k # 1
    <3>1. Tops(1, 1)
      <4>1. c(1) \in Nat /\ \A j \in 1..1 : j = 1
        BY <1>1
      <4> QED
        BY <4>1
    <3> HIDE DEF Tops
    <3> QED
      BY <2>2, <3>1
  <2>4. k - 1 \in 1..Len(points) /\ ~(k <= k - 1)
    BY <1>1, <2>2, <2>3
  <2>5. PICK i : Tops(k - 1, i)
    BY <2>1, <2>4
  <2>6. CASE c(k) > c(i)
    <3>1. Tops(k, k)
      <4>1. ASSUME NEW j \in 1..k
            PROVE  c(j) <= c(k) /\ (j < k => c(j) < c(k))
        <5>1. CASE j = k
          BY <1>1, <2>2, <5>1
        <5>2. CASE j # k
          <6>1. j \in 1..(k - 1) /\ i \in 1..Len(points) /\ j \in 1..Len(points)
            BY <1>1, <2>2, <2>5, <5>2
          <6>2. c(j) <= c(i) /\ c(j) \in Nat /\ c(i) \in Nat /\ c(k) \in Nat
            BY <1>1, <2>2, <2>5, <6>1
          <6> QED
            BY <2>6, <6>2
        <5> QED
          BY <5>1, <5>2
      <4> QED
        BY <1>1, <2>2, <4>1
    <3> HIDE DEF Tops
    <3> QED
      BY <2>2, <3>1
  <2>7. CASE ~(c(k) > c(i))
    <3>1. i \in 1..(k - 1) /\ i \in 1..Len(points) /\ i \in 1..k
      BY <1>1, <2>2, <2>5
    <3>2. c(k) <= c(i) /\ ~(k < i)
      BY <1>1, <2>2, <2>7, <3>1
    <3>3. Tops(k, i)
      <4>1. ASSUME NEW j \in 1..k
            PROVE  c(j) <= c(i) /\ (j < i => c(j) < c(i))
        <5>1. CASE j = k
          BY <3>2, <5>1
        <5>2. CASE j # k
          <6>1. j \in 1..(k - 1)
            BY <1>1, <2>2, <5>2
          <6> QED
            BY <2>5, <6>1
        <5> QED
          BY <5>1, <5>2
      <4> QED
        BY <3>1, <4>1
    <3> HIDE DEF Tops
    <3> QED
      BY <2>2, <3>3
  <2> QED
    BY <2>6, <2>7
<1>3. \E i : Tops(Len(points), i)
  BY <1>1, <1>2
<1> DEFINE m == CHOOSE i \in DOMAIN points : \A j \in DOMAIN points :
                    points[j].cycles <= points[i].cycles
                    /\ (j < i => points[j].cycles < points[i].cycles)
<1>4. Top(points) = points[m]
  BY DEF Top
<1>5. \E i \in DOMAIN points : \A j \in DOMAIN points :
          points[j].cycles <= points[i].cycles
          /\ (j < i => points[j].cycles < points[i].cycles)
  BY <1>1, <1>3 DEF c
<1>6. m \in DOMAIN points /\ \A j \in DOMAIN points :
          points[j].cycles <= points[m].cycles
          /\ (j < m => points[j].cycles < points[m].cycles)
  BY <1>5
<1> HIDE DEF m
<1> QED
  BY <1>1, <1>4, <1>6

\* The log of a program, whole or cut.
LEMMA OutputIs ==
    ASSUME NEW p \in Programs, NEW name \in DOMAIN Ranges, p.test = name
    PROVE  /\ Len(Output(p, name)) = Len(p.counts) /\ DOMAIN p.counts = 1..Len(p.counts)
           /\ \A i \in 1..Len(p.counts) :
                 /\ Output(p, name)[i].x = p.counts[i]
                 /\ Output(p, name)[i].cycles = Curve[name][p.counts[i]]
                 /\ p.counts[i] \in DOMAIN Curve[name]
                 /\ Curve[name][p.counts[i]] \in Nat
<1> DEFINE pt(i) == [x |-> p.counts[i], cycles |-> Curve[name][p.counts[i]]]
<1>1. /\ p.counts \in Seq(Nat) /\ DOMAIN p.counts = 1..Len(p.counts) /\ Len(p.counts) \in Nat
      /\ \A i \in DOMAIN p.counts : p.counts[i] \in DOMAIN Curve[name]
                                    /\ Curve[name][p.counts[i]] \in Nat
  BY CountsArePossible
<1>2. Output(p, name) = [i \in 1..Len(p.counts) |-> pt(i)]
  BY <1>1 DEF Output
<1>3. Output(p, name) \in Seq(Points)
  BY OutputIsPoints
<1>4. \A i : pt(i).x = p.counts[i] /\ pt(i).cycles = Curve[name][p.counts[i]]
  OBVIOUS
<1> HIDE DEF pt
<1>5. Len(Output(p, name)) = Len(p.counts)
  BY <1>1, <1>2
<1> QED
  BY <1>1, <1>2, <1>4, <1>5

LEMMA WholeIsACut ==
    ASSUME NEW p, NEW points, WholeOf(points, p), p.test \in DOMAIN Ranges
    PROVE  CutOf(points, p)
<1>1. p \in Programs /\ points \in Seq(Points) /\ Len(points) = Len(p.counts) /\ Len(points) \in Nat
  BY DEF WholeOf
<1>2. \A i \in 1..Len(points) :
         /\ points[i].x = p.counts[i]
         /\ points[i].cycles = Curve[p.test][p.counts[i]]
         /\ points[i].cycles \in Nat
  BY <1>1, PointTypes DEF WholeOf
<1>3. \A i \in 1..Len(points) : points[i].cycles <= Curve[p.test][p.counts[i]]
  BY <1>2
<1> QED
  BY <1>1, <1>2, <1>3 DEF CutOf

LEMMA OutputIsOK ==
    ASSUME NEW p \in Programs, NEW name \in DOMAIN Ranges
    PROVE  /\ LogOK(Output(p, name), name)
           /\ p.test = name => WholeOf(Output(p, name), p)
<1>1. CASE p.test # name
  BY <1>1 DEF Output, LogOK
<1>2. CASE p.test = name
  <2>1. WholeOf(Output(p, name), p)
    BY <1>2, OutputIs, OutputIsPoints DEF WholeOf
  <2>2. CutOf(Output(p, name), p)
    BY <1>2, <2>1, WholeIsACut
  <2>3. Output(p, name) \in Seq(Points)
    BY OutputIsPoints
  <2> QED
    BY <1>2, <2>1, <2>2, <2>3 DEF LogOK
<1> QED
  BY <1>1, <1>2

LEMMA CutIsOK ==
    ASSUME NEW p \in Programs, p.test \in DOMAIN Ranges, NEW lines, WholeOf(lines, p),
           NEW cut \in Cuts(lines)
    PROVE  CutOf(cut, p)
<1>1. /\ lines \in Seq(Points) /\ Len(lines) \in Nat /\ DOMAIN lines = 1..Len(lines)
      /\ Len(lines) = Len(p.counts)
      /\ \A i \in 1..Len(lines) : /\ lines[i] \in Points /\ lines[i].cycles \in Nat
                                 /\ lines[i].x = p.counts[i]
                                 /\ lines[i].cycles = Curve[p.test][p.counts[i]]
  BY PointTypes DEF WholeOf
<1>2. cut \in Seq(Points)
  BY <1>1, CutsArePoints
<1>3. CASE \E n \in 0..Len(lines) : cut = SubSeq(lines, 1, n)
  <2>1. PICK n \in 0..Len(lines) : cut = SubSeq(lines, 1, n)
    BY <1>3
  <2>2. Len(cut) = n /\ n \in 0..Len(lines) /\ \A i \in 1..n : cut[i] = lines[i]
    BY <1>1, <2>1
  <2>3. \A i \in 1..n : /\ cut[i].x = p.counts[i] /\ cut[i].cycles \in Nat
                        /\ cut[i].cycles = Curve[p.test][p.counts[i]]
    BY <1>1, <2>2
  <2>4. \A i \in 1..n : cut[i].cycles <= Curve[p.test][p.counts[i]]
    BY <2>3
  <2> QED
    BY <1>1, <1>2, <2>2, <2>3, <2>4 DEF CutOf
<1>4. ASSUME NEW n \in DOMAIN lines, NEW c \in 0..lines[n].cycles,
             cut = Append(SubSeq(lines, 1, n - 1), [lines[n] EXCEPT !.cycles = c])
      PROVE  CutOf(cut, p)
  <2> DEFINE last == [lines[n] EXCEPT !.cycles = c]
             front == SubSeq(lines, 1, n - 1)
  <2>1. last.x = lines[n].x /\ last.cycles = c
    <3>1. lines[n] \in Points
      BY <1>1
    <3> QED
      BY <3>1 DEF Points
  <2>2. n \in 1..Len(lines) /\ c \in Nat /\ c <= lines[n].cycles
    BY <1>1
  <2>3. front \in Seq(Points) /\ Len(front) = n - 1 /\ \A i \in 1..(n - 1) : front[i] = lines[i]
    BY <1>1, <2>2
  <2> HIDE DEF last, front
  <2>4. cut = Append(front, last)
    BY <1>4 DEF last, front
  <2>5. Len(cut) = n /\ cut[n] = last /\ \A i \in 1..(n - 1) : cut[i] = lines[i]
    BY <2>2, <2>3, <2>4
  <2>6. \A i \in 1..n : i = n \/ (i \in 1..(n - 1) /\ i \in 1..Len(lines))
    BY <1>1, <2>2
  <2>7. ASSUME NEW i \in 1..n
        PROVE  /\ cut[i].x = p.counts[i] /\ cut[i].cycles <= Curve[p.test][p.counts[i]]
               /\ i < n => cut[i].cycles = Curve[p.test][p.counts[i]]
    <3>1. CASE i = n
      BY <1>1, <2>1, <2>2, <2>5, <3>1
    <3>2. CASE i # n
      <4>1. cut[i] = lines[i] /\ i \in 1..Len(lines)
        BY <2>5, <2>6, <3>2
      <4>2. /\ cut[i].x = p.counts[i] /\ cut[i].cycles \in Nat
            /\ cut[i].cycles = Curve[p.test][p.counts[i]]
        BY <1>1, <4>1
      <4> QED
        BY <4>2
    <3> QED
      BY <3>1, <3>2
  <2> QED
    BY <1>1, <1>2, <2>2, <2>5, <2>7 DEF CutOf
<1> QED
  BY <1>3, <1>4 DEF Cuts

\* What reaches the log of any program is right for any test.
LEMMA CutsAreLogs ==
    ASSUME NEW p \in Programs, NEW name \in DOMAIN Ranges, NEW cut \in Cuts(Output(p, name))
    PROVE  LogOK(cut, name)
<1>1. cut \in Seq(Points)
  BY OutputIsPoints, CutsArePoints
<1>2. CASE p.test = name
  <2>1. CutOf(cut, p)
    BY <1>2, OutputIsOK, CutIsOK
  <2> QED
    BY <1>1, <1>2, <2>1 DEF LogOK
<1>3. CASE p.test # name
  <2>1. Output(p, name) = <<>>
    BY <1>3 DEF Output
  <2>2. Cuts(<<>>) = {<<>>}
    <3> DEFINE WholeLines == {SubSeq(<<>>, 1, n) : n \in 0..Len(<<>>)}
               Broken(n) == {Append(SubSeq(<<>>, 1, n - 1), [<<>>[n] EXCEPT !.cycles = c]) :
                                 c \in 0..<<>>[n].cycles}
               BrokenLines == UNION {Broken(n) : n \in DOMAIN <<>>}
    <3>1. Cuts(<<>>) = WholeLines \cup BrokenLines
      BY DEF Cuts
    <3>2. WholeLines = {<<>>}
      <4>1. SubSeq(<<>>, 1, 0) = <<>>
        OBVIOUS
      <4>2. 0..Len(<<>>) = {0}
        OBVIOUS
      <4>3. WholeLines = {SubSeq(<<>>, 1, n) : n \in {0}}
        BY <4>2, Zenon
      <4>4. {SubSeq(<<>>, 1, n) : n \in {0}} = {SubSeq(<<>>, 1, 0)}
        BY Zenon
      <4> QED
        BY <4>1, <4>3, <4>4, Zenon
    <3>3. BrokenLines = {}
      <4>1. DOMAIN <<>> = {}
        OBVIOUS
      <4> HIDE DEF Broken
      <4> QED
        BY <4>1, Zenon
    <3> HIDE DEF WholeLines, BrokenLines
    <3> QED
      BY <3>1, <3>2, <3>3
  <2> QED
    BY <1>1, <2>1, <2>2 DEF LogOK
<1> QED
  BY <1>2, <1>3

-----------------------------------------------------------------------------
\* A line that was cut reaches no threshold that the whole one does not reach.
LEMMA LessIsNotMore ==
    ASSUME NEW a \in Nat, NEW c \in Nat, a <= c, NEW b \in Nat, NEW bound \in Nat,
           2 * a * b >= bound
    PROVE  2 * c * b >= bound
<1>1. PICK d \in Nat : c = a + d
  <2>1. c - a \in Nat /\ c = a + (c - a)
    OBVIOUS
  <2> QED
    BY <2>1
<1>2. 2 * c * b = 2 * a * b + 2 * d * b
  BY <1>1
<1>3. 2 * d * b \in Nat /\ 2 * a * b \in Nat
  BY <1>1
<1> QED
  BY <1>2, <1>3

\* What a column says of a log, cut or whole.
LEMMA FirstIsTheRise ==
    ASSUME NEW p, p.test \in DOMAIN Ranges, NEW points, CutOf(points, p), points # <<>>,
           NEW halves \in {3, 4}
    PROVE  /\ First(points, halves) \in {NA, RiseOf(p, halves)}
           /\ WholeOf(points, p) => First(points, halves) = RiseOf(p, halves)
<1> DEFINE full == Output(p, p.test)
           n == Len(points)
           m == Len(p.counts)
           b == BaseLen(points)
           high == {i \in (b + 1)..n : AtLeast(points[i], points, halves)}
           rises == {k \in (BaseN + 1)..m : Rises(p, k, halves)}
           curve(i) == Curve[p.test][p.counts[i]]
<1>1. /\ First(points, halves) = IF high = {} THEN NA ELSE points[Min(high)].x
      /\ RiseOf(p, halves) = IF rises = {} THEN NA ELSE p.counts[Min(rises)]
  BY DEF First, RiseOf
<1>2. p \in Programs /\ points \in Seq(Points) /\ full \in Seq(Points)
      /\ n \in Nat \ {0} /\ m \in Nat /\ n <= m /\ BaseN \in Nat \ {0}
      /\ b \in 1..n /\ b <= BaseN /\ b \in {BaseN, n}
  <2>1. p \in Programs /\ points \in Seq(Points) /\ n <= m
    BY DEF CutOf
  <2>2. p.counts \in Seq(Nat) /\ full \in Seq(Points)
    BY <2>1, CountsArePossible, OutputIsPoints
  <2>3. m \in Nat
    BY <2>2
  <2> QED
    BY <2>1, <2>2, <2>3, BaseLenIs, BaseNAssumption
<1>3. /\ Len(full) = m
      /\ \A i \in 1..m : full[i].cycles = curve(i) /\ curve(i) \in Nat
  BY <1>2, OutputIs
<1>4. \A i \in 1..n : /\ points[i].x = p.counts[i] /\ points[i].cycles <= curve(i)
                      /\ i < n => points[i].cycles = curve(i)
                      /\ points[i].cycles \in Nat
  BY <1>2, PointTypes DEF CutOf
<1>5. WholeOf(points, p) => n = m /\ \A i \in 1..n : points[i].cycles = curve(i)
  BY DEF WholeOf
<1> HIDE DEF n, m, b, full, curve
<1>6. CASE b = n
  <2>1. high = {}
    BY <1>2, <1>6
  <2>2. n = m => rises = {}
    BY <1>2, <1>6
  <2> HIDE DEF high, rises
  <2> QED
    BY <1>1, <1>5, <2>1, <2>2
<1>7. CASE b # n
  <2> DEFINE sum == PartialSums(points)[b]
             bound == halves * sum
  <2>1. b = BaseN /\ b < n
    BY <1>2, <1>7
  <2>2. sum \in Nat /\ sum = PartialSums(full)[BaseN]
    <3>1. b \in 0..n /\ b <= m /\ \A i \in 1..b : points[i].cycles = full[i].cycles
      BY <1>2, <1>3, <1>4, <2>1
    <3> QED
      BY <1>2, <1>3, <2>1, <3>1, SameSums DEF n
  <2> HIDE DEF sum
  <2>3. bound \in Nat
    BY <2>2, halves = 3 \/ halves = 4
  <2>4. ASSUME NEW i \in 1..n
        PROVE  /\ AtLeast(points[i], points, halves) <=> 2 * points[i].cycles * BaseN >= bound
               /\ Rises(p, i, halves) <=> 2 * curve(i) * BaseN >= bound
    BY <2>1, <2>2 DEF AtLeast, BaseSum, Rises, b, sum, full, curve
  <2> HIDE DEF bound
  <2>5. ASSUME NEW i \in 1..n, AtLeast(points[i], points, halves)
        PROVE  Rises(p, i, halves)
    <3>1. points[i].cycles \in Nat /\ curve(i) \in Nat /\ points[i].cycles <= curve(i)
      BY <1>2, <1>3, <1>4
    <3>2. 2 * points[i].cycles * BaseN >= bound
      BY <2>4, <2>5
    <3>3. 2 * curve(i) * BaseN >= bound
      BY <1>2, <2>3, <3>1, <3>2, LessIsNotMore
    <3> QED
      BY <2>4, <3>3
  <2>6. ASSUME NEW i \in 1..n, points[i].cycles = curve(i), Rises(p, i, halves)
        PROVE  AtLeast(points[i], points, halves)
    BY <2>4, <2>6
  <2>7. high \subseteq rises
    BY <1>2, <2>1, <2>5
  <2>8. high \subseteq Nat /\ rises \subseteq Nat
    BY <1>2
  <2>9. \A k \in rises : k < n => k \in high
    <3>1. ASSUME NEW k \in rises, k < n PROVE k \in high
      <4>1. k \in (b + 1)..n /\ k \in 1..n /\ Rises(p, k, halves)
        BY <1>2, <2>1, <3>1
      <4>2. points[k].cycles = curve(k)
        BY <1>4, <3>1, <4>1
      <4>3. AtLeast(points[k], points, halves)
        BY <2>6, <4>1, <4>2
      <4> QED
        BY <4>1, <4>3
    <3> QED
      BY <3>1
  <2>10. WholeOf(points, p) => rises = high
    <3> SUFFICES ASSUME WholeOf(points, p), NEW k \in rises PROVE k \in high
      BY <2>7
    <3>1. n = m /\ k \in (b + 1)..n /\ k \in 1..n /\ Rises(p, k, halves)
      BY <1>2, <1>5, <2>1
    <3>2. AtLeast(points[k], points, halves)
      BY <1>5, <2>6, <3>1
    <3> QED
      BY <3>1, <3>2
  <2>11. high \subseteq 1..n
    BY <1>2
  <2> HIDE DEF high, rises
  <2>12. ASSUME high # {}
         PROVE  rises # {} /\ points[Min(high)].x = p.counts[Min(rises)]
    <3>1. Min(high) \in high /\ \A y \in high : Min(high) <= y
      BY <2>8, <2>12, MinIsLeast
    <3>2. rises # {} /\ Min(rises) \in rises /\ \A y \in rises : Min(rises) <= y
      <4>1. rises # {}
        BY <2>7, <2>12
      <4> QED
        BY <2>8, <4>1, MinIsLeast
    <3>3. Min(high) \in 1..n /\ Min(high) \in rises /\ Min(rises) \in Nat /\ Min(high) \in Nat
      BY <2>7, <2>8, <2>11, <3>1, <3>2
    <3>4. Min(rises) <= Min(high)
      BY <3>2, <3>3
    <3>5. Min(rises) = Min(high)
      <4>1. CASE Min(rises) < Min(high)
        <5>1. Min(rises) < n
          BY <1>2, <3>3, <4>1
        <5>2. Min(rises) \in high
          BY <2>9, <3>2, <5>1
        <5>3. Min(high) <= Min(rises)
          BY <3>1, <5>2
        <5> QED
          BY <3>3, <4>1, <5>3
      <4>2. CASE ~(Min(rises) < Min(high))
        BY <3>3, <3>4, <4>2
      <4> QED
        BY <4>1, <4>2
    <3> QED
      BY <1>4, <3>2, <3>3, <3>5
  <2> QED
    BY <1>1, <2>10, <2>12
<1> QED
  BY <1>6, <1>7

\* The counts of a test's own program ascend.
LEMMA CountsAscend ==
    ASSUME NEW t \in DOMAIN Ranges
    PROVE  /\ Program(t) \in Programs /\ Program(t).test = t
           /\ Len(Program(t).counts) \in Nat \ {0}
           /\ DOMAIN Program(t).counts = 1..Len(Program(t).counts)
           /\ \A i, j \in 1..Len(Program(t).counts) :
                 i < j => Program(t).counts[i] < Program(t).counts[j]
           /\ \A i \in 1..Len(Program(t).counts) : Program(t).counts[i] \in Nat
<1> DEFINE c == Program(t).counts
<1>1. PICK l \in Nat, h \in Nat, s \in Nat :
         /\ l = Ranges[t][1] /\ h = Ranges[t][2] /\ s = Ranges[t][3]
         /\ l <= h /\ s >= 1
  BY RangesAssumption
<1>2. Program(t) \in Programs /\ Program(t).test = t
  BY DEF Programs, Program
<1>3. c \in Seq(Nat)
  BY <1>2, CountsArePossible
<1>4. c = [i \in 1..((h - l) \div s + 1) |-> l + (i - 1) * s]
  BY <1>1 DEF Program, CountArray
<1> DEFINE n == (h - l) \div s + 1
<1>5. n \in Nat \ {0}
  BY <1>1
<1>6. ASSUME NEW i \in 1..n, NEW j \in 1..n, i < j
      PROVE  l + (i - 1) * s < l + (j - 1) * s
  <2>1. PICK k \in Nat : j - 1 = (i - 1) + k + 1
    <3>1. j - i - 1 \in Nat /\ j - 1 = (i - 1) + (j - i - 1) + 1
      BY <1>5, <1>6
    <3> QED
      BY <3>1
  <2>2. (j - 1) * s = (i - 1) * s + k * s + s /\ k * s \in Nat /\ (i - 1) * s \in Nat
    BY <1>1, <2>1
  <2> QED
    BY <1>1, <2>2
<1> HIDE DEF n
<1>7. \A i, j \in 1..n : i < j => c[i] < c[j]
  <2>1. \A i \in 1..n : c[i] = l + (i - 1) * s
    BY <1>4 DEF n
  <2> HIDE DEF c
  <2> QED
    BY <1>6, <2>1
<1>8. DOMAIN c = 1..n
  BY <1>4 DEF n
<1> HIDE DEF c
<1>9. Len(c) = n /\ \A i \in 1..n : c[i] \in Nat
  BY <1>3, <1>5, <1>8
<1> QED
  BY <1>2, <1>5, <1>7, <1>8, <1>9 DEF c

\* The log of a test's own program that ran to its end.
LEMMA OwnOutput ==
    ASSUME NEW t \in DOMAIN Ranges
    PROVE  /\ Output(Program(t), t) \in Seq(Points) /\ Output(Program(t), t) # <<>>
           /\ WholeOf(Output(Program(t), t), Program(t))
           /\ Len(Output(Program(t), t)) = Len(Program(t).counts)
           /\ \A i \in 1..Len(Program(t).counts) :
                 /\ Output(Program(t), t)[i].x = Program(t).counts[i]
                 /\ Output(Program(t), t)[i].cycles = Curve[t][Program(t).counts[i]]
<1>1. Program(t) \in Programs /\ Program(t).test = t /\ Len(Program(t).counts) # 0
  BY CountsAscend
<1>2. Output(Program(t), t) \in Seq(Points) /\ WholeOf(Output(Program(t), t), Program(t))
  BY <1>1, OutputIsPoints, OutputIsOK
<1>3. Len(Output(Program(t), t)) = Len(Program(t).counts)
  BY <1>1, OutputIs
<1>4. Output(Program(t), t) # <<>>
  BY <1>1, <1>3
<1> QED
  BY <1>1, <1>2, <1>3, <1>4, OutputIs

-----------------------------------------------------------------------------
\* What the two properties say of one line of summary.tsv.
RowIsRises(line) ==
    line.n > 0 => \E p \in Programs :
        /\ p.test = line.test /\ line.n <= Len(p.counts)
        /\ line.first15 \in {NA, RiseOf(p, 3)}
        /\ line.first20 \in {NA, RiseOf(p, 4)}
        /\ line.max.x \in ToSet(p.counts)
        /\ line.max.cycles <= Curve[line.test][line.max.x]

RowExact(line) ==
    line.status = "ok" /\ line.whole /\ ~line.disturbed =>
        /\ line.n = Len(Program(line.test).counts)
        /\ \A x \in ToSet(Program(line.test).counts) :
                \/ Curve[line.test][x] < line.max.cycles
                \/ Curve[line.test][x] = line.max.cycles /\ x >= line.max.x
        /\ line.first15 = RiseOf(Program(line.test), 3)
        /\ line.first20 = RiseOf(Program(line.test), 4)

RowOK(line) == RowIsRises(line) /\ RowExact(line)

\* A log is never that of another test, whole is known only of a run that has
\* ended, and as long as no other script builds, what is compiled, run and
\* parsed is the program of this test.
LogsAreGood == pc = "parse" => LogOK(log, Test)

WholeIsOfThisRun == pc \in {"compile", "run"} => ~whole

OwnProgram ==
    ~disturbed =>
        /\ pc = "compile" => generated = Program(Test)
        /\ pc = "run" => binary = Program(Test)
        /\ pc = "parse" /\ status = "ok" /\ whole => log = Output(Program(Test), Test)

RowsAreGood == \A i \in DOMAIN summary : RowOK(summary[i])

CInv == IInv /\ LogsAreGood /\ WholeIsOfThisRun /\ OwnProgram /\ RowsAreGood

\* A test of which nothing was measured.
LEMMA EmptyLine ==
    ASSUME NEW s, s # "ok"
    PROVE  RowOK(Line(s, <<>>))
<1>1. Len(<<>>) = 0
  OBVIOUS
<1> QED
  BY <1>1 DEF RowOK, RowIsRises, RowExact, Line

LEMMA LineIsRises ==
    ASSUME NEW s, NEW points, Configured, LogOK(points, Test)
    PROVE  RowIsRises(Line(s, points))
<1> DEFINE line == Line(s, points)
<1>1. /\ line.test = Test /\ line.n = Len(points)
      /\ points # <<>> => /\ line.first15 = First(points, 3) /\ line.first20 = First(points, 4)
                          /\ line.max = Top(points)
  BY DEF Line
<1>2. Test \in DOMAIN Ranges
  BY DEF Configured
<1> HIDE DEF line
<1>3. CASE points = <<>>
  <2>1. Len(points) = 0
    BY <1>3
  <2> QED
    BY <1>1, <2>1 DEF RowIsRises, line
<1>4. CASE points # <<>>
  <2>1. PICK p \in Programs : p.test = Test /\ CutOf(points, p)
    BY <1>4 DEF LogOK
  <2>2. First(points, 3) \in {NA, RiseOf(p, 3)} /\ First(points, 4) \in {NA, RiseOf(p, 4)}
    <3>1. 3 \in {3, 4} /\ 4 \in {3, 4}
      OBVIOUS
    <3> QED
      BY <1>2, <1>4, <2>1, <3>1, FirstIsTheRise
  <2>3. PICK i \in 1..Len(points) : Top(points) = points[i]
    BY <1>4, <2>1, TopIsFirst DEF CutOf
  <2>4. /\ points[i].x = p.counts[i] /\ points[i].cycles <= Curve[Test][p.counts[i]]
        /\ Len(points) <= Len(p.counts)
    BY <2>1, <2>3 DEF CutOf
  <2>5. p.counts[i] \in ToSet(p.counts)
    <3>1. DOMAIN p.counts = 1..Len(p.counts) /\ Len(p.counts) \in Nat /\ Len(points) \in Nat
      <4>1. p.counts \in Seq(Nat) /\ points \in Seq(Points)
        BY <1>2, <2>1, CountsArePossible DEF CutOf
      <4> QED
        BY <4>1
    <3>2. i \in DOMAIN p.counts
      BY <2>3, <2>4, <3>1
    <3> QED
      BY <3>2 DEF ToSet
  <2>6. /\ p.test = line.test /\ line.n <= Len(p.counts)
        /\ line.first15 \in {NA, RiseOf(p, 3)} /\ line.first20 \in {NA, RiseOf(p, 4)}
        /\ line.max.x \in ToSet(p.counts) /\ line.max.cycles <= Curve[line.test][line.max.x]
    BY <1>1, <1>4, <2>1, <2>2, <2>3, <2>4, <2>5
  <2> QED
    BY <2>6 DEF RowIsRises, line
<1> QED
  BY <1>3, <1>4

LEMMA LineIsExact ==
    ASSUME NEW s, NEW points, Configured,
           s = "ok" /\ whole /\ ~disturbed => points = Output(Program(Test), Test)
    PROVE  RowExact(Line(s, points))
<1> DEFINE line == Line(s, points)
           t == Test
           c == Program(t).counts
           n == Len(c)
<1> SUFFICES ASSUME s = "ok", whole, ~disturbed
             PROVE  RowExact(line)
  BY DEF Line, RowExact
<1>1. points = Output(Program(t), t) /\ t \in DOMAIN Ranges
  BY DEF Configured
<1>2. /\ points \in Seq(Points) /\ points # <<>> /\ Len(points) = n
      /\ \A i \in 1..n : points[i].x = c[i] /\ points[i].cycles = Curve[t][c[i]]
  BY <1>1, OwnOutput
<1>3. /\ line.test = t /\ line.n = Len(points)
      /\ line.first15 = First(points, 3) /\ line.first20 = First(points, 4)
      /\ line.max = Top(points)
  BY <1>2 DEF Line
<1>4. PICK m \in 1..n : /\ Top(points) = points[m]
                        /\ \A j \in 1..n : /\ points[j].cycles <= points[m].cycles
                                           /\ j < m => points[j].cycles < points[m].cycles
  BY <1>2, TopIsFirst
<1>5. /\ n \in Nat /\ DOMAIN c = 1..n /\ \A i \in 1..n : c[i] \in Nat
      /\ \A i, j \in 1..n : i < j => c[i] < c[j]
  BY <1>1, CountsAscend
<1>6. ASSUME NEW x \in ToSet(c)
      PROVE  \/ Curve[t][x] < line.max.cycles
             \/ Curve[t][x] = line.max.cycles /\ x >= line.max.x
  <2>1. PICK j \in 1..n : x = c[j]
    BY <1>5 DEF ToSet
  <2>2. points[j].cycles = Curve[t][x] /\ points[j].x = x /\ points[m].x = c[m]
    BY <1>2, <2>1
  <2>3. points[j].cycles \in Nat /\ points[m].cycles \in Nat
    BY <1>2, PointTypes
  <2> HIDE DEF c, n, t, line
  <2>4. line.max.cycles = points[m].cycles /\ line.max.x = c[m]
    BY <1>3, <1>4, <2>2
  <2>5. CASE j < m
    BY <1>4, <2>2, <2>4, <2>5
  <2>6. CASE ~(j < m)
    <3>1. j = m \/ m < j
      BY <1>5, <2>6
    <3>2. c[j] >= c[m]
      BY <1>5, <3>1
    <3>3. points[j].cycles <= points[m].cycles
      BY <1>4
    <3> QED
      BY <2>1, <2>2, <2>3, <2>4, <3>2, <3>3
  <2> QED
    BY <2>5, <2>6
<1>7. First(points, 3) = RiseOf(Program(t), 3) /\ First(points, 4) = RiseOf(Program(t), 4)
  <2>1. WholeOf(points, Program(t)) /\ Program(t).test = t
    BY <1>1, OwnOutput, CountsAscend
  <2>2. CutOf(points, Program(t))
    BY <1>1, <2>1, WholeIsACut
  <2>3. 3 \in {3, 4} /\ 4 \in {3, 4}
    OBVIOUS
  <2> QED
    BY <1>1, <1>2, <2>1, <2>2, <2>3, FirstIsTheRise
<1> HIDE DEF line, t
<1> QED
  BY <1>2, <1>3, <1>6, <1>7 DEF RowExact

LEMMA NextTestCInv ==
    ASSUME CInv, NEW line, NextTest(line), RowOK(line)
    PROVE  LogsAreGood' /\ WholeIsOfThisRun' /\ OwnProgram' /\ RowsAreGood'
<1>1. pc' = "test" /\ summary' = Append(summary, line)
  BY DEF NextTest
<1>2. DOMAIN summary = 1..(at - 1) /\ at \in Nat \ {0}
  <2>1. Len(tests) \in Nat
    BY ArgsAssumption DEF CInv, IInv, TypeOK
  <2> QED
    BY <2>1 DEF CInv, IInv, TypeOK
<1> DEFINE S == {summary[i] : i \in 1..(at - 1)} \cup {line}
<1>3. summary \in Seq(S) /\ line \in S
  <2>1. summary \in [1..(at - 1) -> S] /\ at - 1 \in Nat
    BY <1>2 DEF CInv, IInv
  <2>2. line \in S
    OBVIOUS
  <2> HIDE DEF S
  <2> QED
    BY <2>1, <2>2
<1>4. \A i \in DOMAIN summary : RowOK(summary[i])
  BY DEF CInv, RowsAreGood
<1> HIDE DEF S
<1>5. \A i \in DOMAIN summary' :
        \/ i \in DOMAIN summary /\ summary'[i] = summary[i]
        \/ summary'[i] = line
  BY <1>1, <1>3
<1>6. RowsAreGood'
  BY <1>4, <1>5 DEF RowsAreGood, RowOK, RowIsRises, RowExact
<1> QED
  BY <1>1, <1>6 DEF LogsAreGood, WholeIsOfThisRun, OwnProgram

LEMMA NextCInv ==
    ASSUME CInv, [Next]_vars
    PROVE  CInv'
<1> SUFFICES LogsAreGood' /\ WholeIsOfThisRun' /\ OwnProgram' /\ RowsAreGood'
  BY NextIInv DEF CInv
<1> USE NothingIsAProgram
<1>1. CASE MissingRange
  <2>1. NextTest(Line("missing_range", <<>>)) /\ RowOK(Line("missing_range", <<>>))
    BY <1>1, EmptyLine DEF MissingRange
  <2> QED
    BY <2>1, NextTestCInv
<1>2. CASE GenerateFails \/ CompileFails
  <2>1. NextTest(Line("build_failed", <<>>)) /\ RowOK(Line("build_failed", <<>>))
    BY <1>2, EmptyLine DEF GenerateFails, CompileFails
  <2> QED
    BY <2>1, NextTestCInv
<1>3. CASE Summarize
  <2>1. Configured /\ LogOK(log, Test) /\ NextTest(Line(status, log))
    BY <1>3 DEF Summarize, CInv, IInv, LogsAreGood
  <2>2. status = "ok" /\ whole /\ ~disturbed => log = Output(Program(Test), Test)
    BY <1>3 DEF Summarize, CInv, OwnProgram
  <2>3. RowOK(Line(status, log))
    BY <2>1, <2>2, LineIsRises, LineIsExact DEF RowOK
  <2> QED
    BY <2>1, <2>3, NextTestCInv
<1>4. ASSUME summary' = summary PROVE RowsAreGood'
  BY <1>4 DEF CInv, RowsAreGood, RowOK, RowIsRises, RowExact
<1>5. CASE Generate
  BY <1>4, <1>5 DEF Generate, CInv, LogsAreGood, WholeIsOfThisRun, OwnProgram, Test
<1>6. CASE Compile
  BY <1>4, <1>6 DEF Compile, history, CInv, LogsAreGood, WholeIsOfThisRun, OwnProgram, Test
<1>7. CASE Run
  <2>1. Test \in DOMAIN Ranges /\ binary \in Programs
    BY <1>7 DEF Run, CInv, IInv, Configured, TypeOK
  <2>2. LogOK(Output(binary, Test), Test)
    BY <2>1, OutputIsOK
  <2>3. LogsAreGood'
    BY <1>7, <2>2 DEF Run, LogsAreGood, LogOK, Test, Points
  <2> QED
    BY <1>4, <1>7, <2>3 DEF Run, CInv, WholeIsOfThisRun, OwnProgram, Test
<1>8. CASE RunFails \/ RunStops
  <2>1. Test \in DOMAIN Ranges /\ binary \in Programs
    BY <1>8 DEF RunFails, RunStops, CInv, IInv, Configured, TypeOK
  <2>3. \A cut \in Cuts(Output(binary, Test)) : LogOK(cut, Test)
    BY <2>1, CutsAreLogs
  <2>4. log' \in Cuts(Output(binary, Test)) /\ Test' = Test
    BY <1>8 DEF RunFails, RunStops, Test
  <2>5. LogOK(log', Test)
    BY <2>3, <2>4
  <2>6. LogsAreGood'
    BY <2>4, <2>5 DEF LogsAreGood, LogOK, Points
  <2>7. ~whole' /\ pc' = "parse"
    BY <1>8 DEF RunFails, RunStops, history, CInv, WholeIsOfThisRun
  <2>8. summary' = summary
    BY <1>8 DEF RunFails, RunStops
  <2> QED
    BY <1>4, <2>6, <2>7, <2>8 DEF WholeIsOfThisRun, OwnProgram
<1>9. CASE End
  BY <1>4, <1>9 DEF End, history, CInv, LogsAreGood, WholeIsOfThisRun, OwnProgram
<1>10. CASE OtherBuild
  <2>1. LogsAreGood'
    BY <1>10 DEF OtherBuild, CInv, LogsAreGood, LogOK, Test, Points
  <2> QED
    BY <1>4, <1>10, <2>1 DEF OtherBuild, CInv, WholeIsOfThisRun, OwnProgram
<1>11. CASE UNCHANGED vars
  <2>1. LogsAreGood'
    BY <1>11 DEF vars, CInv, LogsAreGood, LogOK, Test, Points
  <2> QED
    BY <1>4, <1>11, <2>1 DEF vars, history, CInv, WholeIsOfThisRun, OwnProgram, Test
<1> QED
  BY <1>1, <1>2, <1>3, <1>5, <1>6, <1>7, <1>8, <1>9, <1>10, <1>11 DEF Next, Script

LEMMA InitCInv == Init => CInv
<1>1. Init => summary = <<>> /\ pc = "test"
  BY DEF Init
<1> QED
  BY <1>1, InitIInv DEF CInv, LogsAreGood, WholeIsOfThisRun, OwnProgram, RowsAreGood

\* Wherever the logs end and whoever else builds, each line of summary.tsv is about
\* one program of its test: its columns first_ge_1p5x and first_ge_2p0x are NA or the
\* x at which that program's cycles rise, and max_cycles is never more than the
\* machine took at max_x.
THEOREM ColumnsAreAlwaysRises == Spec => []ColumnsAreRises
<1>1. CInv => ColumnsAreRises
  BY DEF CInv, RowsAreGood, RowOK, RowIsRises, ColumnsAreRises
<1> QED
  BY <1>1, InitCInv, NextCInv, PTL DEF Spec

\* The line of a test whose program ran to its end, with no other script
\* building in between, is about all points of the range, has the first of the
\* maxima, and names each x at which the cycles rise, if they do.
THEOREM UndisturbedRowsAreExact == Spec => []FinishedRowsAreExact
<1>1. CInv => FinishedRowsAreExact
  BY DEF CInv, RowsAreGood, RowOK, RowExact, FinishedRowsAreExact
<1> QED
  BY <1>1, InitCInv, NextCInv, PTL DEF Spec
=============================================================================
