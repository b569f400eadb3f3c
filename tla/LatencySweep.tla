---------------------------- MODULE LatencySweep ----------------------------
(***************************************************************************)
(* main() of MemoryLatency.c: the huge page buffer, then one of the plain  *)
(* sweep (RunTest, RunAsmTest), the TLB sweep, the MLP table and the store *)
(* forwarding table.  A test is one step, PointerChase shows what a chase  *)
(* does; only the MLP tests of the smallest array are run load by load, as *)
(* MlpChains.  Memory is counted in KB, timing is left out: a result says  *)
(* what was measured.                                                      *)
(***************************************************************************)
EXTENDS MlpChains, Sequences

CONSTANTS
    TestSizes, TlbSizes,    \* default_test_sizes, tlb_test_sizes
    Beyond,                 \* what may lie behind default_test_sizes
    Args,                   \* the command lines to try
    Word,                   \* 2^32, for the iteration count
    WordKb,                 \* 2^22, for sizes in KB that the code has in bytes
    Offsets,                \* 64 in RunStlfTest()
    LinesPerKb,             \* 16
    MaxFailures             \* bound on failing malloc() calls

KB == 1024
HugePageKb == 2048
LargestKb == TestSizes[Len(TestSizes)]
None == -1

\* The MLP test of the smallest array is the one MlpChains runs.
ASSUME SmallestAssumption == Count = LinesPerKb * TestSizes[1]
ASSUME ArgsAssumption ==
    \A a \in Args : /\ a.mode \in {"plain", "tlb", "mlp", "stlf"}
                    /\ a.func \in {"c", "asm"} /\ a.huge \in BOOLEAN
                    /\ a.max \in Nat /\ a.single \in Nat /\ a.iter \in Nat

\* The tables ascend, no entry of default_test_sizes is below its index, and
\* what lies behind it stops its loop: padding, or the first of tlb_test_sizes.
\* 32 MB hold the pages of every TLB size.
ASSUME TablesAssumption ==
    /\ TestSizes \in Seq(Nat \ {0}) /\ TestSizes # <<>>
    /\ \A j, k \in DOMAIN TestSizes : j < k => TestSizes[j] < TestSizes[k]
    /\ \A k \in DOMAIN TestSizes : k <= TestSizes[k]
    /\ LargestKb \in (32 * KB)..(KB * KB) /\ LargestKb < WordKb
    /\ TlbSizes \in Seq(Nat \ {0})
    /\ \A k \in DOMAIN TlbSizes : 4 * TlbSizes[k] <= 32 * KB
    /\ Beyond \subseteq 0..Len(TestSizes)

ASSUME CountsAssumption ==
    /\ Word \in Nat \ {0} /\ WordKb \in Nat \ {0}
    /\ Offsets \in Nat \ {0} /\ MaxFailures \in Nat
    /\ Rounds = 0..(Word - 1)

VARIABLES
    args,
    stage,
    buffer,         \* size of hugePagesArr, or None
    i, p,           \* loop variables, from 1: size or store offset, and
                    \* parallelism or load offset
    words,          \* arr[0] and arr[1] of RunStlfTest()
    results,        \* the result tables of the MLP and forwarding tests
    out,            \* printed lines, or the printed table
    heap,
    overran,        \* history: an array was used beyond its end
    failures

inVars == <<args, buffer>>
outVars == <<results, out, words>>
mainVars == <<inVars, stage, i, p, outVars, heap, overran, failures>>
allVars == <<vars, mainVars>>

sizes == IF args.mode = "tlb" THEN TlbSizes
         ELSE IF args.mode = "plain" /\ args.single # 0 THEN <<args.single>>
         ELSE TestSizes
Height == IF args.mode = "stlf" THEN Offsets ELSE Len(TestSizes)
Width == IF args.mode = "stlf" THEN Offsets ELSE MaxParallelism

-----------------------------------------------------------------------------
FourthPower(x) == x * x * x * x
Floor(m, size) ==       \* m / pow(size, 1.0 / 4.0)
    CHOOSE n \in 0..m : /\ FourthPower(n) * size <= FourthPower(m)
                        /\ FourthPower(m) < FourthPower(n + 1) * size

\* scale_iterations()
Scaled(size) == Floor((10 * args.iter) % Word, size)

\* Mutant of Required: the size is rounded down to huge pages.
RequiredDown ==
    LET cap == (args.max * KB) % WordKb
        kb == IF args.max > 0 /\ LargestKb > cap THEN cap ELSE LargestKb
    IN  (kb \div HugePageKb) * HugePageKb

\* maxMemRequired; none at all is still a multiple of the page size.
Required ==
    LET cap == (args.max * KB) % WordKb
        kb == IF args.max > 0 /\ LargestKb > cap THEN cap ELSE LargestKb
    IN  ((kb + HugePageKb - 1) \div HugePageKb) * HugePageKb

\* An array of kb KB reaches beyond the huge page buffer, or is empty but read
\* at A[0] all the same.
Overruns(kb) ==
    LET room == IF buffer = None THEN kb ELSE buffer
    IN  kb > room \/ (kb = 0 /\ room = 0)

Result(test, kb, loads, failed) ==
    [test |-> test, kb |-> kb, loads |-> loads, failed |-> failed]
Unset == Result(<<>>, 0, 0, TRUE)

SweepInit ==
    /\ args \in Args
    /\ stage = "start"
    /\ buffer = None
    /\ i = 1 /\ p = 1
    /\ words = <<0, 0>>
    /\ results = [c \in 0..(Height * Width - 1) |-> Unset]
    /\ out = <<>>
    /\ heap = {}
    /\ overran = FALSE
    /\ failures = 0
    /\ FillIdentity
    /\ parallelism = 1 /\ rounds = (CHOOSE r \in Rounds : TRUE) /\ pc = "done"
    /\ offsets = [c \in Chain |-> 0] /\ from = [c \in Chain |-> 0]
    /\ turn = 0 /\ round = 0

Quiet == UNCHANGED vars     \* RunMlpTest() is not running

MallocFails == failures < MaxFailures /\ failures' = failures + 1

Begin == stage' = args.mode

NoHugePages ==
    /\ stage = "start" /\ ~args.huge
    /\ Begin
    /\ UNCHANGED <<inVars, i, p, outVars, heap, overran, failures>> /\ Quiet

\* mmap() gives huge pages, or posix_memalign() memory to madvise() about.
MapHugePages ==
    /\ stage = "start" /\ args.huge
    /\ buffer' = Required
    /\ Begin
    /\ UNCHANGED <<args, i, p, outVars, heap, overran, failures>> /\ Quiet

NoMemory ==
    /\ stage = "start" /\ args.huge
    /\ stage' = "done"
    /\ UNCHANGED <<inVars, i, p, outVars, heap, overran, failures>> /\ Quiet

-----------------------------------------------------------------------------
(* The plain sweep *)
Wanted == i <= Len(sizes)

Fits == args.single = 0 /\ args.max # 0 => sizes[i] <= args.max * KB

PrintLine(result) == out' = Append(out, result) /\ i' = i + 1

\* The array is an argument or comes from malloc() and is freed.
RunTest ==
    /\ stage = "plain" /\ Wanted /\ Fits
    /\ ~(args.func = "asm" /\ Scaled(sizes[i]) = 0)
    /\ PrintLine(Result(sizes[i], sizes[i] % WordKb, Scaled(sizes[i]), FALSE))
    /\ overran' = (overran \/ Overruns(sizes[i] % WordKb))
    /\ UNCHANGED <<inVars, stage, p, results, words, heap, failures>> /\ Quiet

RunTestFails ==
    /\ stage = "plain" /\ Wanted /\ Fits /\ buffer = None
    /\ MallocFails
    /\ PrintLine(Result(sizes[i], 0, 0, TRUE))
    /\ UNCHANGED <<inVars, stage, p, results, words, heap, overran>> /\ Quiet

\* latencytest() decrements before it looks: from 0 it counts through 2^64.
RunAsmTestWraps ==
    /\ stage = "plain" /\ Wanted /\ Fits
    /\ args.func = "asm" /\ Scaled(sizes[i]) = 0
    /\ stage' = "wrapped"
    /\ UNCHANGED <<inVars, i, p, outVars, heap, overran, failures>> /\ Quiet

\* Memory beyond the end may not be mapped.
Crash ==
    /\ stage \in {"plain", "tlb"} /\ overran
    /\ stage' = "crashed"
    /\ UNCHANGED <<inVars, i, p, outVars, heap, overran, failures>> /\ Quiet

Return ==
    /\ stage \in {"plain", "tlb"} /\ (Wanted => stage = "plain" /\ ~Fits)
    /\ stage' = "done"
    /\ UNCHANGED <<inVars, i, p, outVars, heap, overran, failures>> /\ Quiet

-----------------------------------------------------------------------------
(* The TLB sweep *)
TlbKb == sizes[i] * 4       \* entries * PAGE_SIZE / 1024

TlbChase ==
    /\ stage = "tlb" /\ Wanted
    /\ overran' = (overran \/ Overruns(TlbKb))
    /\ stage' = "reference"
    /\ UNCHANGED <<inVars, i, p, outVars, heap, failures>> /\ Quiet

NoPattern ==
    /\ stage = "tlb" /\ Wanted
    /\ MallocFails
    /\ PrintLine(Result(sizes[i], 0, 0, TRUE))
    /\ UNCHANGED <<inVars, stage, p, results, words, heap, overran>> /\ Quiet

\* The message is printed, but memset() is called all the same.
NoPointerArray ==
    /\ stage = "tlb" /\ Wanted /\ buffer = None
    /\ MallocFails
    /\ stage' = "crashed"
    /\ UNCHANGED <<inVars, i, p, outVars, heap, overran>> /\ Quiet

\* RunTest(4), whose failure leaves the latency as it is.
Reference ==
    /\ stage = "reference"
    /\ \/ UNCHANGED failures /\ overran' = (overran \/ Overruns(4))
       \/ buffer = None /\ MallocFails /\ UNCHANGED overran
    /\ PrintLine(Result(sizes[i], TlbKb, Scaled(TlbKb), failures' # failures))
    /\ stage' = "tlb"
    /\ UNCHANGED <<inVars, p, results, words, heap>> /\ Quiet

-----------------------------------------------------------------------------
(* The two tables *)
Cell == (i - 1) * Width + p - 1

\* Mutant of Record: the inner loop goes once more.
RecordOneMore(result) ==
    /\ results' = [results EXCEPT ![Cell] = result]
    /\ IF p <= Width THEN p' = p + 1 /\ UNCHANGED i ELSE p' = 1 /\ i' = i + 1
    /\ UNCHANGED out

\* Mutant of Record: the loop variables are not counted up.
RecordStays(result) ==
    /\ results' = [results EXCEPT ![Cell] = result]
    /\ UNCHANGED <<i, p, out>>

\* main() keeps a result and goes to the next cell.
Record(result) ==
    /\ results' = [results EXCEPT ![Cell] = result]
    /\ IF p < Width THEN p' = p + 1 /\ UNCHANGED i ELSE p' = 1 /\ i' = i + 1
    /\ UNCHANGED out

\* The result table of the MLP test, or the lines to store to and load from;
\* a null result table is found out when the first result is written.
AllocTable ==
    /\ stage \in {"mlp", "stlf"} /\ heap = {}
    /\ heap' = {"table"}
    /\ UNCHANGED <<inVars, stage, i, p, outVars, overran, failures>> /\ Quiet

AllocTableFails ==
    /\ stage \in {"mlp", "stlf"} /\ heap = {}
    /\ MallocFails
    /\ stage' = IF stage = "mlp" THEN "crashed" ELSE "done"
    /\ UNCHANGED <<inVars, i, p, outVars, heap, overran>> /\ Quiet

MlpRounds == Scaled(sizes[i]) \div p

\* The locals of RunMlpTest() with n chains and r rounds.
Locals(n, r) ==
    /\ pattern' = [e \in Elem |-> e] /\ iter' = Count
    /\ parallelism' = n /\ rounds' = r
    /\ offsets' = [c \in 0..(n - 1) |-> 0] /\ from' = offsets'
    /\ turn' = 0 /\ round' = 0

MlpTest == stage = "mlp" /\ heap # {} /\ pc = "done" /\ i <= Height

StartMlpTest ==
    /\ MlpTest /\ i = 1
    /\ stage' = "chains"
    /\ Locals(p, MlpRounds) /\ pc' = "shuffle"
    /\ UNCHANGED <<inVars, i, p, outVars, overran, failures>>
    /\ heap' = heap \cup {"A", "offsets"}

ChainStep ==
    /\ stage = "chains"
    /\ ShuffleRound \/ PlaceChains \/ Advance \/ NextRound \/ Report
    /\ UNCHANGED mainVars

Freed == {"A", "offsets"}

EndMlpTest ==
    /\ stage = "chains" /\ pc = "done"
    /\ Record(Result(<<sizes[i], p>>, sizes[i], round * parallelism, FALSE))
    /\ stage' = "mlp"
    /\ heap' = heap \ Freed
    /\ Locals(1, rounds) /\ UNCHANGED pc
    /\ UNCHANGED <<inVars, words, overran, failures>>

RunMlpTest ==
    /\ MlpTest /\ i > 1
    /\ Record(Result(<<sizes[i], p>>, sizes[i], MlpRounds * p, FALSE))
    /\ UNCHANGED <<inVars, stage, words, heap, overran, failures>> /\ Quiet

\* One of the two malloc() calls fails, the block of the other is lost.
RunMlpTestFails ==
    /\ MlpTest
    /\ MallocFails
    /\ Record(Result(<<sizes[i], p>>, 0, 0, TRUE))
    /\ heap' = heap \cup {"lost"}
    /\ UNCHANGED <<inVars, stage, words, overran>> /\ Quiet

\* Mutant of StoredWords: the store offset is only set in the outer loop.
StoredWordsOnce == <<IF p = 1 THEN i - 1 ELSE words[1], p - 1>>

\* arr[0] = storeOffset, arr[1] = loadOffset
StoredWords == <<i - 1, p - 1>>

\* The kernel reads the offsets first; its stores to the first eight bytes
\* destroy them.
StlfTest ==
    /\ stage = "stlf" /\ heap # {} /\ i <= Height
    /\ words' = IF StoredWords[1] \in 0..7 THEN <<None, None>> ELSE StoredWords
    /\ Record(Result(StoredWords, 0, args.iter, FALSE))
    /\ UNCHANGED <<inVars, stage, heap, overran, failures>> /\ Quiet

\* The row ends where size_idx < default_test_sizes[size_idx] does, which is
\* looked up past the table once no entry stopped it.
MlpColumns(beyond) ==
    LET stops == {n \in 0..(Height - 1) : n >= TestSizes[n + 1]}
    IN  IF stops # {} THEN CHOOSE n \in stops : \A k \in stops : n <= k
        ELSE IF Height < beyond THEN beyond ELSE Height

PrintTable ==
    /\ stage \in {"mlp", "stlf"} /\ i > Height
    /\ \E beyond \in Beyond :
         LET columns == IF stage = "mlp" THEN MlpColumns(beyond) ELSE Width
             rows    == IF stage = "mlp" THEN Width ELSE Height
             at(r, c) == IF stage = "mlp" THEN (c - 1) * Width + r - 1
                                          ELSE (r - 1) * Width + c - 1
         IN  /\ out' = [r \in 1..rows |-> [c \in 1..columns |->
                          IF at(r, c) \in DOMAIN results
                          THEN results[at(r, c)] ELSE Unset]]
             /\ overran' = (columns > Height)
    /\ heap' = heap \ {"table"}
    /\ stage' = "done"
    /\ UNCHANGED <<inVars, i, p, words, results, failures>> /\ Quiet

Ended == stage \in {"done", "crashed", "wrapped"} /\ UNCHANGED allVars

MainNext ==
    \/ NoHugePages \/ MapHugePages \/ NoMemory
    \/ RunTest \/ RunTestFails \/ RunAsmTestWraps \/ Crash \/ Return
    \/ TlbChase \/ NoPattern \/ NoPointerArray \/ Reference
    \/ AllocTable \/ AllocTableFails
    \/ StartMlpTest \/ ChainStep \/ EndMlpTest \/ RunMlpTest \/ RunMlpTestFails
    \/ StlfTest \/ PrintTable

SweepSpec == SweepInit /\ [][MainNext \/ Ended]_allVars /\ WF_allVars(MainNext)
-----------------------------------------------------------------------------
(* Type invariant of main(). *)
SweepTypeOK ==
    /\ TypeOK
    /\ args \in Args
    /\ stage \in {"start", "plain", "tlb", "reference", "mlp", "chains", "stlf",
                  "done", "crashed", "wrapped"}
    /\ buffer \in Nat \cup {None}
    /\ i \in Nat \ {0} /\ p \in 1..Width
    /\ heap \subseteq {"table", "A", "offsets", "lost"}
    /\ overran \in BOOLEAN
    /\ failures \in 0..MaxFailures
    /\ stage # "chains" => pc = "done"

InOrder == args.mode \in {"plain", "tlb"}
Printed == IF InOrder THEN {out[k] : k \in 1..Len(out)}
           ELSE UNION {{out[r][c] : c \in DOMAIN out[r]} : r \in DOMAIN out}

UpToMaximum(size) == \/ args.mode = "tlb" \/ args.max = 0 \/ args.single # 0
                     \/ size <= args.max * KB

\* One line for every size in their order up to the maximum, or a table whose
\* every cell was measured with the parameters of its row and column.
PrintsOwnTests ==
    stage = "done" /\ out # <<>> =>
        /\ InOrder =>
              /\ [k \in 1..Len(out) |-> out[k].test] = SubSeq(sizes, 1, Len(out))
              /\ 1..Len(out) = {k \in DOMAIN sizes : UpToMaximum(sizes[k])}
        /\ args.mode = "mlp" =>
              out = [q \in 1..MaxParallelism |-> [k \in 1..Len(TestSizes) |->
                       [out[q][k] EXCEPT !.test = <<TestSizes[k], q>>]]]
        /\ args.mode = "stlf" =>
              out = [s \in 1..Offsets |-> [l \in 1..Offsets |->
                       [out[s][l] EXCEPT !.test = <<s - 1, l - 1>>]]]

\* -iter gives a number of chains something to do at every size.
Chains(r) == IF args.mode = "mlp" THEN r.test[2] ELSE 1
Root == CHOOSE n \in 1..KB : /\ FourthPower(n - 1) < LargestKb
                             /\ LargestKb <= FourthPower(n)
Enough(chains) == Root * chains <= 10 * args.iter /\ 10 * args.iter < Word

\* Results that are no failures.
MeasuresItsSize ==
    /\ \A r \in Printed :
          args.mode = "plain" /\ ~r.failed => r.kb = r.test \/ r.test >= WordKb
    /\ \A r \in Printed :
          args.mode # "stlf" /\ args.single = 0 /\ Enough(Chains(r)) =>
             r.loads > 0 \/ r.failed
    /\ stage = "wrapped" => args.single > LargestKb \/ ~Enough(1)

(* A run that prints its results prints one for every size up to the maximum *)
(* or for every cell, failed tests included.  It is about the size it is     *)
(* printed with (sizes of 4 GB and more wrap), and there are no loads behind *)
(* it only if -iter times ten wraps or is below the fourth root of the       *)
(* largest size times the number of chains: then C tests print a division by *)
(* zero and the assembly test does not return.                               *)
PrintsWhatItMeasures == PrintsOwnTests /\ MeasuresItsSize

(* "Will allocate max memory at start": only a single size, the TLB test and *)
(* a maximum that wraps can go beyond the huge page buffer, and a single     *)
(* size above it does; without a buffer only a size that wraps to nothing is *)
(* read out of bounds.  Blocks outlive main() only where a malloc() failed.  *)
HugeBufferHolds ==
    /\ overran => IF buffer = None THEN args.single >= WordKb
                  ELSE \/ args.mode = "plain" /\ args.single > buffer
                       \/ args.mode = "tlb" /\ args.max \in 1..31
                       \/ args.max * KB >= WordKb
    /\ args.mode = "plain" /\ buffer # None /\ out # <<>> =>
         (args.single \in (buffer + 1)..(WordKb - 1) => overran)
    /\ stage = "done" => heap = {} \/ failures > 0

(* Every run ends, or is in the loop that counts through 2^64.               *)
SweepReturns == <>(stage \in {"done", "crashed", "wrapped"})
=============================================================================
