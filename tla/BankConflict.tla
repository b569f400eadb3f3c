---------------------------- MODULE BankConflict ----------------------------
(***************************************************************************)
(* TestBankConflicts() of MemoryBandwidth.c and the x86 routine            *)
(* readbankconflict: for each size and spacing, loads from two places that *)
(* far apart, ten pairs of them, one byte further each, in a block.  Only  *)
(* x86 can select the test.  Registers count bytes from the array's start. *)
(***************************************************************************)
EXTENDS Integers, Sequences

CONSTANTS
    BankSizes,      \* in bytes: the first testPoints default_test_sizes
    MaxSpacing,     \* in units of eight bytes
    TotalLoads      \* 6e9

ASSUME BankAssumption == /\ BankSizes \in Seq(Nat) /\ BankSizes # <<>>
                         /\ MaxSpacing \in Nat /\ TotalLoads \in Nat
\* Sizes are whole KBs: even, the smallest 2 KB.  The largest spacing is 512 bytes.
ASSUME RoomAssumption ==
    \A k \in 1..Len(BankSizes) : /\ BankSizes[k] > MaxSpacing * 8 + 10
                                 /\ BankSizes[k] % 2 = 0

VARIABLES
    bankPc,
    bankIdx, spacing,   \* the loops of TestBankConflicts(), from 0
    rsi, r9,            \* leading location, loads left
    reach, loads,       \* history, of one call: end of the last byte read,
                        \* loads executed
    resultArr,          \* by cell
    bankTable,          \* what is printed, by size and spacing
    bankHeap

callVars == <<rsi, r9, reach, loads>>
bankVars == <<bankPc, bankIdx, spacing, callVars, resultArr, bankTable, bankHeap>>

testPoints == Len(BankSizes)
length == BankSizes[bankIdx + 1]
Width8 == 8             \* bytes of one load
Steps == 10             \* pairs of loads in a block

BankCell(s, i) == s * testPoints + i

NoResult == [size |-> -1, spacing |-> -1, reach |-> 0, loads |-> 0]

BankInit ==
    /\ bankPc = "off"
    /\ bankIdx = 0 /\ spacing = 0
    /\ rsi = 0 /\ r9 = 0 /\ reach = 0 /\ loads = 0
    /\ resultArr = [c \in 0..((MaxSpacing + 1) * testPoints - 1) |-> NoResult]
    /\ bankTable = <<>>
    /\ bankHeap = {}

\* TestBankConflicts() is called; its malloc() is taken to succeed.
StartBankTest ==
    /\ bankPc' = "alloc"
    /\ bankHeap' = {"resultArr"}
    /\ UNCHANGED <<bankIdx, spacing, callVars, resultArr, bankTable>>

AllocBank ==
    /\ bankPc = "alloc" /\ bankIdx < testPoints
    /\ bankHeap' = bankHeap \cup {"arr"}
    /\ spacing' = 0
    /\ bankPc' = "call"
    /\ UNCHANGED <<bankIdx, callVars, resultArr, bankTable>>

\* The whole test ends without its table.
AllocBankFails ==
    /\ bankPc = "alloc" /\ bankIdx < testPoints
    /\ bankPc' = "returned"
    /\ UNCHANGED <<bankIdx, spacing, callVars, resultArr, bankTable, bankHeap>>

\* "basic check": with too little space for the spacing nothing is read.
CallBank ==
    /\ bankPc = "call"
    /\ rsi' = spacing * 8 /\ r9' = TotalLoads
    /\ reach' = 0 /\ loads' = 0
    /\ bankPc' = IF length <= spacing * 8 THEN "back" ELSE "loop"
    /\ UNCHANGED <<bankIdx, spacing, resultArr, bankTable, bankHeap>>

\* "we're reading 10B ahead"
Ahead == Steps

Later(a, b) == IF a >= b THEN a ELSE b

\* One block, and the pass's end.
BankBlock ==
    /\ bankPc = "loop"
    /\ reach' = Later(reach, rsi + Steps - 1 + Width8)
    /\ loads' = loads + 2 * Steps
    /\ r9' = r9 - 2 * Steps
    /\ rsi' = IF length - Ahead > rsi + Steps THEN rsi + Steps ELSE spacing * 8
    /\ bankPc' = IF r9' < 0 THEN "back" ELSE "loop"
    /\ UNCHANGED <<bankIdx, spacing, resultArr, bankTable, bankHeap>>

\* Mutant of MoreSpacings: one spacing more than there is room for.
MoreSpacingsOne == spacing <= MaxSpacing

MoreSpacings == spacing < MaxSpacing

\* The call is back; a return code that is not 0 only makes a message.
EndBankCall ==
    /\ bankPc = "back"
    /\ resultArr' = [resultArr EXCEPT ![BankCell(spacing, bankIdx)] =
                       [size |-> bankIdx, spacing |-> spacing,
                        reach |-> reach, loads |-> loads]]
    /\ IF MoreSpacings
         THEN /\ spacing' = spacing + 1 /\ bankPc' = "call"
              /\ UNCHANGED <<bankIdx, bankHeap>>
         ELSE /\ bankIdx' = bankIdx + 1 /\ bankPc' = "alloc"
              /\ bankHeap' = bankHeap \ {"arr"}
              /\ UNCHANGED spacing
    /\ UNCHANGED <<callVars, bankTable>>

PrintBankTable ==
    /\ bankPc = "alloc" /\ bankIdx = testPoints
    /\ bankTable' = [i \in 1..testPoints |->
                       [s \in 0..MaxSpacing |-> resultArr[BankCell(s, i - 1)]]]
    /\ bankHeap' = bankHeap \ {"resultArr"}
    /\ bankPc' = "returned"
    /\ UNCHANGED <<bankIdx, spacing, callVars, resultArr>>

BankStep == AllocBank \/ CallBank \/ BankBlock \/ EndBankCall \/ PrintBankTable
-----------------------------------------------------------------------------
BankResults == {resultArr[c] : c \in DOMAIN resultArr} \ {NoResult}

\* Bytes from the last block's end in a full pass to the end of the array.
Beyond(r) ==
    LET len == BankSizes[r.size + 1]
    IN  Width8 - 2 - ((len - Ahead - 1 - r.spacing * 8) % Steps)

(* "we're reading 10B ahead" forgets that each of the ten loads is eight     *)
(* bytes wide: a call that completes a pass reads up to five bytes behind    *)
(* the array, depending on how the spacing fits the length, and never more.  *)
BankReadsAreNear ==
    \A r \in BankResults :
        /\ r.reach <= BankSizes[r.size + 1] + Width8 - 3
        /\ r.loads >= 2 * (BankSizes[r.size + 1] - r.spacing * 8) =>
              r.reach = BankSizes[r.size + 1] + Beyond(r)

(* Every cell of the printed table is about its own size and spacing, with   *)
(* no fewer loads behind it than are reported and at most a block more; a    *)
(* table is printed unless memory ran out, and then what was allocated for   *)
(* it is lost.                                                               *)
BankTableIsOwn ==
    bankPc = "returned" =>
        /\ bankTable = <<>> <=> "resultArr" \in bankHeap
        /\ "arr" \notin bankHeap
        /\ \A i \in DOMAIN bankTable : \A s \in 0..MaxSpacing :
              LET r == bankTable[i][s]
              IN  /\ r.size = i - 1 /\ r.spacing = s
                  /\ r.loads \in TotalLoads..(TotalLoads + 2 * Steps)
=============================================================================
