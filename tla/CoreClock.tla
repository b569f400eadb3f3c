------------------------------ MODULE CoreClock -----------------------------
(***************************************************************************)
(* CoreClockChecker.c: main() switches core boost on or off, reads energy  *)
(* counters around clktest() or a command, or times clktest(), on one core *)
(* after the other; and BoostClockChecker.c, which times clktsctest() for  *)
(* a number of samples.  The MSR files can fail to open, to be read and to *)
(* be written; the processor consumes energy at any time.  A measurement   *)
(* is a counter difference: times and units are left out.                  *)
(***************************************************************************)
EXTENDS Integers, Sequences, FiniteSets, FiniteSetsExt

CONSTANTS
    Cpus,           \* the CPU numbers, 0..n
    Onlines,        \* the sets of CPUs that may be online
    Runs,           \* the programs and arguments to try
    HardCores,      \* 16 in getTotalCoreEnergy()
    Wrap,           \* 2^32, the range of an energy counter
    Wide,           \* 2^64
    Rests,          \* the values of HWCR but for the boost bit
    FirstEnergy,    \* where the counters start
    MaxConsumed,    \* bound on what is consumed of all counters together
    MaxFaults       \* bound on failing system calls

Package == -1       \* the counter of the package
Anywhere == -1      \* the thread is not pinned
Closed == 0
NoFile == -1
Open == 1

\* The program runs on a CPU that is online.
ASSUME CpuAssumption ==
    /\ Cpus \in SUBSET Nat /\ IsFiniteSet(Cpus)
    /\ \A s \in Onlines : s \subseteq Cpus /\ s # {}
ASSUME RunAssumption ==
    \A r \in Runs : /\ r.mode \in {"disableboost", "enableboost", "power",
                                   "measurecmd", "clock", "samples"}
                    /\ r.amd \in BOOLEAN
                    /\ r.iterations \in Nat /\ r.samples \in Nat
ASSUME WidthAssumption ==
    /\ HardCores \in Nat \ {0} /\ Wrap \in Nat \ {0} /\ Wide \in Nat
    /\ Wide % Wrap = 0 /\ Wide > 2 * HardCores * Wrap
ASSUME BoundAssumption ==
    Rests # {} /\ FirstEnergy \in Nat /\ MaxConsumed \in Nat /\ MaxFaults \in Nat

VARIABLES
    run, online,
    core, at,       \* loop variable of main(), and where its body is
    k,              \* the core getTotalCoreEnergy() is at
    left,           \* iterations left in clktest()
    fds,            \* msrFds
    pinned,         \* the core the thread runs on
    hwcr,           \* per core: the bit that disables boost, and the rest
    value,          \* hwcrValue
    energy,         \* history: per counter, what was consumed so far
    reading,        \* per read: sum of the registers, and of the consumption
    units,          \* the energy unit could be read
    failed,         \* a read of this measurement failed
    listed,         \* the cores that have a row
    unpinned,       \* cores there was a message about setAffinity() for
    complained,     \* there was a message about an MSR
    overran,        \* history: msrFds was used beyond its end
    faults

loopVars == <<run, online, core, at, k>>
msrVars == <<fds, hwcr, value>>
histVars == <<unpinned, complained, overran, faults>>
energyVars == <<energy, reading, units, failed>>
vars == <<loopVars, left, msrVars, pinned, energyVars, listed, histVars>>

\* Mutant of numProcs: the last core is left out.
numProcsLess == Cardinality(online) - 1

numProcs == Cardinality(online)         \* get_nprocs()
Setting == run.mode \in {"disableboost", "enableboost"}
Metering == run.mode \in {"power", "measurecmd"}

\* What main() does for each core, or once, or for each sample; the first time
\* getEnergyStatusUnits() comes before it.
Body ==
    CASE Setting -> <<"pin", "read", "write", "verify">>
      [] run.mode = "power" ->
           IF core = 0 THEN <<"pin", "units", "pin", "coreStart", "pkgStart",
                              "run", "pkgEnd", "coreEnd", "print">>
           ELSE <<"pin", "coreStart", "pkgStart", "run", "pkgEnd", "coreEnd",
                  "print">>
      [] run.mode = "measurecmd" ->
           <<"pin", "units", "coreStart", "pkgStart", "run", "coreEnd", "pkgEnd",
             "print">>
      [] run.mode = "clock" -> <<"pin", "run", "print">>
      [] run.mode = "samples" -> <<"run", "print">>

Rounds == CASE run.mode = "measurecmd" -> 1
            [] run.mode = "samples" -> run.samples + 1  \* and the reference
            [] OTHER -> numProcs

\* The cores whose counters getCoreEnergyStat() is called for.
FirstCore(c) == IF run.mode = "measurecmd" THEN 0 ELSE c

\* Mutants of LastCore: one too many, and AMD's loop on every processor.
LastCoreOneMore(c) == IF run.mode = "measurecmd" /\ run.amd THEN HardCores
                      ELSE FirstCore(c)
LastCoreAnyMaker(c) == IF run.mode = "measurecmd" THEN HardCores - 1
                       ELSE FirstCore(c)

LastCore(c) == IF run.mode = "measurecmd" /\ run.amd THEN HardCores - 1
               ELSE FirstCore(c)

Doing(op) == core < Rounds /\ left = 0 /\ Body[at] = op
Stuck == left < 0
Done == core >= Rounds

NextOp ==
    IF at < Len(Body) THEN at' = at + 1 /\ k' = FirstCore(core) /\ UNCHANGED core
    ELSE at' = 1 /\ core' = core + 1 /\ k' = FirstCore(core')

Fault == faults < MaxFaults /\ faults' = faults + 1

NoReading == [op \in {"coreStart", "coreEnd", "pkgStart", "pkgEnd"} |->
                [reg |-> 0, used |-> 0]]

\* What the rest of HWCR is before the program runs.
Before == CHOOSE r \in Rests : TRUE

Init ==
    /\ run \in Runs /\ online \in Onlines
    /\ core = 0 /\ at = 1 /\ k = 0 /\ left = 0
    /\ fds = [c \in 0..(numProcs - 1) |-> Closed]
    /\ pinned = Anywhere
    /\ hwcr \in [Cpus -> [off : IF Setting THEN BOOLEAN ELSE {FALSE}, rest : {Before}]]
    /\ value = [off |-> FALSE, rest |-> Before]
    /\ energy = [c \in Cpus \cup {Package} |-> FirstEnergy]
    /\ reading = NoReading /\ units = FALSE /\ failed = FALSE
    /\ listed = {}
    /\ unpinned = {} /\ complained = FALSE /\ overran = FALSE
    /\ faults = 0

-----------------------------------------------------------------------------
Pin ==
    /\ Doing("pin") /\ core \in online
    /\ pinned' = core
    /\ NextOp
    /\ UNCHANGED <<run, online, left, msrVars, energyVars, listed, histVars>>

\* pthread_setaffinity_np() always fails for a core that is offline.
PinFails ==
    /\ Doing("pin")
    /\ IF core \in online THEN Fault ELSE UNCHANGED faults
    /\ unpinned' = unpinned \cup {core}
    /\ NextOp
    /\ UNCHANGED <<run, online, left, msrVars, pinned, energyVars, listed, complained, overran>>

\* The core whose file the next step uses.
Wanted == IF Doing("coreStart") \/ Doing("coreEnd") THEN k
          ELSE IF run.mode = "measurecmd" THEN 0 ELSE core
Reads == \E op \in {"read", "units", "coreStart", "pkgStart", "pkgEnd",
                       "coreEnd"} :
            Doing(op)
NeedsFile == Reads /\ Wanted \in DOMAIN fds /\ fds[Wanted] = Closed

\* openMsr(); what it returns is kept, -1 too.
OpenMsr ==
    /\ NeedsFile /\ Wanted \in online
    /\ fds' = [fds EXCEPT ![Wanted] = Open]
    /\ UNCHANGED <<loopVars, left, hwcr, value, pinned, energyVars, listed, histVars>>

OpenMsrFails ==
    /\ NeedsFile
    /\ IF Wanted \in online THEN Fault ELSE UNCHANGED faults
    /\ fds' = [fds EXCEPT ![Wanted] = NoFile]
    /\ complained' = TRUE
    /\ UNCHANGED <<loopVars, left, hwcr, value, pinned, energyVars, listed, unpinned, overran>>

HasFile(c) == c \in DOMAIN fds /\ fds[c] = Open
\* A read or write of the core's file fails.
FileFails(c) ==
    /\ IF HasFile(c) THEN Fault ELSE UNCHANGED faults
    /\ complained' = TRUE

Requested == run.mode = "disableboost"

\* hwcrValue with bit 25 set or cleared.
Changed(v) == [v EXCEPT !.off = Requested]

ReadHwcr ==
    /\ Doing("read") /\ ~NeedsFile
    /\ \/ /\ HasFile(core)
          /\ value' = Changed(hwcr[core])
          /\ UNCHANGED <<complained, faults>>
       \/ /\ FileFails(core)                    \* result is not initialised
          /\ \E junk \in [off : BOOLEAN, rest : Rests] : value' = Changed(junk)
    /\ NextOp
    /\ UNCHANGED <<run, online, left, fds, hwcr, pinned, energyVars, listed, unpinned, overran>>

\* The write may fail or not take effect.
WriteHwcr ==
    /\ Doing("write")
    /\ \/ /\ HasFile(core)
          /\ hwcr' = [hwcr EXCEPT ![core] = value]
          /\ UNCHANGED <<complained, faults>>
       \/ FileFails(core) /\ UNCHANGED hwcr
       \/ HasFile(core) /\ Fault /\ UNCHANGED <<hwcr, complained>>
    /\ NextOp
    /\ UNCHANGED <<run, online, left, fds, value, pinned, energyVars, listed, unpinned, overran>>

\* Mutant of TookEffect: the bit is masked out.
TookEffectRest(old, new) == old.rest = new.rest

TookEffect(old, new) == old = new

\* The second half of writeMsr().
VerifyHwcr ==
    /\ Doing("verify")
    /\ \/ /\ HasFile(core)
          /\ complained' = (complained \/ ~TookEffect(hwcr[core], value))
          /\ UNCHANGED faults
       \/ FileFails(core)
    /\ NextOp
    /\ UNCHANGED <<run, online, left, msrVars, pinned, energyVars, listed, unpinned, overran>>

-----------------------------------------------------------------------------
Consumed == MapThenSumSet(LAMBDA c : energy[c] - FirstEnergy, DOMAIN energy)

\* Outside a measurement it would only move where the counters start.
Consume ==
    /\ Metering /\ ~Done
    /\ Body[at] \in DOMAIN reading \cup {"run"}
    /\ Consumed < MaxConsumed
    /\ \E c \in {Package} \cup (Cpus \cap FirstCore(core)..LastCore(core)) :
         energy' = [energy EXCEPT ![c] = @ + 1]
    /\ UNCHANGED <<loopVars, left, msrVars, pinned, reading, units, failed,
                   listed, histVars>>

\* Without the unit every result is scaled by junk.
ReadUnits ==
    /\ Doing("units") /\ ~NeedsFile
    /\ \/ HasFile(0) /\ units' = TRUE /\ UNCHANGED <<complained, faults>>
       \/ FileFails(0) /\ UNCHANGED units
    /\ NextOp
    /\ UNCHANGED <<run, online, left, msrVars, pinned, energy, reading, failed,
                   listed, unpinned, overran>>

Add(op, reg, used) ==
    reading' = [reading EXCEPT ![op].reg = @ + reg, ![op].used = @ + used]

\* getCoreEnergyStat() and getPkgEnergyStat(); a failing read returns whatever
\* is on the stack.  Beyond the end of msrFds is a word of the heap: as the
\* number of a file it is junk, and where it is 0 openMsr() puts the file of a CPU
\* there, which mostly does not exist.  Any value may be read in either case.
ReadEnergy(op) ==
    LET isCore  == op \in {"coreStart", "coreEnd"}
        counter == IF isCore THEN k ELSE Package
    IN  /\ Doing(op) /\ ~NeedsFile
        /\ \/ /\ HasFile(Wanted)
              /\ Add(op, energy[counter] % Wrap, energy[counter])
              /\ UNCHANGED <<failed, complained, faults>>
           \/ /\ FileFails(Wanted)
              /\ \E junk \in 0..(Wrap - 1) : Add(op, junk, 0)
              /\ failed' = TRUE
        /\ overran' = (overran \/ Wanted \notin DOMAIN fds)
        /\ IF isCore /\ k < LastCore(core)
             THEN k' = k + 1 /\ UNCHANGED <<core, at>>
             ELSE NextOp
        /\ UNCHANGED <<run, online, left, msrVars, pinned, energy, units, listed,
                       unpinned>>

\* clktest(), clktsctest() or system(): a loop that counts down in twenties
\* until zero.
Start ==
    /\ Doing("run")
    /\ IF run.mode = "measurecmd" THEN UNCHANGED left
       ELSE IF run.mode = "samples" /\ core = run.samples THEN left' = 40
       ELSE left' = IF run.iterations = 0 THEN -1 ELSE run.iterations
    /\ NextOp
    /\ UNCHANGED <<run, online, msrVars, pinned, energyVars, listed,
                   histVars>>

\* Mutant of Countdown: the loop control is counted as well.
Countdown21 == left - 21

Countdown == left - 20

\* The x86 clktsctest() does not restore %rdi, as its declaration says; built as
\* the Makefile does, main() has nothing there.
Loop ==
    /\ left > 0
    /\ left' = Countdown
    /\ UNCHANGED <<loopVars, msrVars, pinned, energyVars, listed,
                   histVars>>

\* Mutant of Difference: a negative difference is taken by its amount.
DifferenceAmount(from, to) ==
    IF reading[to].reg >= reading[from].reg THEN reading[to].reg - reading[from].reg
    ELSE reading[from].reg - reading[to].reg

Difference(from, to) == (reading[to].reg - reading[from].reg) % Wide
Used(from, to) == reading[to].used - reading[from].used

\* What is printed, next to what it should say.
Row == [cores |-> Difference("coreStart", "coreEnd"),
        coresUsed |-> Used("coreStart", "coreEnd"),
        pkg |-> Difference("pkgStart", "pkgEnd"),
        pkgUsed |-> Used("pkgStart", "pkgEnd")]

PrintRow ==
    /\ Doing("print")
    /\ listed' = listed \cup {core}
    /\ reading' = NoReading /\ failed' = FALSE
    /\ NextOp
    /\ UNCHANGED <<run, online, left, msrVars, pinned, energy, units, histVars>>

Program == \/ Pin \/ PinFails \/ OpenMsr \/ OpenMsrFails
           \/ ReadHwcr \/ WriteHwcr \/ VerifyHwcr \/ ReadUnits
           \/ \E op \in DOMAIN NoReading : ReadEnergy(op)
           \/ Start \/ Loop \/ PrintRow
Ended == (Done \/ Stuck) /\ UNCHANGED vars
Next == Program \/ Consume \/ Ended

Spec == Init /\ [][Next]_vars /\ WF_vars(Program)
-----------------------------------------------------------------------------
(* Type invariant. *)
TypeOK ==
    /\ run \in Runs /\ online \in Onlines
    /\ core \in 0..Rounds /\ (~Done => at \in 1..Len(Body)) /\ left \in Int
    /\ k \in Nat /\ (run.mode = "measurecmd" /\ ~Done => k < HardCores)
    /\ fds \in [0..(numProcs - 1) -> {NoFile, Closed, Open}]
    /\ hwcr \in [Cpus -> [off : BOOLEAN, rest : Rests]]
    /\ units \in BOOLEAN /\ failed \in BOOLEAN /\ complained \in BOOLEAN
    /\ overran \in BOOLEAN /\ faults \in 0..MaxFaults
    /\ listed \subseteq Nat /\ unpinned \subseteq Nat

(* A run of disableboost or enableboost without a message about an MSR has   *)
(* reached every core that is online and changed nothing but the boost bit,  *)
(* although get_nprocs() only tells how many cores there are, failed reads   *)
(* give junk and writes may be ignored; any other change has its message.    *)
BoostIsSet ==
    /\ Setting /\ Done /\ ~complained =>
          \A c \in online : hwcr[c].off = Requested
    /\ \A c \in Cpus : hwcr[c].rest # Before => complained

(* main() reads 32-bit counters as 64-bit numbers: as long as the consumption*)
(* measured is less than a wrap, what is printed is the consumption or, when *)
(* a counter wrapped, too large to be believed, never something in between.  *)
WrapShows ==
    Metering /\ Doing("print") /\ ~failed /\ units =>
        /\ Row.pkgUsed < Wrap =>
              Row.pkg = Row.pkgUsed \/ Row.pkg >= Wide - Wrap
        /\ Row.coresUsed < Wrap =>
              Row.cores = Row.coresUsed \/ Row.cores >= Wide - HardCores * Wrap
        /\ Row.pkg % Wrap = Row.pkgUsed % Wrap
        /\ Row.cores % Wrap = Row.coresUsed % Wrap

(* Without a message about affinity, every row is about the core it names    *)
(* and every core that is online has one, whatever their numbers are.        *)
RowsAreTheCores ==
    /\ Doing("print") /\ run.mode \in {"power", "clock"} /\ core \notin unpinned =>
          pinned = core
    /\ Done /\ run.mode \in {"power", "clock"} /\ unpinned = {} => listed = online

(* "only testing the 5950X and 3950X for now": on AMD processors with fewer  *)
(* CPUs, and there only, measurecmd reads and writes beyond the end of       *)
(* msrFds, and does so always.                                               *)
FdsHoldTheCores ==
    LET small == run.mode = "measurecmd" /\ run.amd /\ numProcs < HardCores
    IN  (overran => small) /\ (Done /\ small => overran)

(* Every run ends, unless it is asked for a number of iterations that the    *)
(* loop's steps of twenty do not hit zero from.                              *)
Ends == <>(Done \/ run.iterations % 20 # 0 \/ run.iterations = 0)
=============================================================================
