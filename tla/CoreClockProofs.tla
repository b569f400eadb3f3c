--------------------------- MODULE CoreClockProofs ---------------------------
(***************************************************************************)
(* Proofs about CoreClockChecker for any number of cores, online or not,   *)
(* any width of the counters, any iteration count, and any number of       *)
(* failing system calls.  Base says where main() is and which files are    *)
(* open; the four invariants on top of it are about the boost bit, the     *)
(* rows, the array of files and the energy counters.                       *)
(***************************************************************************)
EXTENDS CoreClock, FiniteSetTheorems, TLAPS

\* Positions in the body of a measurement.
CoreStart == IF run.mode = "power" THEN IF core = 0 THEN 4 ELSE 2 ELSE 3
CoreEnd   == IF run.mode = "power" THEN CoreStart + 4 ELSE CoreStart + 3
PkgEnd    == IF run.mode = "power" THEN CoreStart + 3 ELSE CoreStart + 4

ReadOps == {"coreStart", "coreEnd", "pkgStart", "pkgEnd"}

\* k is the loop variable of getTotalCoreEnergy(), or core.
KInv ==
    ~Done =>
        /\ FirstCore(core) <= k /\ k <= LastCore(core)
        /\ Metering /\ at # CoreStart /\ at # CoreEnd => k = FirstCore(core)

\* Only files of cores that are online are open.
FilesInv == \A c \in DOMAIN fds : fds[c] = Open => c \in online

Base == /\ TypeOK /\ KInv /\ FilesInv
        /\ value \in [off : BOOLEAN, rest : Rests]
        /\ energy \in [Cpus \cup {Package} -> Nat]
        /\ reading \in [ReadOps -> [reg : Nat, used : Nat]]

-----------------------------------------------------------------------------
(* Where main() is *)

\* There are CPUs online, and their number is a number.
LEMMA SomeProcs ==
    ASSUME online \in Onlines
    PROVE  numProcs \in Nat \ {0} /\ IsFiniteSet(online)
<1>1. online \subseteq Cpus /\ online # {} /\ IsFiniteSet(Cpus)
  BY CpuAssumption
<1>2. IsFiniteSet(online)
  BY <1>1, FS_Subset
<1>3. Cardinality(online) \in Nat /\ Cardinality(online) # 0
  BY <1>1, <1>2, FS_CardinalityType, FS_EmptySet
<1> QED
  BY <1>2, <1>3 DEF numProcs

\* The cores main() goes through are the ones online, if all of them are.
LEMMA AllOnline ==
    ASSUME online \in Onlines, 0..(numProcs - 1) \subseteq online
    PROVE  online = 0..(numProcs - 1)
<1>1. numProcs \in Nat \ {0} /\ IsFiniteSet(online)
  BY SomeProcs
<1>2. Cardinality(0..(numProcs - 1)) = numProcs
  BY <1>1, FS_Interval
<1> QED
  BY <1>1, <1>2, FS_Subset DEF numProcs

LEMMA RoundsAreNat ==
    ASSUME run \in Runs, online \in Onlines
    PROVE  Rounds \in Nat /\ (run.mode \notin {"measurecmd", "samples"} => Rounds = numProcs)
<1>1. run.samples \in Nat
  BY RunAssumption
<1> QED
  BY <1>1, SomeProcs DEF Rounds

\* The five bodies.
LEMMA SettingBody ==
    ASSUME Setting
    PROVE  /\ Len(Body) = 4 /\ Body[1] = "pin" /\ Body[2] = "read"
           /\ Body[3] = "write" /\ Body[4] = "verify"
  BY DEF Body, Setting

LEMMA PowerBody ==
    ASSUME run.mode = "power"
    PROVE  /\ core = 0 => Body = <<"pin", "units", "pin", "coreStart", "pkgStart",
                                   "run", "pkgEnd", "coreEnd", "print">>
           /\ core # 0 => Body = <<"pin", "coreStart", "pkgStart", "run",
                                   "pkgEnd", "coreEnd", "print">>
<1>1. ~Setting
  BY DEF Setting
<1> QED
  BY <1>1 DEF Body

LEMMA CommandBody ==
    ASSUME run.mode = "measurecmd"
    PROVE  Body = <<"pin", "units", "coreStart", "pkgStart", "run", "coreEnd",
                    "pkgEnd", "print">>
<1>1. ~Setting
  BY DEF Setting
<1> QED
  BY <1>1 DEF Body

LEMMA ClockBody ==
    /\ run.mode = "clock" => Body = <<"pin", "run", "print">>
    /\ run.mode = "samples" => Body = <<"run", "print">>
  BY DEF Body, Setting

\* The body of a measurement, by position.
LEMMA MeterBody ==
    ASSUME Base, Metering, ~Done
    PROVE  /\ CoreStart \in 2..4 /\ Len(Body) = CoreStart + 5
           /\ at \in 1..(CoreStart + 5)
           /\ Body[at] = "coreStart" <=> at = CoreStart
           /\ Body[at] = "pkgStart" <=> at = CoreStart + 1
           /\ Body[at] = "run" <=> at = CoreStart + 2
           /\ Body[at] = "pkgEnd" <=> at = PkgEnd
           /\ Body[at] = "coreEnd" <=> at = CoreEnd
           /\ Body[at] = "print" <=> at = CoreStart + 5
           /\ Body[at] \in {"pin", "units"} <=> at < CoreStart
           /\ Body[at] \notin {"read", "write", "verify"}
<1>1. at \in 1..Len(Body) /\ core \in Nat
  BY RoundsAreNat DEF Base, TypeOK
<1>2. CASE run.mode = "power" /\ core = 0
  <2>1. Body = <<"pin", "units", "pin", "coreStart", "pkgStart", "run",
                 "pkgEnd", "coreEnd", "print">>
    BY <1>2, PowerBody
  <2>2. Len(Body) = 9 /\ at \in 1..9
    BY <1>1, <2>1
  <2>3. CoreStart = 4 /\ PkgEnd = 7 /\ CoreEnd = 8
    BY <1>2 DEF CoreStart, PkgEnd, CoreEnd
  <2>4. at \in {1, 2, 3, 4, 5, 6, 7, 8, 9}
    BY <2>2
  <2> QED
    BY <2>1, <2>2, <2>3, <2>4
<1>3. CASE run.mode = "power" /\ core # 0
  <2>1. Body = <<"pin", "coreStart", "pkgStart", "run", "pkgEnd", "coreEnd",
                 "print">>
    BY <1>3, PowerBody
  <2>2. Len(Body) = 7 /\ at \in 1..7
    BY <1>1, <2>1
  <2>3. CoreStart = 2 /\ PkgEnd = 5 /\ CoreEnd = 6
    BY <1>3 DEF CoreStart, PkgEnd, CoreEnd
  <2>4. at \in {1, 2, 3, 4, 5, 6, 7}
    BY <2>2
  <2> QED
    BY <2>1, <2>2, <2>3, <2>4
<1>4. CASE run.mode = "measurecmd"
  <2>1. Body = <<"pin", "units", "coreStart", "pkgStart", "run", "coreEnd",
                 "pkgEnd", "print">>
    BY <1>4, CommandBody
  <2>2. Len(Body) = 8 /\ at \in 1..8
    BY <1>1, <2>1
  <2>3. CoreStart = 3 /\ PkgEnd = 7 /\ CoreEnd = 6
    BY <1>4 DEF CoreStart, PkgEnd, CoreEnd
  <2>4. at \in {1, 2, 3, 4, 5, 6, 7, 8}
    BY <2>2
  <2> QED
    BY <2>1, <2>2, <2>3, <2>4
<1> QED
  BY <1>2, <1>3, <1>4 DEF Metering

\* The other bodies.
LEMMA PlainBody ==
    ASSUME Base, ~Metering, ~Done
    PROVE  /\ Body[at] \notin ReadOps \cup {"units"}
           /\ Setting => /\ Len(Body) = 4 /\ at \in 1..4
                         /\ Body[at] = "pin" <=> at = 1
                         /\ Body[at] = "read" <=> at = 2
                         /\ Body[at] = "write" <=> at = 3
                         /\ Body[at] = "verify" <=> at = 4
                         /\ Body[at] \notin {"run", "print"}
           /\ run.mode = "clock" => /\ Len(Body) = 3 /\ at \in 1..3
                                    /\ Body[at] = "pin" <=> at = 1
                                    /\ Body[at] = "run" <=> at = 2
                                    /\ Body[at] = "print" <=> at = 3
           /\ ~Setting => Body[at] \notin {"read", "write", "verify"}
           /\ run.mode = "samples" => Body[at] \in {"run", "print"}
           /\ Setting \/ run.mode \in {"clock", "samples"}
           /\ Len(Body) \in Nat
<1>1. at \in 1..Len(Body)
  BY DEF Base, TypeOK
<1>2. CASE Setting
  <2>1. at \in 1..4 /\ Len(Body) = 4
    BY <1>1, <1>2, SettingBody
  <2>2. at \in {1, 2, 3, 4}
    BY <2>1
  <2> QED
    BY <1>2, <2>1, <2>2, SettingBody DEF ReadOps, Setting
<1>3. CASE run.mode = "clock"
  <2>1. Body = <<"pin", "run", "print">>
    BY <1>3, ClockBody
  <2>2. at \in 1..3 /\ Len(Body) = 3
    BY <1>1, <2>1
  <2>3. at \in {1, 2, 3}
    BY <2>2
  <2> QED
    BY <1>3, <2>1, <2>2, <2>3 DEF ReadOps, Setting
<1>4. CASE run.mode = "samples"
  <2>1. Body = <<"run", "print">>
    BY <1>4, ClockBody
  <2>2. at \in 1..2 /\ Len(Body) = 2
    BY <1>1, <2>1
  <2>3. at \in {1, 2}
    BY <2>2
  <2> QED
    BY <1>4, <2>1, <2>2, <2>3 DEF ReadOps, Setting
<1> QED
  BY <1>2, <1>3, <1>4, RunAssumption DEF Base, TypeOK, Metering, Setting

-----------------------------------------------------------------------------
(* From one place to the next *)

\* The part of Base about where main() is.
Place == /\ core \in 0..Rounds /\ (~Done => at \in 1..Len(Body)) /\ k \in Nat
         /\ run.mode = "measurecmd" /\ ~Done => k < HardCores
         /\ KInv

LEMMA FirstLast ==
    ASSUME NEW c \in Nat
    PROVE  /\ FirstCore(c) \in Nat /\ LastCore(c) \in Nat
           /\ FirstCore(c) <= LastCore(c)
           /\ run.mode = "measurecmd" => LastCore(c) < HardCores
           /\ run.mode # "measurecmd" => FirstCore(c) = c /\ LastCore(c) = c
  BY WidthAssumption DEF FirstCore, LastCore

LEMMA BodyLength ==
    ASSUME run \in Runs
    PROVE  Len(Body) \in Nat \ {0}
<1>1. CASE Setting
  BY <1>1, SettingBody
<1>2. CASE run.mode = "power" /\ core = 0
  <2>1. Body = <<"pin", "units", "pin", "coreStart", "pkgStart", "run",
                 "pkgEnd", "coreEnd", "print">>
    BY <1>2, PowerBody
  <2> QED
    BY <2>1
<1>3. CASE run.mode = "power" /\ core # 0
  <2>1. Body = <<"pin", "coreStart", "pkgStart", "run", "pkgEnd", "coreEnd",
                 "print">>
    BY <1>3, PowerBody
  <2> QED
    BY <2>1
<1>4. CASE run.mode = "measurecmd"
  <2>1. Body = <<"pin", "units", "coreStart", "pkgStart", "run", "coreEnd",
                 "pkgEnd", "print">>
    BY <1>4, CommandBody
  <2> QED
    BY <2>1
<1>5. CASE run.mode = "clock"
  <2>1. Body = <<"pin", "run", "print">>
    BY <1>5, ClockBody
  <2> QED
    BY <2>1
<1>6. CASE run.mode = "samples"
  <2>1. Body = <<"run", "print">>
    BY <1>6, ClockBody
  <2> QED
    BY <2>1
<1> QED
  BY <1>1, <1>2, <1>3, <1>4, <1>5, <1>6, RunAssumption DEF Setting

\* Only the first core of a power run has another body.
LEMMA NextBody ==
    ASSUME Base, UNCHANGED run
    PROVE  /\ Len(Body') \in Nat \ {0}
           /\ core' = core => Body' = Body
<1>1. Len(Body) \in Nat \ {0}
  BY BodyLength DEF Base, TypeOK
<1>2. CASE run.mode # "power"
  <2>1. Body' = Body
    BY <1>2 DEF Body, Setting
  <2> QED
    BY <1>1, <2>1
<1>3. CASE run.mode = "power"
  <2>1. CASE core' = 0
    <3>1. Body' = <<"pin", "units", "pin", "coreStart", "pkgStart", "run",
                    "pkgEnd", "coreEnd", "print">>
      BY <1>3, <2>1 DEF Body, Setting
    <3>2. core = 0 => Body' = Body
      BY <1>3, <3>1, PowerBody
    <3> QED
      BY <2>1, <3>1, <3>2
  <2>2. CASE core' # 0
    <3>1. Body' = <<"pin", "coreStart", "pkgStart", "run", "pkgEnd", "coreEnd",
                    "print">>
      BY <1>3, <2>2 DEF Body, Setting
    <3>2. core # 0 => Body' = Body
      BY <1>3, <3>1, PowerBody
    <3> QED
      BY <2>2, <3>1, <3>2
  <2> QED
    BY <2>1, <2>2
<1> QED
  BY <1>2, <1>3

LEMMA Steps ==
    ASSUME Base, ~Done, NextOp, UNCHANGED <<run, online>>
    PROVE  /\ Place' /\ k' = FirstCore(core') /\ Rounds' = Rounds
           /\ \/ at < Len(Body) /\ at' = at + 1 /\ core' = core /\ Body' = Body
              \/ at = Len(Body) /\ at' = 1 /\ core' = core + 1
<1>1. Rounds' = Rounds
  BY DEF Rounds, numProcs
<1>2. core \in Nat /\ Rounds \in Nat /\ core < Rounds /\ at \in 1..Len(Body)
  BY RoundsAreNat DEF Base, TypeOK, Done
<1>3. Len(Body) \in Nat \ {0} /\ Len(Body') \in Nat \ {0}
      /\ (core' = core => Body' = Body)
  BY BodyLength, NextBody DEF Base, TypeOK
<1>4. \/ at < Len(Body) /\ at' = at + 1 /\ core' = core /\ Body' = Body
      \/ at = Len(Body) /\ at' = 1 /\ core' = core + 1
  BY <1>2, <1>3 DEF NextOp
<1>5. k' = FirstCore(core')
  BY <1>4 DEF NextOp
<1>6. core' \in Nat /\ FirstCore(core)' = FirstCore(core')
      /\ LastCore(core)' = LastCore(core')
  BY <1>2, <1>4 DEF FirstCore, LastCore
<1>7. core' \in 0..Rounds' /\ (~Done' => at' \in 1..Len(Body'))
  BY <1>1, <1>2, <1>3, <1>4
<1>8. k' \in Nat /\ (run'.mode = "measurecmd" => k' < HardCores)
  BY <1>5, <1>6, WidthAssumption DEF FirstCore
<1>9. KInv'
  BY <1>5, <1>6, FirstLast DEF KInv
<1> QED
  BY <1>1, <1>4, <1>5, <1>7, <1>8, <1>9 DEF Place

LEMMA Stays ==
    ASSUME Base, UNCHANGED <<run, online, core, at, k>>
    PROVE  /\ Place' /\ Rounds' = Rounds /\ Body' = Body /\ Done' = Done
           /\ numProcs' = numProcs
  BY DEF Place, Base, TypeOK, KInv, Done, Rounds, numProcs, Body, FirstCore, LastCore,
         Metering, Setting, CoreStart, CoreEnd

\* The mode and the CPUs do not change.
LEMMA SameRun ==
    ASSUME Next
    PROVE  UNCHANGED <<run, online>>
  BY DEF Next, Program, Pin, PinFails, OpenMsr, OpenMsrFails, ReadHwcr, WriteHwcr,
         VerifyHwcr, ReadUnits, ReadEnergy, Start, Loop, PrintRow, Consume, Ended,
         loopVars, vars

\* A step that is at an operation of the body is not at its end.
LEMMA DoingIsNotDone ==
    ASSUME Base, NEW op, Doing(op)
    PROVE  ~Done /\ Body[at] = op /\ left = 0 /\ core \in Nat
  BY RoundsAreNat DEF Base, TypeOK, Doing, Done

-----------------------------------------------------------------------------
(* Base is inductive *)

\* The part of Base about the values of the other variables.
Values == /\ run \in Runs /\ online \in Onlines /\ left \in Int
          /\ fds \in [0..(numProcs - 1) -> {NoFile, Closed, Open}]
          /\ hwcr \in [Cpus -> [off : BOOLEAN, rest : Rests]]
          /\ units \in BOOLEAN /\ failed \in BOOLEAN /\ complained \in BOOLEAN
          /\ overran \in BOOLEAN /\ faults \in 0..MaxFaults
          /\ listed \subseteq Nat /\ unpinned \subseteq Nat
          /\ FilesInv
          /\ value \in [off : BOOLEAN, rest : Rests]
          /\ energy \in [Cpus \cup {Package} -> Nat]
          /\ reading \in [ReadOps -> [reg : Nat, used : Nat]]

LEMMA TwoParts == Base <=> Place /\ Values
  BY DEF Base, Place, Values, TypeOK

LEMMA InitBase ==
    ASSUME Init
    PROVE  Base
<1>1. run \in Runs /\ online \in Onlines /\ core = 0 /\ at = 1 /\ k = 0
  BY DEF Init
<1>2. Place
  <2>1. Rounds \in Nat /\ Len(Body) \in Nat \ {0}
    BY <1>1, RoundsAreNat, BodyLength
  <2>2. KInv
    BY <1>1, FirstLast DEF KInv, FirstCore
  <2> QED
    BY <1>1, <2>1, <2>2, WidthAssumption DEF Place
<1>3. Before \in Rests
  BY BoundAssumption DEF Before
<1>4. Values
  <2>1. hwcr \in [Cpus -> [off : BOOLEAN, rest : Rests]]
    BY <1>3 DEF Init
  <2>2. NoReading \in [ReadOps -> [reg : Nat, used : Nat]]
    BY DEF NoReading, ReadOps
  <2>3. FilesInv
    BY DEF Init, FilesInv, Open, Closed
  <2>4. fds \in [0..(numProcs - 1) -> {NoFile, Closed, Open}]
    BY DEF Init
  <2>5. energy \in [Cpus \cup {Package} -> Nat] /\ reading \in [ReadOps -> [reg : Nat, used : Nat]]
    BY <2>2, BoundAssumption DEF Init
  <2>6. value \in [off : BOOLEAN, rest : Rests]
    BY <1>3 DEF Init
  <2>7. left = 0 /\ faults = 0 /\ listed = {} /\ unpinned = {}
    BY DEF Init
  <2>8. units = FALSE /\ failed = FALSE /\ complained = FALSE /\ overran = FALSE
    BY DEF Init
  <2>9. faults \in 0..MaxFaults /\ left \in Int
    BY <2>7, BoundAssumption
  <2> QED
    BY <1>1, <2>1, <2>3, <2>4, <2>5, <2>6, <2>7, <2>8, <2>9 DEF Values
<1> QED
  BY <1>2, <1>4, TwoParts

\* A fault stays within the bound.
LEMMA FaultType ==
    ASSUME Fault, faults \in 0..MaxFaults
    PROVE  faults' \in 0..MaxFaults
  BY BoundAssumption DEF Fault

LEMMA NextPlace ==
    ASSUME Base, Next
    PROVE  Place'
<1>1. UNCHANGED <<run, online>>
  BY SameRun
<1>2. CASE ~Done /\ NextOp
  BY <1>1, <1>2, Steps
<1>3. CASE UNCHANGED <<core, at, k>>
  BY <1>1, <1>3, Stays
<1>4. CASE \E op \in ReadOps : ReadEnergy(op) /\ ~NextOp
  <2>1. PICK op \in ReadOps : ReadEnergy(op) /\ ~NextOp
    BY <1>4
  <2>2. k < LastCore(core) /\ k' = k + 1 /\ core' = core /\ at' = at
        /\ Doing(op) /\ op \in {"coreStart", "coreEnd"}
    <3>1. k < LastCore(core) /\ k' = k + 1 /\ UNCHANGED <<core, at>>
          /\ op \in {"coreStart", "coreEnd"}
      BY <2>1 DEF ReadEnergy
    <3> QED
      BY <2>1, <3>1 DEF ReadEnergy
  <2>3. ~Done /\ Body[at] = op /\ core \in Nat
    BY <2>2, DoingIsNotDone
  <2>4. Metering
    BY <2>1, <2>3, PlainBody
  <2>5. at = CoreStart \/ at = CoreEnd
    BY <2>2, <2>3, <2>4, MeterBody
  <2>6. /\ Rounds' = Rounds /\ Body' = Body /\ Done' = Done /\ Metering' = Metering
        /\ FirstCore(core)' = FirstCore(core) /\ LastCore(core)' = LastCore(core)
        /\ CoreStart' = CoreStart /\ CoreEnd' = CoreEnd
    BY <1>1, <2>2 DEF Rounds, numProcs, Body, Setting, Done, Metering, FirstCore,
       LastCore, CoreStart, CoreEnd
  <2>7. FirstCore(core) <= k /\ k \in Nat /\ LastCore(core) \in Nat /\ FirstCore(core) \in Nat
        /\ (run.mode = "measurecmd" => LastCore(core) < HardCores)
    BY <2>3, FirstLast DEF Base, KInv, TypeOK
  <2>8. k' \in Nat /\ FirstCore(core) <= k' /\ k' <= LastCore(core)
        /\ (run.mode = "measurecmd" => k' < HardCores)
    BY <2>2, <2>7, WidthAssumption
  <2>9. KInv'
    BY <2>2, <2>5, <2>6, <2>8 DEF KInv
  <2> QED
    BY <1>1, <2>2, <2>3, <2>6, <2>8, <2>9 DEF Place, Base, TypeOK
<1>5. (~Done /\ NextOp) \/ UNCHANGED <<core, at, k>>
      \/ \E op \in ReadOps : ReadEnergy(op) /\ ~NextOp
  <2>1. \A op : Doing(op) => ~Done
    BY DoingIsNotDone
  <2>2. CASE \E op \in DOMAIN NoReading : ReadEnergy(op)
    BY <2>1, <2>2 DEF ReadEnergy, NoReading, ReadOps
  <2>3. CASE \/ Pin \/ PinFails \/ ReadHwcr \/ WriteHwcr \/ VerifyHwcr \/ ReadUnits
             \/ Start \/ PrintRow
    BY <2>1, <2>3 DEF Pin, PinFails, ReadHwcr, WriteHwcr, VerifyHwcr, ReadUnits,
       Start, PrintRow
  <2>4. CASE OpenMsr \/ OpenMsrFails \/ Loop \/ Consume \/ Ended
    BY <2>4 DEF OpenMsr, OpenMsrFails, Loop, Consume, Ended, loopVars, vars
  <2> QED
    BY <2>2, <2>3, <2>4 DEF Next, Program
<1> QED
  BY <1>2, <1>3, <1>4, <1>5

\* A read adds natural numbers to its sums.
LEMMA AddType ==
    ASSUME reading \in [ReadOps -> [reg : Nat, used : Nat]],
           NEW op \in ReadOps, NEW reg \in Nat, NEW used \in Nat,
           Add(op, reg, used)
    PROVE  /\ reading' \in [ReadOps -> [reg : Nat, used : Nat]]
           /\ reading'[op].reg = reading[op].reg + reg
           /\ reading'[op].used = reading[op].used + used
           /\ \A o \in ReadOps \ {op} : reading'[o] = reading[o]
<1>1. reading' = [reading EXCEPT ![op] = [reg |-> reading[op].reg + reg,
                                         used |-> reading[op].used + used]]
  <2> DEFINE old == reading[op]
             more == [reg |-> old.reg + reg, used |-> old.used]
  <2>1. old = [reg |-> old.reg, used |-> old.used]
    OBVIOUS
  <2>2. [old EXCEPT !.reg = @ + reg] = more
    BY <2>1
  <2>3. [more EXCEPT !.used = @ + used] = [reg |-> old.reg + reg, used |-> old.used + used]
    OBVIOUS
  <2> QED
    BY <2>2, <2>3 DEF Add
<1>2. reading[op].reg \in Nat /\ reading[op].used \in Nat
  OBVIOUS
<1>3. [reg |-> reading[op].reg + reg, used |-> reading[op].used + used]
        \in [reg : Nat, used : Nat]
  BY <1>2
<1> QED
  BY <1>1, <1>2, <1>3

LEMMA NextValues ==
    ASSUME Base, Next
    PROVE  Values'
<1> USE DEF loopVars, msrVars, histVars, energyVars, vars
<1>1. UNCHANGED <<run, online>> /\ numProcs' = numProcs
  BY SameRun DEF numProcs
<1>2. Values /\ online \subseteq Cpus /\ core \in Nat
  BY TwoParts, CpuAssumption, RoundsAreNat DEF Values, Place
<1>3. FilesInv' \/ fds' # fds
  BY <1>1, <1>2 DEF Values, FilesInv
<1>4. CASE Pin \/ PinFails
  BY <1>1, <1>2, <1>3, <1>4, FaultType DEF Pin, PinFails, Values
<1>5. CASE OpenMsr
  <2>1. FilesInv'
    BY <1>1, <1>2, <1>5 DEF Values, OpenMsr, FilesInv
  <2>2. fds' \in [0..(numProcs - 1) -> {NoFile, Closed, Open}]
    BY <1>2, <1>5 DEF Values, OpenMsr
  <2> QED
    BY <1>1, <1>2, <1>5, <2>1, <2>2 DEF OpenMsr, Values
<1>6. CASE OpenMsrFails
  <2>1. FilesInv'
    BY <1>1, <1>2, <1>6 DEF Values, OpenMsrFails, FilesInv, NoFile, Open
  <2>2. fds' \in [0..(numProcs - 1) -> {NoFile, Closed, Open}]
    BY <1>2, <1>6 DEF Values, OpenMsrFails
  <2> QED
    BY <1>1, <1>2, <1>6, <2>1, <2>2, FaultType DEF OpenMsrFails, Values
<1>7. CASE ReadHwcr
  <2>1. \A v \in [off : BOOLEAN, rest : Rests] : Changed(v) \in [off : BOOLEAN, rest : Rests]
    BY DEF Changed, Requested
  <2>2. HasFile(core) => hwcr[core] \in [off : BOOLEAN, rest : Rests]
    BY <1>2 DEF HasFile, FilesInv, Values
  <2>3. value' \in [off : BOOLEAN, rest : Rests]
    BY <1>7, <2>1, <2>2 DEF ReadHwcr
  <2>4. faults' \in 0..MaxFaults /\ complained' \in BOOLEAN
    BY <1>2, <1>7, FaultType DEF ReadHwcr, FileFails, Values
  <2> QED
    BY <1>1, <1>2, <1>3, <1>7, <2>3, <2>4 DEF ReadHwcr, Values
<1>8. CASE WriteHwcr
  <2>1. hwcr' \in [Cpus -> [off : BOOLEAN, rest : Rests]]
    BY <1>2, <1>8 DEF WriteHwcr, Values
  <2>2. faults' \in 0..MaxFaults /\ complained' \in BOOLEAN
    BY <1>2, <1>8, FaultType DEF WriteHwcr, FileFails, Values
  <2> QED
    BY <1>1, <1>2, <1>3, <1>8, <2>1, <2>2 DEF WriteHwcr, Values
<1>9. CASE VerifyHwcr \/ ReadUnits
  <2>1. faults' \in 0..MaxFaults /\ complained' \in BOOLEAN /\ units' \in BOOLEAN
    BY <1>2, <1>9, FaultType DEF VerifyHwcr, ReadUnits, FileFails, Values
  <2> QED
    BY <1>1, <1>2, <1>3, <1>9, <2>1 DEF VerifyHwcr, ReadUnits, Values
<1>10. CASE \E op \in DOMAIN NoReading : ReadEnergy(op)
  <2>1. PICK op \in ReadOps : ReadEnergy(op)
    BY <1>10 DEF NoReading, ReadOps
  <2> DEFINE counter == IF op \in {"coreStart", "coreEnd"} THEN k ELSE Package
  <2>2. HasFile(Wanted) => energy[counter] \in Nat /\ energy[counter] % Wrap \in Nat
    <3>1. ASSUME HasFile(Wanted), op \in {"coreStart", "coreEnd"}
          PROVE  k \in Cpus
      <4>1. Wanted = k
        BY <2>1, <3>1 DEF Wanted, ReadEnergy
      <4> QED
        BY <1>2, <3>1, <4>1 DEF HasFile, FilesInv, Values
    <3>2. HasFile(Wanted) => energy[counter] \in Nat
      BY <1>2, <3>1 DEF Values
    <3> QED
      BY <3>2, WidthAssumption
  <2>3. reading' \in [ReadOps -> [reg : Nat, used : Nat]]
    <3>1. \E reg, used \in Nat : Add(op, reg, used)
      <4>1. CASE HasFile(Wanted) /\ Add(op, energy[counter] % Wrap, energy[counter])
        BY <2>2, <4>1
      <4>2. CASE \E junk \in 0..(Wrap - 1) : Add(op, junk, 0)
        BY <4>2, WidthAssumption
      <4> QED
        BY <2>1, <4>1, <4>2 DEF ReadEnergy
    <3> QED
      BY <1>2, <3>1, AddType DEF Values
  <2>4. faults' \in 0..MaxFaults /\ complained' \in BOOLEAN /\ failed' \in BOOLEAN
        /\ overran' \in BOOLEAN
    BY <1>2, <2>1, FaultType DEF ReadEnergy, FileFails, Values
  <2>5. UNCHANGED <<left, hwcr, value, fds, energy, units, listed, unpinned>>
    BY <2>1 DEF ReadEnergy
  <2> QED
    BY <1>1, <1>2, <1>3, <2>3, <2>4, <2>5 DEF Values
<1>11. CASE Start \/ Loop
  <2>1. left' \in Int
    BY <1>2, <1>11, RunAssumption DEF Start, Loop, Countdown, Values
  <2> QED
    BY <1>1, <1>2, <1>3, <1>11, <2>1 DEF Start, Loop, Values
<1>12. CASE PrintRow
  <2>1. NoReading \in [ReadOps -> [reg : Nat, used : Nat]]
    BY DEF NoReading, ReadOps
  <2> QED
    BY <1>1, <1>2, <1>3, <1>12, <2>1 DEF PrintRow, Values
<1>13. CASE Consume
  <2>1. energy' \in [Cpus \cup {Package} -> Nat]
    BY <1>2, <1>13 DEF Consume, Values
  <2> QED
    BY <1>1, <1>2, <1>3, <1>13, <2>1 DEF Consume, Values
<1>14. CASE UNCHANGED vars
  BY <1>1, <1>2, <1>3, <1>14 DEF Values
<1> QED
  BY <1>4, <1>5, <1>6, <1>7, <1>8, <1>9, <1>10, <1>11, <1>12, <1>13, <1>14
     DEF Next, Program, Ended

LEMMA StutterBase ==
    ASSUME Base, UNCHANGED vars
    PROVE  Base'
  BY ZenonT(40) DEF Base, TypeOK, KInv, FilesInv, vars, loopVars, msrVars, histVars, energyVars,
     Done, Rounds, numProcs, Body, FirstCore, LastCore, Metering, Setting, CoreStart,
     CoreEnd

LEMMA NextBase ==
    ASSUME Base, [Next]_vars
    PROVE  Base'
<1>1. CASE Next
  <2>1. Place' /\ Values'
    BY <1>1, NextPlace, NextValues
  <2> QED
    BY <2>1 DEF Base, Place, Values, TypeOK
<1> QED
  BY <1>1, StutterBase

LEMMA BaseAlways == Spec => []Base
<1>1. Init => Base
  BY InitBase
<1>2. Base /\ [Next]_vars => Base'
  BY NextBase
<1> QED
  BY <1>1, <1>2, PTL DEF Spec

(* main() stays within the cores, the body and the array of files, for any   *)
(* number of processors, and never writes anything but a value of HWCR.      *)
THEOREM TypeIsKept == Spec => []TypeOK
<1>1. Base => TypeOK
  BY DEF Base
<1> QED
  BY <1>1, BaseAlways, PTL

-----------------------------------------------------------------------------
(* The rows *)

Listing == run.mode \in {"power", "clock"}

RowsInv ==
    Listing =>
        /\ listed = 0..(core - 1)
        /\ \A c \in 0..(core - 1) : c \in unpinned \/ c \in online
        /\ ~Done /\ at > 1 /\ core \notin unpinned => pinned = core /\ core \in online

\* Their bodies begin with setAffinity() and end with the row.
LEMMA ListingBody ==
    ASSUME Base, ~Done, Listing
    PROVE  /\ at = 1 => Body[at] = "pin"
           /\ at = Len(Body) <=> Body[at] = "print"
<1>1. CASE run.mode = "power"
  <2>1. at = Len(Body) <=> Body[at] = "print"
    BY <1>1, MeterBody DEF Metering
  <2> QED
    BY <1>1, <2>1, PowerBody
<1>2. CASE run.mode = "clock"
  <2>1. ~Metering
    BY <1>2 DEF Metering
  <2> QED
    BY <1>2, <2>1, PlainBody
<1> QED
  BY <1>1, <1>2 DEF Listing

\* A row and an affinity are only written where the body says so.
LEMMA OnlyThere ==
    ASSUME Base, Next
    PROVE  /\ Pin \/ PinFails \/ UNCHANGED <<pinned, unpinned>>
           /\ PrintRow \/ listed' = listed
  BY DEF Next, Program, Pin, PinFails, OpenMsr, OpenMsrFails, ReadHwcr, WriteHwcr,
         VerifyHwcr, ReadUnits, ReadEnergy, Start, Loop, PrintRow, Consume, Ended,
         loopVars, histVars, energyVars, vars

\* Every step either stays at its operation, or ends one.
LEMMA StepOrStay ==
    ASSUME Base, Next
    PROVE  \/ UNCHANGED <<core, at>> /\ ~Pin /\ ~PinFails /\ ~PrintRow /\ ~Start
           \/ /\ ~Done /\ NextOp
              /\ \/ Pin \/ PinFails \/ PrintRow
                 \/ \E op \in ReadOps : ReadEnergy(op) /\ Doing(op)
                 \/ \E op \in {"read", "write", "verify", "units", "run"} : Doing(op)
<1>1. \A op : Doing(op) => ~Done /\ Body[at] = op /\ at \in 1..Len(Body) /\ core \in Nat
              /\ Len(Body) \in Nat
  BY DoingIsNotDone, BodyLength DEF Base, TypeOK
<1>2. ASSUME UNCHANGED <<core, at>>, NextOp, ~Done
      PROVE  FALSE
  <2>1. at \in 1..Len(Body) /\ core \in Nat /\ Len(Body) \in Nat
    BY <1>2, BodyLength, RoundsAreNat DEF Base, TypeOK
  <2> QED
    BY <1>2, <2>1 DEF NextOp
<1>3. CASE \E op \in DOMAIN NoReading : ReadEnergy(op)
  <2>1. PICK op \in ReadOps : ReadEnergy(op)
    BY <1>3 DEF NoReading, ReadOps
  <2>2. Doing(op)
    BY <2>1 DEF ReadEnergy
  <2>3. ~Pin /\ ~PinFails /\ ~PrintRow /\ ~Start
    BY <1>1, <2>2 DEF Pin, PinFails, PrintRow, Start, ReadOps
  <2> QED
    BY <1>1, <2>1, <2>2, <2>3 DEF ReadEnergy, ReadOps
<1>4. CASE \/ Pin \/ PinFails \/ ReadHwcr \/ WriteHwcr \/ VerifyHwcr \/ ReadUnits
           \/ Start \/ PrintRow
  BY <1>1, <1>4 DEF Pin, PinFails, ReadHwcr, WriteHwcr, VerifyHwcr, ReadUnits, Start,
     PrintRow
<1>5. CASE OpenMsr \/ OpenMsrFails \/ Loop \/ Consume \/ Ended
  <2>1. UNCHANGED <<core, at>>
    BY <1>5 DEF OpenMsr, OpenMsrFails, Loop, Consume, Ended, loopVars, vars
  <2> QED
    BY <1>1, <1>2, <2>1 DEF Pin, PinFails, PrintRow, Start
<1> QED
  BY <1>3, <1>4, <1>5 DEF Next, Program

LEMMA NextRows ==
    ASSUME Base, RowsInv, [Next]_vars
    PROVE  RowsInv'
<1>1. CASE Next
  <2>1. UNCHANGED <<run, online>> /\ core \in Nat
    BY <1>1, SameRun, RoundsAreNat DEF Base, TypeOK
  <2> SUFFICES ASSUME Listing
      PROVE  RowsInv'
    BY <2>1 DEF RowsInv, Listing
  <2>2. Rounds' = Rounds /\ Rounds \in Nat
    BY <2>1, RoundsAreNat DEF Base, TypeOK, Rounds, numProcs
  <2>3. CASE UNCHANGED <<core, at>> /\ ~Pin /\ ~PinFails /\ ~PrintRow
    <3>1. UNCHANGED <<listed, pinned, unpinned>>
      BY <1>1, <2>3, OnlyThere
    <3> QED
      BY <2>1, <2>2, <2>3, <3>1 DEF RowsInv, Done, Listing
  <2>4. CASE ~Done /\ NextOp /\ (Pin \/ PinFails)
    <3>1. Body[at] = "pin" /\ at \in Nat
      BY <2>4, DoingIsNotDone, BodyLength DEF Pin, PinFails, Base, TypeOK
    <3>2. at # Len(Body)
      BY <2>4, <3>1, ListingBody
    <3>3. core' = core
      BY <2>1, <2>4, <3>2, Steps
    <3>4. listed' = listed /\ (core \in unpinned' \/ (pinned' = core /\ core \in online))
          /\ unpinned \subseteq unpinned'
      BY <2>4 DEF Pin, PinFails, histVars
    <3> QED
      BY <2>1, <2>2, <3>3, <3>4 DEF RowsInv, Done, Listing
  <2>5. CASE ~Done /\ NextOp /\ PrintRow
    <3>1. Body[at] = "print" /\ at \in Nat /\ Len(Body) \in Nat
      BY <2>5, DoingIsNotDone, BodyLength DEF PrintRow, Base, TypeOK
    <3>2. at = Len(Body) /\ at > 1
      BY <2>5, <3>1, ListingBody DEF Base, TypeOK
    <3>3. core' = core + 1 /\ at' = 1
      BY <2>1, <2>5, <3>1, <3>2, Steps
    <3>4. listed' = listed \cup {core} /\ UNCHANGED <<pinned, unpinned>>
      BY <2>5 DEF PrintRow, histVars
    <3>5. core \in unpinned \/ core \in online
      BY <2>5, <3>2 DEF RowsInv
    <3>6. listed' = 0..core
      BY <2>1, <3>4 DEF RowsInv
    <3> QED
      BY <2>1, <3>3, <3>4, <3>5, <3>6 DEF RowsInv, Listing
  <2>6. CASE /\ ~Done /\ NextOp /\ ~Pin /\ ~PinFails /\ ~PrintRow
             /\ \E op \in ReadOps \cup {"read", "write", "verify", "units", "run"} : Doing(op)
    <3>1. UNCHANGED <<listed, pinned, unpinned>>
      BY <1>1, <2>6, OnlyThere
    <3>2. at = 1 \/ Body[at] = "print" => FALSE
      <4>1. PICK op : Doing(op) /\ op \notin {"pin", "print"}
        BY <2>6 DEF ReadOps
      <4> QED
        BY <2>6, <4>1, DoingIsNotDone, ListingBody
    <3>3. at' = at + 1 /\ core' = core /\ at > 1
      BY <2>1, <2>6, <3>2, Steps, ListingBody DEF Base, TypeOK
    <3> QED
      BY <2>1, <2>2, <2>6, <3>1, <3>3 DEF RowsInv, Done, Listing
  <2> QED
    BY <1>1, <2>3, <2>4, <2>5, <2>6, StepOrStay
<1>2. CASE UNCHANGED vars
  BY <1>2 DEF RowsInv, Listing, Done, Rounds, numProcs, vars, loopVars, histVars
<1> QED
  BY <1>1, <1>2

LEMMA RowsHold ==
    ASSUME Base, RowsInv
    PROVE  RowsAreTheCores
<1>1. ASSUME Doing("print"), Listing, core \notin unpinned
      PROVE  pinned = core
  <2>1. ~Done /\ Body[at] = "print"
    BY <1>1, DoingIsNotDone
  <2>2. at > 1
    BY <1>1, <2>1, ListingBody DEF Base, TypeOK
  <2> QED
    BY <1>1, <2>1, <2>2 DEF RowsInv
<1>2. ASSUME Done, Listing, unpinned = {}
      PROVE  listed = online
  <2>1. core = numProcs /\ numProcs \in Nat
    BY <1>2, RoundsAreNat, SomeProcs DEF Base, TypeOK, Done, Listing
  <2>2. 0..(numProcs - 1) \subseteq online
    BY <1>2, <2>1 DEF RowsInv
  <2>3. online = 0..(numProcs - 1)
    BY <2>2, AllOnline DEF Base, TypeOK
  <2> QED
    BY <1>2, <2>1, <2>3 DEF RowsInv
<1> QED
  BY <1>1, <1>2 DEF RowsAreTheCores, Listing

(* Without a message about affinity, power and clock print a row for every   *)
(* core that is online, and each from that core, for any set of CPUs.        *)
THEOREM RowsOfTheCores == Spec => []RowsAreTheCores
<1>1. Init => RowsInv
  BY RoundsAreNat DEF Init, RowsInv
<1>2. Base /\ RowsInv /\ [Next]_vars => RowsInv'
  BY NextRows
<1>3. Base /\ RowsInv => RowsAreTheCores
  BY RowsHold
<1> QED
  BY <1>1, <1>2, <1>3, BaseAlways, PTL DEF Spec

-----------------------------------------------------------------------------
(* The array of files *)

Small == run.mode = "measurecmd" /\ run.amd /\ numProcs < HardCores

FdsInv == /\ overran => Small
          /\ Small /\ (core > 0 \/ at > CoreStart) => overran

\* What is read is the file of a core main() knows of, unless HardCores is
\* more than that.
LEMMA WantedKnown ==
    ASSUME Base, ~Done, ~Small
    PROVE  Wanted \in DOMAIN fds \/ ~Metering
<1>1. numProcs \in Nat \ {0} /\ core \in Nat /\ k \in Nat /\ DOMAIN fds = 0..(numProcs - 1)
  BY SomeProcs, RoundsAreNat DEF Base, TypeOK
<1>2. CASE run.mode = "measurecmd"
  <2>1. k < HardCores /\ (~run.amd => k = 0)
    BY <1>1, <1>2 DEF Base, TypeOK, KInv, FirstCore, LastCore
  <2>2. k < numProcs
    BY <1>1, <1>2, <2>1, WidthAssumption DEF Small
  <2> QED
    BY <1>1, <1>2, <2>2 DEF Wanted
<1>3. CASE run.mode = "power"
  <2>1. k = core
    BY <1>1, <1>3 DEF Base, KInv, FirstCore, LastCore
  <2>2. core < numProcs
    BY <1>1, <1>3, RoundsAreNat DEF Base, TypeOK, Done
  <2> QED
    BY <1>1, <1>3, <2>1, <2>2 DEF Wanted
<1> QED
  BY <1>2, <1>3 DEF Metering

LEMMA NextFds ==
    ASSUME Base, FdsInv, [Next]_vars
    PROVE  FdsInv'
<1>1. CASE Next
  <2>1. UNCHANGED <<run, online>> /\ core \in Nat /\ Small' = Small
    BY <1>1, SameRun, RoundsAreNat DEF Base, TypeOK, Small, numProcs
  <2>2. CASE \E op \in DOMAIN NoReading : ReadEnergy(op)
    <3>1. PICK op \in ReadOps : ReadEnergy(op)
      BY <2>2 DEF NoReading, ReadOps
    <3>2. ~Done /\ Body[at] = op /\ overran' = (overran \/ Wanted \notin DOMAIN fds)
          /\ Doing(op)
      BY <3>1, DoingIsNotDone DEF ReadEnergy
    <3>3. Metering
      BY <3>1, <3>2, PlainBody
    <3>4. overran' => Small
      BY <3>2, <3>3, WantedKnown DEF FdsInv
    <3>5. ASSUME Small, core' > 0 \/ at' > CoreStart'
          PROVE  overran'
      <4>1. run.mode = "measurecmd" /\ CoreStart = 3 /\ CoreStart' = 3 /\ at \in Nat
            /\ Len(Body) = 8
        BY <2>1, <3>2, <3>3, <3>5, MeterBody DEF Small, CoreStart, Base, TypeOK
      <4>2. CASE k < LastCore(core) /\ op \in {"coreStart", "coreEnd"}
        <5>1. core' = core /\ at' = at
          BY <3>1, <4>2 DEF ReadEnergy
        <5> QED
          BY <3>2, <3>5, <4>1, <5>1 DEF FdsInv
      <4>3. CASE op = "coreStart" /\ ~(k < LastCore(core))
        <5>1. k = HardCores - 1 /\ Wanted = k
          BY <2>1, <3>2, <3>5, <4>3, WidthAssumption
             DEF Small, Base, TypeOK, KInv, LastCore, FirstCore, Wanted
        <5>2. k \notin DOMAIN fds
          BY <3>5, <5>1, SomeProcs, WidthAssumption DEF Small, Base, TypeOK
        <5> QED
          BY <3>2, <5>1, <5>2
      <4>4. CASE op # "coreStart"
        <5>1. at # CoreStart
          BY <3>2, <3>3, <4>4, MeterBody
        <5>2. at > CoreStart
          BY <3>1, <3>2, <3>3, <4>1, <4>4, <5>1, MeterBody DEF ReadOps
        <5> QED
          BY <3>2, <3>5, <5>2 DEF FdsInv
      <4> QED
        BY <3>1, <4>2, <4>3, <4>4
    <3> QED
      BY <2>1, <3>4, <3>5 DEF FdsInv
  <2>3. CASE ~\E op \in DOMAIN NoReading : ReadEnergy(op)
    <3>1. overran' = overran
      BY <1>1, <2>3
         DEF Next, Program, Pin, PinFails, OpenMsr, OpenMsrFails, ReadHwcr, WriteHwcr,
             VerifyHwcr, ReadUnits, Start, Loop, PrintRow, Consume, Ended, histVars, vars
    <3>2. ASSUME Small, core' > 0 \/ at' > CoreStart'
          PROVE  core > 0 \/ at > CoreStart
      <4>1. run.mode = "measurecmd" /\ CoreStart = 3 /\ CoreStart' = 3
        BY <2>1, <3>2 DEF Small, CoreStart
      <4>2. CASE UNCHANGED <<core, at>>
        BY <3>2, <4>1, <4>2
      <4>3. CASE /\ ~Done /\ NextOp
                 /\ \/ Pin \/ PinFails \/ PrintRow
                    \/ \E op \in ReadOps : ReadEnergy(op) /\ Doing(op)
                    \/ \E op \in {"read", "write", "verify", "units", "run"} : Doing(op)
        <5>1. at \in 1..8 /\ Len(Body) = 8 /\ Metering
          BY <4>1, <4>3, MeterBody DEF Metering
        <5>2. at # 3
          <6>1. PICK op : Doing(op) /\ op # "coreStart"
            BY <2>3, <4>3 DEF Pin, PinFails, PrintRow, ReadOps, NoReading
          <6> QED
            BY <4>1, <4>3, <5>1, <6>1, MeterBody, DoingIsNotDone
        <5> QED
          BY <2>1, <3>2, <4>1, <4>3, <5>1, <5>2, Steps
      <4> QED
        BY <1>1, <4>2, <4>3, StepOrStay
    <3> QED
      BY <2>1, <3>1, <3>2 DEF FdsInv
  <2> QED
    BY <2>2, <2>3
<1>2. CASE UNCHANGED vars
  BY <1>2 DEF FdsInv, Small, numProcs, CoreStart, vars, loopVars, histVars
<1> QED
  BY <1>1, <1>2

(* measurecmd uses msrFds beyond its end exactly on AMD processors with      *)
(* fewer CPUs than the 16 cores it sums up, whatever 16 is.                  *)
THEOREM FdsAreTooFewOnlyThere == Spec => []FdsHoldTheCores
<1>1. Init => FdsInv
  BY DEF Init, FdsInv, Small, CoreStart
<1>2. Base /\ FdsInv /\ [Next]_vars => FdsInv'
  BY NextFds
<1>3. Base /\ FdsInv => FdsHoldTheCores
  BY RoundsAreNat DEF Base, TypeOK, FdsInv, FdsHoldTheCores, Small, Done, Rounds
<1> QED
  BY <1>1, <1>2, <1>3, BaseAlways, PTL DEF Spec

-----------------------------------------------------------------------------
(* The boost bit *)

\* Without a message: what was read is what was there, and what was verified
\* is set.
BoostInv ==
    ~complained =>
        /\ \A c \in Cpus : hwcr[c].rest = Before
        /\ Setting => \A c \in 0..(core - 1) : c \in online /\ hwcr[c].off = Requested
        /\ Setting /\ ~Done /\ at \in {3, 4} =>
              value.off = Requested /\ value.rest = Before

\* HWCR, what is to be written to it, and messages.
LEMMA MsrOnlyThere ==
    ASSUME Next
    PROVE  /\ complained => complained'
           /\ ReadHwcr \/ value' = value
           /\ WriteHwcr \/ hwcr' = hwcr
<1> USE DEF loopVars, msrVars, histVars, vars
<1>1. CASE \/ Pin \/ PinFails \/ OpenMsr \/ OpenMsrFails \/ Start \/ Loop \/ PrintRow
           \/ Consume \/ Ended
  BY <1>1 DEF Pin, PinFails, OpenMsr, OpenMsrFails, Start, Loop, PrintRow, Consume,
     Ended
<1>2. CASE \E op \in DOMAIN NoReading : ReadEnergy(op)
  BY <1>2 DEF ReadEnergy, FileFails
<1>3. CASE ReadHwcr \/ WriteHwcr
  BY <1>3 DEF ReadHwcr, WriteHwcr, FileFails
<1>4. CASE ReadUnits
  BY <1>4 DEF ReadUnits, FileFails
<1>5. CASE VerifyHwcr
  <2>1. complained' = (complained \/ ~TookEffect(hwcr[core], value)) \/ complained' = TRUE
    BY <1>5 DEF VerifyHwcr, FileFails
  <2>2. complained => complained'
    BY <2>1
  <2> QED
    BY <1>5, <2>2 DEF VerifyHwcr
<1> QED
  BY <1>1, <1>2, <1>3, <1>4, <1>5 DEF Next, Program

LEMMA NextBoost ==
    ASSUME Base, BoostInv, [Next]_vars
    PROVE  BoostInv'
<1>1. CASE Next
  <2>1. /\ UNCHANGED <<run, online>> /\ core \in Nat /\ Setting' = Setting
        /\ Requested' = Requested /\ Rounds' = Rounds
    BY <1>1, SameRun, RoundsAreNat DEF Base, TypeOK, Setting, Requested, Rounds, numProcs
  <2> SUFFICES ASSUME ~complained'
      PROVE  BoostInv'
    BY DEF BoostInv
  <2>2. ~complained
    BY <1>1, MsrOnlyThere
  <2>3. \A op : Doing(op) => ~Done /\ Body[at] = op /\ left = 0 /\ core \in Nat
    BY DoingIsNotDone
  <2>4. Setting => Len(Body) = 4 /\ (~Done => at \in 1..4)
    BY SettingBody DEF Base, TypeOK
  <2>5. CASE ReadHwcr
    <3>1. ~Done /\ Setting /\ at = 2 /\ Body[at] = "read"
      BY <2>3, <2>5, PlainBody, MeterBody DEF ReadHwcr
    <3>2. core' = core /\ at' = 3
      <4>1. NextOp
        BY <2>5 DEF ReadHwcr
      <4> QED
        BY <2>1, <2>4, <3>1, <4>1, Steps
    <3>3. HasFile(core) /\ value' = Changed(hwcr[core]) /\ hwcr' = hwcr
      BY <2>5 DEF ReadHwcr, FileFails
    <3>4. core \in Cpus /\ hwcr[core] \in [off : BOOLEAN, rest : Rests]
      BY <3>3, CpuAssumption DEF HasFile, Base, FilesInv, TypeOK
    <3>5. value'.off = Requested /\ value'.rest = Before
      BY <2>2, <3>3, <3>4 DEF Changed, BoostInv
    <3> QED
      BY <2>1, <2>2, <3>2, <3>3, <3>5 DEF BoostInv
  <2>6. CASE WriteHwcr
    <3>1. ~Done /\ Setting /\ at = 3 /\ Body[at] = "write"
      BY <2>3, <2>6, PlainBody, MeterBody DEF WriteHwcr
    <3>2. core' = core /\ at' = 4
      BY <2>1, <2>4, <2>6, <3>1, Steps DEF WriteHwcr
    <3>3. value' = value /\ value.off = Requested /\ value.rest = Before
      BY <2>2, <2>6, <3>1 DEF WriteHwcr, BoostInv
    <3>4. hwcr' = hwcr \/ hwcr' = [hwcr EXCEPT ![core] = value]
      BY <2>6 DEF WriteHwcr
    <3>5. hwcr \in [Cpus -> [off : BOOLEAN, rest : Rests]]
      BY DEF Base, TypeOK
    <3>6. \A c \in Cpus : hwcr'[c].rest = Before
      BY <2>2, <3>3, <3>4, <3>5 DEF BoostInv
    <3>7. ASSUME NEW c \in 0..(core - 1)
          PROVE  c \in online /\ hwcr'[c].off = Requested
      <4>1. c \in online /\ hwcr[c].off = Requested /\ c \in Cpus
        BY <2>2, <3>1, <3>7, CpuAssumption DEF BoostInv, Base, TypeOK
      <4> QED
        BY <3>3, <3>4, <3>5, <4>1
    <3> QED
      BY <2>1, <2>2, <3>2, <3>3, <3>6, <3>7 DEF BoostInv
  <2>7. CASE VerifyHwcr
    <3>1. ~Done /\ Setting /\ at = 4 /\ Body[at] = "verify"
      BY <2>3, <2>7, PlainBody, MeterBody DEF VerifyHwcr
    <3>2. core' = core + 1 /\ at' = 1
      <4>1. NextOp
        BY <2>7 DEF VerifyHwcr
      <4>2. Len(Body) = 4 /\ at = 4
        BY <2>4, <3>1
      <4> QED
        BY <2>1, <3>1, <4>1, <4>2, Steps
    <3>3. HasFile(core) /\ hwcr[core] = value /\ value.off = Requested /\ hwcr' = hwcr
      BY <2>2, <2>7, <3>1 DEF VerifyHwcr, FileFails, TookEffect, BoostInv, msrVars
    <3>4. core \in online
      BY <3>3 DEF HasFile, Base, FilesInv
    <3>5. \A c \in 0..(core' - 1) : c \in online /\ hwcr'[c].off = Requested
      BY <2>1, <2>2, <3>1, <3>2, <3>3, <3>4 DEF BoostInv
    <3> QED
      BY <2>1, <2>2, <3>2, <3>3, <3>5 DEF BoostInv
  <2>8. CASE ~ReadHwcr /\ ~WriteHwcr /\ ~VerifyHwcr
    <3>1. UNCHANGED <<value, hwcr>>
      BY <1>1, <2>8, MsrOnlyThere
    <3>2. CASE ~Setting \/ UNCHANGED <<core, at>>
      <4>1. CASE ~Setting
        BY <2>1, <2>2, <3>1, <4>1 DEF BoostInv
      <4>2. CASE UNCHANGED <<core, at>>
        BY <2>1, <2>2, <3>1, <4>2 DEF BoostInv, Done
      <4> QED
        BY <3>2, <4>1, <4>2
    <3>3. CASE Setting /\ ~Done /\ NextOp /\ ~UNCHANGED <<core, at>>
      <4>1. ~Metering
        BY <3>3 DEF Metering, Setting
      <4>2. Body[at] \in {"pin", "read", "write", "verify"} /\ at \in 1..4
        BY <3>3, <4>1, PlainBody
      <4>3. Pin \/ PinFails
        BY <1>1, <2>8, <3>3, <4>1, <4>2, <2>3, PlainBody
           DEF Next, Program, OpenMsr, OpenMsrFails, ReadUnits, ReadEnergy, Start,
               Loop, PrintRow, Consume, Ended, ReadOps, NoReading, loopVars, vars
      <4>4. at = 1
        BY <2>3, <3>3, <4>1, <4>3, PlainBody DEF Pin, PinFails
      <4>5. core' = core /\ at' = 2
        BY <2>1, <2>4, <3>3, <4>4, Steps
      <4> QED
        BY <2>1, <2>2, <3>1, <4>5 DEF BoostInv
    <3> QED
      BY <1>1, <3>2, <3>3, StepOrStay
  <2> QED
    BY <2>5, <2>6, <2>7, <2>8
<1>2. CASE UNCHANGED vars
  BY <1>2 DEF BoostInv, Setting, Requested, Done, Rounds, numProcs, vars, loopVars,
     msrVars, histVars
<1> QED
  BY <1>1, <1>2

LEMMA BoostHolds ==
    ASSUME Base, BoostInv
    PROVE  BoostIsSet
<1>1. ASSUME Setting, Done, ~complained
      PROVE  \A c \in online : hwcr[c].off = Requested
  <2>1. core = numProcs /\ numProcs \in Nat
    BY <1>1, RoundsAreNat, SomeProcs DEF Base, TypeOK, Done, Setting
  <2>2. \A c \in 0..(numProcs - 1) : c \in online /\ hwcr[c].off = Requested
    BY <1>1, <2>1 DEF BoostInv
  <2>3. online = 0..(numProcs - 1)
    BY <2>2, AllOnline DEF Base, TypeOK
  <2> QED
    BY <2>2, <2>3
<1>2. complained \in BOOLEAN
  BY DEF Base, TypeOK
<1> QED
  BY <1>1, <1>2 DEF BoostIsSet, BoostInv

(* disableboost and enableboost without a message have set the bit of every  *)
(* core that is online, and nothing else was ever changed without one, for   *)
(* any set of CPUs and any number of failing reads and writes.               *)
THEOREM BoostIsSetOrSaid == Spec => []BoostIsSet
<1>1. Init => BoostInv
  <2>1. Init => core = 0 /\ at = 1 /\ \A c \in Cpus : hwcr[c].rest = Before
    BY DEF Init
  <2> QED
    BY <2>1 DEF BoostInv
<1>2. Base /\ BoostInv /\ [Next]_vars => BoostInv'
  BY NextBoost
<1>3. Base /\ BoostInv => BoostIsSet
  BY BoostHolds
<1> QED
  BY <1>1, <1>2, <1>3, BaseAlways, PTL DEF Spec

-----------------------------------------------------------------------------
(* Division with remainder *)

LEMMA DivMod ==
    ASSUME NEW a \in Int, NEW n \in Nat \ {0}
    PROVE  /\ a \div n \in Int /\ a % n \in 0..(n - 1)
           /\ a = n * (a \div n) + (a % n)
           /\ a >= 0 => a \div n >= 0
  OBVIOUS
LEMMA Uniq ==
    ASSUME NEW n \in Nat \ {0}, NEW q \in Int, NEW p \in Int, NEW r \in 0..(n-1), NEW s \in 0..(n-1),
      n*q + r = n*p + s
    PROVE  q = p /\ r = s
<1>1. n*(q-p) = s - r
  OBVIOUS
<1>2. CASE q - p >= 1
  <2>1. n * (q-p) >= n
   BY <1>2
  <2> QED BY <1>1, <2>1
<1>3. CASE q - p <= -1
  <2>1. n * (q-p) <= -n
   BY <1>3
  <2> QED BY <1>1, <2>1
<1> QED BY <1>1, <1>2, <1>3

LEMMA DivMono ==
    ASSUME NEW n \in Nat \ {0}, NEW a \in Nat, NEW b \in Nat, a <= b
    PROVE  a \div n <= b \div n
<1>1. a = n * (a \div n) + (a % n) /\ a % n \in 0..(n-1) /\ a \div n \in Int
  BY DivMod
<1>2. b = n * (b \div n) + (b % n) /\ b % n \in 0..(n-1) /\ b \div n \in Int
  BY DivMod
<1> DEFINE p == a \div n  q == b \div n
<1> HIDE DEF p, q
<1>3. SUFFICES ASSUME p >= q + 1 PROVE FALSE
  BY <1>1, <1>2 DEF p, q
<1>4. n * (p - q) >= n
  BY <1>1, <1>2, <1>3 DEF p, q
<1>5. n * p - n * q >= n
  BY <1>1, <1>2, <1>4 DEF p,q
<1> QED
  BY <1>1, <1>2, <1>5 DEF p,q
LEMMA ModShift ==
    ASSUME NEW n \in Nat \ {0}, NEW a \in Int, NEW j \in Int
    PROVE  (a + n * j) % n = a % n
<1> DEFINE b == a + n * j
<1>1. b \in Int
  OBVIOUS
<1> HIDE DEF b
<1>2. a = n * (a \div n) + (a % n) /\ a % n \in 0..(n-1) /\ a \div n \in Int
  BY DivMod
<1>3. b = n * (b \div n) + (b % n) /\ b % n \in 0..(n-1) /\ b \div n \in Int
  BY <1>1, DivMod
<1>4. n * ((a \div n) + j) + (a % n) = n * (b \div n) + (b % n)
  <2>1. n * ((a \div n) + j) = n * (a \div n) + n * j
    BY <1>2
  <2> QED BY <2>1, <1>2, <1>3 DEF b
<1> DEFINE q == (a \div n) + j
           r == a % n
           p == b \div n
           t == b % n
<1>5. q \in Int /\ p \in Int /\ r \in 0..(n-1) /\ t \in 0..(n-1) /\ n*q + r = n*p + t
  BY <1>2, <1>3, <1>4
<1> HIDE DEF q, r, p, t
<1>6. r = t
  BY <1>5, Uniq
<1> QED BY <1>6 DEF b, r, t

\* A sum of n-bounded registers and of what was consumed; and what a difference
\* of such sums says of the consumption.
Sums(n, reg, used, wraps) == used = reg + n * wraps
Shows(n, wide, i, u, bound) == /\ u < n => i % wide = u \/ i % wide >= wide - bound
                               /\ (i % wide) % n = u % n

LEMMA Shown ==
    ASSUME NEW n \in Nat \ {0}, NEW wide \in Nat, NEW B \in Nat,
           wide % n = 0, 2 * B < wide, n <= B,
           NEW sReg \in Nat, NEW sUsed \in Nat, NEW w \in Nat, Sums(n, sReg, sUsed, w),
           NEW eReg \in Nat, NEW eUsed \in Nat, NEW r \in Nat, Sums(n, eReg, eUsed, r),
           w <= r, sUsed <= eUsed, sReg <= B
    PROVE  Shows(n, wide, eReg - sReg, eUsed - sUsed, B)
<1> DEFINE i == eReg - sReg
           d == i % wide
           u == eUsed - sUsed
<1>1. u = i + n * (r - w) /\ u \in Nat /\ i \in Int
  BY DEF u, Sums
<1>2. wide \in Nat \ {0}
  OBVIOUS
<1>3. i = wide * (i \div wide) + d /\ d \in 0..(wide - 1) /\ i \div wide \in Int
  BY <1>1, <1>2, DivMod
<1>4. wide = n * (wide \div n) /\ wide \div n \in Int
  BY <1>2, DivMod
<1> DEFINE c == i \div wide
           z == wide \div n
<1>5. wide = n * z /\ z \in Int /\ c \in Int /\ i = wide * c + d /\ d \in Nat
  BY <1>3, <1>4
<1> HIDE DEF i, d, u, c, z
<1>6. d % n = u % n
  <2>1. wide * c = n * (z * c)
    BY <1>5
  <2>2. u = d + n * ((z * c) + (r - w))
    BY <1>1, <1>5, <2>1
  <2> DEFINE j == (z * c) + (r - w)
  <2>3. j \in Int /\ u = d + n * j
    BY <1>5, <2>2
  <2> HIDE DEF j
  <2>4. d \in Int /\ j \in Int /\ n \in Nat \ {0}
    BY <1>5, <2>3
  <2>5. (d + n * j) % n = d % n
    BY <2>4, ModShift, Zenon
  <2> QED
    BY <2>3, <2>5
<1>7. ASSUME u < n
      PROVE  d = u \/ d >= wide - B
  <2>1. CASE r = w
    <3>1. i = u
      BY <1>1, <2>1
    <3>2. wide * 0 + i = wide * c + d /\ i \in 0..(wide - 1)
      BY <1>1, <1>3, <1>5, <1>7, <3>1
    <3>3. i = d
      BY <1>2, <1>3, <1>5, <3>2, Uniq DEF d
    <3> QED
      BY <3>1, <3>3
  <2>2. CASE r > w
    <3>1. n * (r - w) >= n
      BY <2>2
    <3>2. i < 0 /\ i >= -B
      BY <1>1, <1>7, <3>1 DEF i
    <3> DEFINE less == -1
               s == i + wide
    <3>3. less \in Int /\ s \in 0..(wide - 1) /\ wide * less + s = wide * c + d
      BY <1>1, <1>5, <3>2
    <3>4. d \in 0..(wide - 1)
      BY <1>3 DEF d
    <3> HIDE DEF less, s
    <3>5. c \in Int /\ wide \in Nat \ {0}
      BY <1>2, <1>5
    <3>6. \A p, q \in Int : \A x, y \in 0..(wide - 1) : wide * p + x = wide * q + y => x = y
      BY <1>2, Uniq
    <3>7. s = d
      BY <3>3, <3>4, <3>5, <3>6, Zenon
    <3> QED
      BY <1>1, <3>2, <3>7 DEF s
  <2> QED
    BY <2>1, <2>2
<1> QED
  BY <1>6, <1>7 DEF d, u, i, Shows

-----------------------------------------------------------------------------
(* The energy counters *)

\* How many cores are in coreStart and in coreEnd, and whether the package is
\* in pkgStart and in pkgEnd.
AllCores == LastCore(core) - FirstCore(core) + 1
Started == IF at < CoreStart THEN 0
           ELSE IF at = CoreStart THEN k - FirstCore(core) ELSE AllCores
Finished == IF at < CoreEnd THEN 0
            ELSE IF at = CoreEnd THEN k - FirstCore(core) ELSE AllCores
PkgStarted == at > CoreStart + 1
PkgFinished == at > PkgEnd

\* What each core had consumed when it was read, and after each read the sum
\* of that and of the wraps.
Ledger(sum, wraps, e) ==
    /\ sum[0] = 0 /\ wraps[0] = 0
    /\ \A i \in Nat : i < Started =>
          /\ sum[i + 1] = sum[i] + e[i]
          /\ wraps[i + 1] = wraps[i] + (e[i] \div Wrap)
          /\ FirstCore(core) + i \in Cpus
          /\ e[i] <= energy[FirstCore(core) + i]
    /\ reading["coreStart"].used = sum[Started]
    /\ reading["coreStart"].used = reading["coreStart"].reg + Wrap * wraps[Started]
    /\ reading["coreStart"].reg <= Wrap * Started

\* Each core has consumed and wrapped at least as much when it is read again.
AtLeast(sum, wraps, r) ==
    /\ reading["coreEnd"].used = reading["coreEnd"].reg + Wrap * r
    /\ sum[Finished] <= reading["coreEnd"].used
    /\ wraps[Finished] <= r

CoresInv == \E sum, wraps, e \in [Nat -> Nat], r \in Nat :
               Ledger(sum, wraps, e) /\ AtLeast(sum, wraps, r)

IsRead(op, e) == reading[op].reg = e % Wrap /\ reading[op].used = e
IsZero(op) == reading[op].reg = 0 /\ reading[op].used = 0

PkgInv ==
    \E p, q \in Nat :
       /\ IF PkgStarted THEN IsRead("pkgStart", p) /\ p <= energy[Package]
          ELSE IsZero("pkgStart")
       /\ IF PkgFinished THEN IsRead("pkgEnd", q) /\ p <= q ELSE IsZero("pkgEnd")

MeterInv == Metering /\ ~Done /\ ~failed => CoresInv /\ PkgInv

LEMMA CountTypes ==
    ASSUME Base, Metering, ~Done
    PROVE  /\ AllCores \in 1..HardCores /\ Started \in 0..AllCores
           /\ Finished \in 0..AllCores
           /\ FirstCore(core) \in Nat /\ LastCore(core) \in Nat /\ k \in Nat
           /\ FirstCore(core) <= k /\ k <= LastCore(core)
<1>1. core \in Nat /\ k \in Nat /\ at \in Nat
  BY RoundsAreNat, BodyLength DEF Base, TypeOK
<1>2. FirstCore(core) \in Nat /\ LastCore(core) \in Nat /\ FirstCore(core) <= LastCore(core)
      /\ LastCore(core) - FirstCore(core) < HardCores
  BY <1>1, WidthAssumption DEF FirstCore, LastCore
<1>3. FirstCore(core) <= k /\ k <= LastCore(core)
  BY DEF Base, KInv
<1> QED
  BY <1>1, <1>2, <1>3, WidthAssumption DEF AllCores, Started, Finished

\* An operation that ends without being the last one.
LEMMA Counts ==
    ASSUME Base, Metering, ~Done, NextOp, UNCHANGED <<run, online>>,
           Body[at] # "print"
    PROVE  /\ core' = core /\ FirstCore(core)' = FirstCore(core) /\ AllCores' = AllCores
           /\ Started' = IF Body[at] = "coreStart" THEN AllCores ELSE Started
           /\ Finished' = IF Body[at] = "coreEnd" THEN AllCores ELSE Finished
           /\ PkgStarted' <=> PkgStarted \/ Body[at] = "pkgStart"
           /\ PkgFinished' <=> PkgFinished \/ Body[at] = "pkgEnd"
<1>1. /\ CoreStart \in 2..4 /\ Len(Body) = CoreStart + 5 /\ at \in 1..(CoreStart + 5)
      /\ at # CoreStart + 5
  BY MeterBody
<1>2. core' = core /\ at' = at + 1 /\ k' = FirstCore(core)
  BY <1>1, Steps
<1>3. /\ FirstCore(core)' = FirstCore(core) /\ LastCore(core)' = LastCore(core)
      /\ AllCores' = AllCores /\ CoreStart' = CoreStart /\ CoreEnd' = CoreEnd
      /\ PkgEnd' = PkgEnd
  BY <1>2 DEF FirstCore, LastCore, AllCores, CoreStart, CoreEnd, PkgEnd
<1>4. FirstCore(core) \in Nat /\ AllCores \in Nat
  BY CountTypes
<1>5. CoreEnd \in Nat /\ CoreStart < CoreEnd /\ PkgEnd \in Nat
  BY <1>1 DEF CoreEnd, PkgEnd
<1>6. Started' = IF at = CoreStart THEN AllCores ELSE Started
  BY <1>1, <1>2, <1>3, <1>4 DEF Started
<1>7. Finished' = IF at = CoreEnd THEN AllCores ELSE Finished
  BY <1>1, <1>2, <1>3, <1>4, <1>5 DEF Finished
<1>8. /\ PkgStarted' <=> PkgStarted \/ at = CoreStart + 1
      /\ PkgFinished' <=> PkgFinished \/ at = PkgEnd
  BY <1>1, <1>2, <1>3, <1>5 DEF PkgStarted, PkgFinished
<1> QED
  BY <1>2, <1>3, <1>6, <1>7, <1>8, MeterBody

\* A read of a counter.
LEMMA ReadCounts ==
    ASSUME Base, Metering, NEW op \in ReadOps, ReadEnergy(op)
    PROVE  /\ core' = core /\ FirstCore(core)' = FirstCore(core)
           /\ Started' = IF op = "coreStart" THEN Started + 1 ELSE Started
           /\ Finished' = IF op = "coreEnd" THEN Finished + 1 ELSE Finished
           /\ PkgStarted' <=> PkgStarted \/ op = "pkgStart"
           /\ PkgFinished' <=> PkgFinished \/ op = "pkgEnd"
           /\ op = "coreStart" => k = FirstCore(core) + Started /\ Finished = 0
           /\ op = "coreEnd" => k = FirstCore(core) + Finished /\ Finished < Started
           /\ op = "pkgStart" => ~PkgStarted /\ ~PkgFinished
           /\ op = "pkgEnd" => PkgStarted /\ ~PkgFinished
<1>1. ~Done /\ Body[at] = op /\ UNCHANGED <<run, online>>
  BY DoingIsNotDone DEF ReadEnergy
<1>2. /\ CoreStart \in 2..4 /\ at \in 1..(CoreStart + 5)
      /\ op = "coreStart" => at = CoreStart
      /\ op = "pkgStart" => at = CoreStart + 1
      /\ op = "pkgEnd" => at = PkgEnd
      /\ op = "coreEnd" => at = CoreEnd
  BY <1>1, MeterBody
<1>3. CoreEnd \in Nat /\ CoreStart < CoreEnd /\ PkgEnd \in Nat /\ CoreStart + 1 < PkgEnd
  BY <1>2 DEF CoreEnd, PkgEnd
<1>4. /\ op = "coreStart" => k = FirstCore(core) + Started /\ Finished = 0
      /\ op = "coreEnd" => k = FirstCore(core) + Finished /\ Finished < Started
  BY <1>1, <1>2, <1>3, CountTypes DEF Started, Finished, AllCores
<1>5. /\ op = "pkgStart" => ~PkgStarted /\ ~PkgFinished
      /\ op = "pkgEnd" => PkgStarted /\ ~PkgFinished
  BY <1>2, <1>3 DEF PkgStarted, PkgFinished
<1>6. CASE op \in {"coreStart", "coreEnd"} /\ k < LastCore(core)
  <2>1. k' = k + 1 /\ core' = core /\ at' = at
    BY <1>6 DEF ReadEnergy
  <2>2. /\ FirstCore(core)' = FirstCore(core) /\ LastCore(core)' = LastCore(core)
        /\ CoreStart' = CoreStart /\ CoreEnd' = CoreEnd /\ PkgEnd' = PkgEnd
        /\ AllCores' = AllCores
    BY <1>1, <2>1 DEF FirstCore, LastCore, CoreStart, CoreEnd, PkgEnd, AllCores
  <2>3. Started' = IF op = "coreStart" THEN Started + 1 ELSE Started
    BY <1>1, <1>2, <1>3, <1>6, <2>1, <2>2, CountTypes DEF Started
  <2>4. Finished' = IF op = "coreEnd" THEN Finished + 1 ELSE Finished
    BY <1>1, <1>2, <1>3, <1>6, <2>1, <2>2, CountTypes DEF Finished
  <2>5. (PkgStarted' <=> PkgStarted) /\ (PkgFinished' <=> PkgFinished)
    BY <2>1, <2>2 DEF PkgStarted, PkgFinished
  <2> QED
    BY <1>4, <1>5, <1>6, <2>1, <2>2, <2>3, <2>4, <2>5
<1>7. CASE ~(op \in {"coreStart", "coreEnd"} /\ k < LastCore(core))
  <2>1. NextOp
    BY <1>7 DEF ReadEnergy
  <2>2. op # "print"
    BY DEF ReadOps
  <2>3. op \in {"coreStart", "coreEnd"} => k = LastCore(core)
    BY <1>1, <1>7, CountTypes
  <2>4. /\ op = "coreStart" => AllCores = Started + 1
        /\ op = "coreEnd" => AllCores = Finished + 1
    BY <1>1, <1>4, <2>3, CountTypes DEF AllCores
  <2> QED
    BY <1>1, <1>4, <1>5, <2>1, <2>2, <2>4, Counts
<1> QED
  BY <1>6, <1>7

\* Nothing is read and nothing counted before the first read.
LEMMA NothingRead ==
    ASSUME Base, Metering, ~Done, at = 1, reading = NoReading
    PROVE  CoresInv /\ PkgInv
<1>1. /\ CoreStart \in 2..4 /\ at < CoreStart /\ at < CoreEnd /\ ~(at > CoreStart + 1)
      /\ ~(at > PkgEnd)
  BY MeterBody DEF CoreEnd, PkgEnd
<1>2. Started = 0 /\ Finished = 0 /\ ~PkgStarted /\ ~PkgFinished
  BY <1>1 DEF Started, Finished, PkgStarted, PkgFinished
<1>3. \A op \in ReadOps : IsZero(op)
  BY DEF NoReading, ReadOps, IsZero
<1> DEFINE zero == [i \in Nat |-> 0]
<1>4. zero \in [Nat -> Nat] /\ zero[0] = 0
  OBVIOUS
<1>5. Ledger(zero, zero, zero) /\ AtLeast(zero, zero, 0)
  <2>1. Wrap * 0 = 0
    BY WidthAssumption
  <2> QED
    BY <1>2, <1>3, <1>4, <2>1 DEF Ledger, AtLeast, IsZero, ReadOps
<1>6. CoresInv
  BY <1>4, <1>5 DEF CoresInv
<1>7. PkgInv
  BY <1>2, <1>3 DEF PkgInv, ReadOps
<1> QED
  BY <1>6, <1>7

\* The same for the state after a row.
LEMMA NothingReadNext ==
    ASSUME Base, Metering, PrintRow, UNCHANGED <<run, online>>, ~Done'
    PROVE  CoresInv' /\ PkgInv'
<1>1. ~Done /\ Body[at] = "print" /\ NextOp
  BY DoingIsNotDone DEF PrintRow
<1>2. at' = 1 /\ reading' = NoReading
  <2>1. CoreStart \in 2..4 /\ at = CoreStart + 5 /\ Len(Body) = CoreStart + 5
    BY <1>1, MeterBody
  <2> QED
    BY <1>1, <2>1, Steps DEF PrintRow
<1>3. CoreStart' \in 2..4 /\ CoreEnd' \in 3..9 /\ PkgEnd' \in 3..9
  BY DEF CoreStart, CoreEnd, PkgEnd
<1>4. Started' = 0 /\ Finished' = 0 /\ ~PkgStarted' /\ ~PkgFinished'
  <2>1. \A i, j \in 2..9 : 1 < i /\ ~(1 > i + 1) /\ ~(1 > j)
    OBVIOUS
  <2>2. at' = 1 /\ CoreStart' \in 2..9 /\ CoreEnd' \in 2..9 /\ PkgEnd' \in 2..9
    BY <1>2, <1>3
  <2>3. /\ at' < CoreStart' /\ at' < CoreEnd' /\ ~(at' > CoreStart' + 1)
        /\ ~(at' > PkgEnd')
    BY <2>1, <2>2, Zenon
  <2> QED
    BY <2>3 DEF Started, Finished, PkgStarted, PkgFinished
<1>5. \A op \in ReadOps : reading'[op].reg = 0 /\ reading'[op].used = 0
  BY <1>2 DEF NoReading, ReadOps
<1> DEFINE zero == [i \in Nat |-> 0]
<1>6. zero \in [Nat -> Nat] /\ zero[0] = 0
  OBVIOUS
<1>7. Ledger(zero, zero, zero)' /\ AtLeast(zero, zero, 0)'
  <2>1. Wrap * 0 = 0
    BY WidthAssumption
  <2> QED
    BY <1>4, <1>5, <1>6, <2>1 DEF Ledger, AtLeast, ReadOps
<1>8. CoresInv'
  BY <1>6, <1>7 DEF CoresInv
<1>9. PkgInv'
  BY <1>4, <1>5 DEF PkgInv, IsZero, ReadOps
<1> QED
  BY <1>8, <1>9

\* A step that does not read the counters of cores; they may count during it.
LEMMA OtherKeepsCores ==
    ASSUME Base, CoresInv,
           reading'["coreStart"] = reading["coreStart"],
           reading'["coreEnd"] = reading["coreEnd"],
           core' = core, FirstCore(core)' = FirstCore(core),
           Started' = Started, Finished' = Finished,
           \A c \in Cpus \cup {Package} : energy'[c] \in Nat /\ energy[c] <= energy'[c]
    PROVE  CoresInv'
<1>1. PICK sum, wraps, e \in [Nat -> Nat], r \in Nat :
        Ledger(sum, wraps, e) /\ AtLeast(sum, wraps, r)
  BY DEF CoresInv
<1>2. \A c \in Cpus : energy[c] \in Nat
  BY DEF Base
<1>3. ASSUME NEW i \in Nat, i < Started
      PROVE  /\ sum[i + 1] = sum[i] + e[i]
             /\ wraps[i + 1] = wraps[i] + (e[i] \div Wrap)
             /\ FirstCore(core) + i \in Cpus
             /\ e[i] <= energy'[FirstCore(core) + i]
  <2>1. /\ sum[i + 1] = sum[i] + e[i]
        /\ wraps[i + 1] = wraps[i] + (e[i] \div Wrap)
        /\ FirstCore(core) + i \in Cpus
        /\ e[i] <= energy[FirstCore(core) + i]
    BY <1>1, <1>3 DEF Ledger
  <2> DEFINE c == FirstCore(core) + i
  <2>2. e[i] \in Nat /\ energy[c] \in Nat /\ energy'[c] \in Nat /\ energy[c] <= energy'[c]
    BY <1>1, <1>2, <2>1
  <2>3. e[i] <= energy'[c]
    BY <2>1, <2>2
  <2> QED
    BY <2>1, <2>3
<1>4. Ledger(sum, wraps, e)'
  BY <1>1, <1>3 DEF Ledger
<1>5. AtLeast(sum, wraps, r)'
  BY <1>1 DEF AtLeast
<1> QED
  BY <1>1, <1>4, <1>5 DEF CoresInv

\* The same for the counter of the package.
LEMMA OtherKeepsPkg ==
    ASSUME Base, PkgInv,
           reading'["pkgStart"] = reading["pkgStart"],
           reading'["pkgEnd"] = reading["pkgEnd"],
           PkgStarted' <=> PkgStarted, PkgFinished' <=> PkgFinished,
           \A c \in Cpus \cup {Package} : energy'[c] \in Nat /\ energy[c] <= energy'[c]
    PROVE  PkgInv'
<1>1. PICK p, q \in Nat :
        /\ IF PkgStarted THEN IsRead("pkgStart", p) /\ p <= energy[Package]
           ELSE IsZero("pkgStart")
        /\ IF PkgFinished THEN IsRead("pkgEnd", q) /\ p <= q ELSE IsZero("pkgEnd")
  BY DEF PkgInv
<1>2. energy[Package] \in Nat /\ energy'[Package] \in Nat
      /\ energy[Package] <= energy'[Package]
  BY DEF Base
<1>3. p <= energy[Package] => p <= energy'[Package]
  BY <1>2
<1> QED
  BY <1>1, <1>3 DEF PkgInv, IsRead, IsZero

\* What a read that does not fail adds.
LEMMA ReadAdds ==
    ASSUME Base, Metering, NEW op \in ReadOps, ReadEnergy(op), ~failed'
    PROVE  LET counter == IF op \in {"coreStart", "coreEnd"} THEN k ELSE Package
           IN  /\ ~failed /\ energy' = energy /\ counter \in Cpus \cup {Package}
               /\ op \in {"coreStart", "coreEnd"} => k \in Cpus
               /\ energy[counter] \in Nat
               /\ reading'[op].reg = reading[op].reg + (energy[counter] % Wrap)
               /\ reading'[op].used = reading[op].used + energy[counter]
               /\ \A o \in ReadOps \ {op} : reading'[o] = reading[o]
<1> DEFINE counter == IF op \in {"coreStart", "coreEnd"} THEN k ELSE Package
<1>1. /\ HasFile(Wanted) /\ Add(op, energy[counter] % Wrap, energy[counter])
      /\ failed' = failed /\ energy' = energy /\ Doing(op)
  BY DEF ReadEnergy
<1>2. op \in {"coreStart", "coreEnd"} => k \in Cpus
  <2>1. ASSUME op \in {"coreStart", "coreEnd"}
        PROVE  Wanted = k
    BY <1>1, <2>1 DEF Wanted
  <2> QED
    BY <1>1, <2>1, CpuAssumption DEF HasFile, Base, FilesInv, TypeOK
<1>3. energy[counter] \in Nat /\ energy[counter] % Wrap \in Nat
  BY <1>2, WidthAssumption DEF Base
<1>4. reading \in [ReadOps -> [reg : Nat, used : Nat]]
  BY DEF Base
<1> HIDE DEF counter
<1>5. /\ reading'[op].reg = reading[op].reg + (energy[counter] % Wrap)
      /\ reading'[op].used = reading[op].used + energy[counter]
      /\ \A o \in ReadOps \ {op} : reading'[o] = reading[o]
  BY <1>1, <1>3, <1>4, AddType
<1> QED
  BY <1>1, <1>2, <1>3, <1>5 DEF counter

LEMMA WrapType == Wrap \in Nat \ {0}
  BY WidthAssumption

LEMMA Distributes ==
    \A a, b \in Nat : /\ Wrap * (a + b) = Wrap * a + Wrap * b
                      /\ Wrap * a \in Nat /\ Wrap * b \in Nat
  BY WrapType

\* A counter, taken apart.
LEMMA Counter ==
    ASSUME NEW x \in Nat
    PROVE  /\ x = Wrap * (x \div Wrap) + (x % Wrap) /\ x % Wrap \in 0..(Wrap - 1)
           /\ x \div Wrap \in Nat
           /\ \A y \in Nat : y <= x => y \div Wrap \in Nat /\ y \div Wrap <= x \div Wrap
<1>1. Wrap \in Nat \ {0}
  BY WrapType
<1>2. \A y \in Nat : y \div Wrap \in Nat
  BY <1>1, DivMod
<1>3. \A y \in Nat : y <= x => y \div Wrap <= x \div Wrap
  BY <1>1, DivMono
<1>4. x = Wrap * (x \div Wrap) + (x % Wrap) /\ x % Wrap \in 0..(Wrap - 1)
  BY <1>1, DivMod
<1> QED
  BY <1>2, <1>3, <1>4

LEMMA CoreStartKeeps ==
    ASSUME Base, Metering, ReadEnergy("coreStart"), ~failed', CoresInv
    PROVE  CoresInv'
<1>1. PICK sum, wraps, e \in [Nat -> Nat], r \in Nat :
        Ledger(sum, wraps, e) /\ AtLeast(sum, wraps, r)
  BY DEF CoresInv
<1>0. energy[k] \in Nat /\ Started \in Nat
  <2>1. ~Done
    BY DoingIsNotDone DEF ReadEnergy
  <2>2. Started \in 0..AllCores /\ AllCores \in Nat
    BY <2>1, CountTypes
  <2>3. "coreStart" \in ReadOps
    BY DEF ReadOps
  <2> QED
    BY <2>2, <2>3, ReadAdds
<1> PICK n \in Nat, x \in Nat : n = Started /\ x = energy[k]
  BY <1>0
<1>2. /\ FirstCore(core)' = FirstCore(core) /\ core' = core
      /\ Started' = n + 1 /\ Finished' = 0 /\ Finished = 0
      /\ k = FirstCore(core) + n
  BY ReadCounts DEF ReadOps
<1>3. /\ energy' = energy /\ k \in Cpus /\ x \in Nat
      /\ reading'["coreStart"].reg = reading["coreStart"].reg + (x % Wrap)
      /\ reading'["coreStart"].used = reading["coreStart"].used + x
      /\ reading'["coreEnd"] = reading["coreEnd"]
  BY ReadAdds DEF ReadOps
<1>4. n \in Nat /\ FirstCore(core) \in Nat
  BY CountTypes, DoingIsNotDone DEF ReadEnergy
<1>5. x = Wrap * (x \div Wrap) + (x % Wrap) /\ x % Wrap \in 0..(Wrap - 1)
      /\ x \div Wrap \in Nat
  BY Counter
<1>6. reading["coreStart"].reg \in Nat /\ reading["coreStart"].used \in Nat
      /\ reading["coreEnd"].used \in Nat
  BY DEF Base, ReadOps
<1>7. /\ sum[0] = 0 /\ wraps[0] = 0
      /\ \A i \in Nat : i < n => /\ sum[i + 1] = sum[i] + e[i]
                                 /\ wraps[i + 1] = wraps[i] + (e[i] \div Wrap)
                                 /\ FirstCore(core) + i \in Cpus
                                 /\ e[i] <= energy[FirstCore(core) + i]
      /\ reading["coreStart"].used = sum[n]
      /\ reading["coreStart"].used = reading["coreStart"].reg + Wrap * wraps[n]
      /\ reading["coreStart"].reg <= Wrap * n
  BY <1>1 DEF Ledger
<1> DEFINE sumN == [sum EXCEPT ![n + 1] = sum[n] + x]
           wrapsN == [wraps EXCEPT ![n + 1] = wraps[n] + (x \div Wrap)]
           eN == [e EXCEPT ![n] = x]
<1>8. sumN \in [Nat -> Nat] /\ wrapsN \in [Nat -> Nat] /\ eN \in [Nat -> Nat]
  BY <1>1, <1>5
<1> PICK sum1, wraps1, e1 \in [Nat -> Nat] : sum1 = sumN /\ wraps1 = wrapsN /\ e1 = eN
  BY <1>8
<1>9. /\ sum1[n + 1] = sum[n] + x /\ wraps1[n + 1] = wraps[n] + (x \div Wrap) /\ e1[n] = x
      /\ \A i \in 0..n : sum1[i] = sum[i] /\ wraps1[i] = wraps[i]
      /\ \A i \in Nat : i < n => e1[i] = e[i]
  BY <1>1, <1>4
<1> HIDE DEF sumN, wrapsN, eN
<1>10. ASSUME NEW i \in Nat, i < n + 1
       PROVE  /\ sum1[i + 1] = sum1[i] + e1[i]
              /\ wraps1[i + 1] = wraps1[i] + (e1[i] \div Wrap)
              /\ FirstCore(core) + i \in Cpus
              /\ e1[i] <= energy[FirstCore(core) + i]
  <2>1. CASE i < n
    <3>1. i \in 0..n /\ i + 1 \in 0..n
      BY <1>4, <2>1
    <3> QED
      BY <1>7, <1>9, <2>1, <3>1
  <2>2. CASE i = n
    <3>1. n \in 0..n /\ energy[FirstCore(core) + n] = x
      BY <1>2, <1>4
    <3>2. /\ sum1[n] = sum[n] /\ wraps1[n] = wraps[n] /\ e1[n] = x
          /\ sum1[n + 1] = sum[n] + x /\ wraps1[n + 1] = wraps[n] + (x \div Wrap)
      BY <1>9, <3>1
    <3>3. FirstCore(core) + n \in Cpus
      BY <1>2, <1>3
    <3>4. x <= x
      BY <1>3
    <3> QED
      BY <2>2, <3>1, <3>2, <3>3, <3>4, Zenon
  <2> QED
    BY <1>4, <1>10, <2>1, <2>2
<1>11. reading'["coreStart"].used = reading'["coreStart"].reg + Wrap * wraps1[n + 1]
  <2>1. wraps[n] \in Nat
    BY <1>1, <1>4
  <2>2. Wrap * (wraps[n] + (x \div Wrap)) = Wrap * wraps[n] + Wrap * (x \div Wrap)
        /\ Wrap * wraps[n] \in Nat /\ Wrap * (x \div Wrap) \in Nat
    <3> PICK v \in Nat, q \in Nat : v = wraps[n] /\ q = x \div Wrap
      BY <1>5, <2>1
    <3> QED
      BY Distributes, Zenon
  <2> DEFINE a == Wrap * wraps[n]  b == Wrap * (x \div Wrap)
  <2>4. /\ reading["coreStart"].used = reading["coreStart"].reg + a
        /\ x = b + (x % Wrap) /\ a \in Nat /\ b \in Nat /\ x % Wrap \in Nat
        /\ Wrap * wraps1[n + 1] = a + b
    BY <1>5, <1>7, <1>9, <2>2
  <2>5. PICK c \in Nat : c = x % Wrap
    BY <2>4
  <2>6. /\ reading'["coreStart"].reg = reading["coreStart"].reg + c
        /\ reading'["coreStart"].used = reading["coreStart"].used + x
    BY <1>3, <2>5
  <2> DEFINE all == Wrap * wraps1[n + 1]
  <2>7. all = a + b /\ x = b + c /\ a \in Nat /\ b \in Nat
        /\ reading["coreStart"].used = reading["coreStart"].reg + a
    BY <2>4, <2>5
  <2> HIDE DEF a, b, all
  <2>8. PICK u \in Nat, w \in Nat :
          u = reading["coreStart"].reg /\ w = reading["coreStart"].used
    BY <1>6
  <2>9. w + (b + c) = (u + c) + (a + b)
    BY <2>7, <2>8, SMTT(20)
  <2>10. reading'["coreStart"].used = reading'["coreStart"].reg + all
    BY <2>6, <2>7, <2>8, <2>9
  <2> QED
    BY <2>10 DEF all
<1>12. reading'["coreStart"].reg <= Wrap * (n + 1)
  <2>1. Wrap * (n + 1) = Wrap * n + Wrap /\ Wrap * n \in Nat
    BY <1>4, WidthAssumption
  <2> DEFINE a == Wrap * n  top == Wrap * (n + 1)
  <2>2. reading["coreStart"].reg <= a /\ a \in Nat /\ top = a + Wrap
    BY <1>7, <2>1
  <2>3. PICK b \in 0..(Wrap - 1) : b = x % Wrap
    BY <1>5
  <2>4. reading'["coreStart"].reg = reading["coreStart"].reg + b
    BY <1>3, <2>3
  <2>5. b \in Nat /\ b <= Wrap /\ Wrap \in Nat
    BY <2>3, WrapType
  <2> HIDE DEF a, top
  <2>6. reading'["coreStart"].reg <= top
    BY <1>6, <2>2, <2>4, <2>5
  <2> QED
    BY <2>6 DEF top
<1>13. Ledger(sum1, wraps1, e1)'
  <2>1. sum1[0] = 0 /\ wraps1[0] = 0
    BY <1>4, <1>7, <1>9
  <2>2. reading'["coreStart"].used = sum1[n + 1]
    BY <1>3, <1>7, <1>9
  <2> QED
    BY <1>2, <1>3, <1>10, <1>11, <1>12, <2>1, <2>2 DEF Ledger
<1>14. AtLeast(sum1, wraps1, r)'
  <2>1. sum1[0] = sum[0] /\ wraps1[0] = wraps[0]
    BY <1>4, <1>9
  <2> QED
    BY <1>1, <1>2, <1>3, <2>1 DEF AtLeast
<1> QED
  BY <1>1, <1>8, <1>13, <1>14 DEF CoresInv

LEMMA CoreEndKeeps ==
    ASSUME Base, Metering, ReadEnergy("coreEnd"), ~failed', CoresInv
    PROVE  CoresInv'
<1>1. PICK sum, wraps, e \in [Nat -> Nat], r \in Nat :
        Ledger(sum, wraps, e) /\ AtLeast(sum, wraps, r)
  BY DEF CoresInv
<1>0. energy[k] \in Nat /\ Finished \in Nat
  <2>1. ~Done
    BY DoingIsNotDone DEF ReadEnergy
  <2>2. Finished \in 0..AllCores /\ AllCores \in Nat
    BY <2>1, CountTypes
  <2>3. "coreEnd" \in ReadOps
    BY DEF ReadOps
  <2> QED
    BY <2>2, <2>3, ReadAdds
<1> PICK m \in Nat, x \in Nat : m = Finished /\ x = energy[k]
  BY <1>0
<1> PICK r1 \in Nat : r1 = r + (x \div Wrap)
  BY Counter
<1>2. /\ FirstCore(core)' = FirstCore(core) /\ core' = core
      /\ Started' = Started /\ Finished' = m + 1
      /\ k = FirstCore(core) + m /\ m < Started
  BY ReadCounts DEF ReadOps
<1>3. /\ energy' = energy /\ k \in Cpus /\ x \in Nat
      /\ reading'["coreEnd"].reg = reading["coreEnd"].reg + (x % Wrap)
      /\ reading'["coreEnd"].used = reading["coreEnd"].used + x
      /\ reading'["coreStart"] = reading["coreStart"]
  BY ReadAdds DEF ReadOps
<1>4. m \in Nat
  BY CountTypes, DoingIsNotDone DEF ReadEnergy
<1>5. x = Wrap * (x \div Wrap) + (x % Wrap) /\ x % Wrap \in 0..(Wrap - 1)
      /\ x \div Wrap \in Nat
  BY Counter
<1>6. reading["coreEnd"].reg \in Nat /\ reading["coreEnd"].used \in Nat
  BY DEF Base, ReadOps
<1>7. /\ sum[m + 1] = sum[m] + e[m] /\ wraps[m + 1] = wraps[m] + (e[m] \div Wrap)
      /\ e[m] <= x
  BY <1>1, <1>2, <1>4 DEF Ledger
<1>8. /\ reading["coreEnd"].used = reading["coreEnd"].reg + Wrap * r
      /\ sum[m] <= reading["coreEnd"].used /\ wraps[m] <= r
  BY <1>1 DEF AtLeast
<1>9. e[m] \in Nat /\ sum[m] \in Nat /\ wraps[m] \in Nat
  BY <1>1, <1>4
<1>10. e[m] \div Wrap <= x \div Wrap /\ e[m] \div Wrap \in Nat
  BY <1>7, <1>9, Counter
<1>11. r1 \in Nat /\ wraps[m + 1] <= r1 /\ sum[m + 1] <= reading'["coreEnd"].used
  BY <1>1, <1>3, <1>5, <1>6, <1>7, <1>8, <1>9, <1>10
<1>12. reading'["coreEnd"].used = reading'["coreEnd"].reg + Wrap * r1
  <2> DEFINE a == Wrap * r  b == Wrap * (x \div Wrap)
  <2>1. Wrap * r1 = a + b /\ a \in Nat /\ b \in Nat
    <3> PICK q \in Nat : q = x \div Wrap
      BY <1>5
    <3> QED
      BY Distributes, Zenon
  <2>2. reading["coreEnd"].used = reading["coreEnd"].reg + a /\ x = b + (x % Wrap)
        /\ x % Wrap \in Nat
    BY <1>5, <1>8
  <2> HIDE DEF a, b
  <2> QED
    BY <1>3, <1>6, <2>1, <2>2
<1>13. Ledger(sum, wraps, e)'
  BY <1>1, <1>2, <1>3 DEF Ledger
<1>14. AtLeast(sum, wraps, r1)'
  BY <1>2, <1>11, <1>12 DEF AtLeast
<1> QED
  BY <1>1, <1>11, <1>13, <1>14 DEF CoresInv

LEMMA PkgStartKeeps ==
    ASSUME Base, Metering, ReadEnergy("pkgStart"), ~failed', PkgInv
    PROVE  PkgInv'
<1>1. PkgStarted' /\ ~PkgFinished' /\ ~PkgStarted /\ ~PkgFinished
  BY ReadCounts DEF ReadOps
<1>2. IsZero("pkgStart") /\ IsZero("pkgEnd")
  BY <1>1 DEF PkgInv
<1>3. /\ energy' = energy /\ energy[Package] \in Nat
      /\ reading'["pkgStart"].reg = reading["pkgStart"].reg + (energy[Package] % Wrap)
      /\ reading'["pkgStart"].used = reading["pkgStart"].used + energy[Package]
      /\ reading'["pkgEnd"] = reading["pkgEnd"]
  BY ReadAdds DEF ReadOps
<1> PICK x \in Nat : x = energy[Package]
  BY <1>3
<1>4. x % Wrap \in Nat /\ 0 + (x % Wrap) = x % Wrap /\ 0 + x = x
  BY Counter
<1>5. reading'["pkgStart"].reg = x % Wrap /\ reading'["pkgStart"].used = x
  BY <1>2, <1>3, <1>4 DEF IsZero
<1>6. x <= energy'[Package]
  BY <1>3
<1> QED
  BY <1>1, <1>2, <1>3, <1>5, <1>6 DEF PkgInv, IsRead, IsZero

LEMMA PkgEndKeeps ==
    ASSUME Base, Metering, ReadEnergy("pkgEnd"), ~failed', PkgInv
    PROVE  PkgInv'
<1>1. PkgStarted' /\ PkgFinished' /\ PkgStarted /\ ~PkgFinished
  BY ReadCounts DEF ReadOps
<1>2. PICK p \in Nat : IsRead("pkgStart", p) /\ p <= energy[Package] /\ IsZero("pkgEnd")
  BY <1>1 DEF PkgInv
<1>3. /\ energy' = energy /\ energy[Package] \in Nat
      /\ reading'["pkgEnd"].reg = reading["pkgEnd"].reg + (energy[Package] % Wrap)
      /\ reading'["pkgEnd"].used = reading["pkgEnd"].used + energy[Package]
      /\ reading'["pkgStart"] = reading["pkgStart"]
  BY ReadAdds DEF ReadOps
<1> PICK x \in Nat : x = energy[Package]
  BY <1>3
<1>4. x % Wrap \in Nat /\ 0 + (x % Wrap) = x % Wrap /\ 0 + x = x
  BY Counter
<1>5. reading'["pkgEnd"].reg = x % Wrap /\ reading'["pkgEnd"].used = x
  BY <1>2, <1>3, <1>4 DEF IsZero
<1>6. p <= x /\ p <= energy'[Package]
  BY <1>2, <1>3
<1> QED
  BY <1>1, <1>2, <1>3, <1>5, <1>6 DEF PkgInv, IsRead

\* Every read that does not fail.
LEMMA ReadKeepsMeter ==
    ASSUME Base, Metering, NEW op \in ReadOps, ReadEnergy(op), ~failed',
           CoresInv, PkgInv
    PROVE  CoresInv' /\ PkgInv'
<1>1. /\ core' = core /\ FirstCore(core)' = FirstCore(core)
      /\ op # "coreStart" => Started' = Started
      /\ op # "coreEnd" => Finished' = Finished
      /\ op # "pkgStart" => (PkgStarted' <=> PkgStarted)
      /\ op # "pkgEnd" => (PkgFinished' <=> PkgFinished)
  BY ReadCounts
<1>2. energy' = energy /\ \A o \in ReadOps \ {op} : reading'[o] = reading[o]
  BY ReadAdds
<1>3. \A c \in Cpus \cup {Package} : energy'[c] \in Nat /\ energy[c] <= energy'[c]
  BY <1>2 DEF Base
<1>4. CASE op \in {"coreStart", "coreEnd"}
  <2>1. reading'["pkgStart"] = reading["pkgStart"] /\ reading'["pkgEnd"] = reading["pkgEnd"]
    BY <1>2, <1>4 DEF ReadOps
  <2>2. PkgInv'
    BY <1>1, <1>3, <1>4, <2>1, OtherKeepsPkg
  <2>3. CoresInv'
    BY <1>4, CoreStartKeeps, CoreEndKeeps
  <2> QED
    BY <2>2, <2>3
<1>5. CASE op \in {"pkgStart", "pkgEnd"}
  <2>1. /\ reading'["coreStart"] = reading["coreStart"]
        /\ reading'["coreEnd"] = reading["coreEnd"]
    BY <1>2, <1>5 DEF ReadOps
  <2>2. CoresInv'
    BY <1>1, <1>3, <1>5, <2>1, OtherKeepsCores
  <2>3. PkgInv'
    BY <1>5, PkgStartKeeps, PkgEndKeeps
  <2> QED
    BY <2>2, <2>3
<1> QED
  BY <1>4, <1>5 DEF ReadOps

LEMMA NextMeter ==
    ASSUME Base, MeterInv, [Next]_vars
    PROVE  MeterInv'
<1> USE DEF energyVars, loopVars, vars
<1>1. UNCHANGED <<run, online>> /\ Metering' = Metering
  <2>1. UNCHANGED <<run, online>>
    BY SameRun
  <2> QED
    BY <2>1 DEF Metering
<1> SUFFICES ASSUME Metering, ~Done', ~failed'
    PROVE  CoresInv' /\ PkgInv'
  BY <1>1 DEF MeterInv
<1>2. CASE PrintRow
  BY <1>1, <1>2, NothingReadNext
<1>3. CASE \E op \in DOMAIN NoReading : ReadEnergy(op)
  <2>1. PICK op \in ReadOps : ReadEnergy(op)
    BY <1>3 DEF NoReading, ReadOps
  <2>2. ~Done
    BY <2>1, DoingIsNotDone DEF ReadEnergy
  <2>3. ~failed
    BY <2>1, ReadAdds
  <2> QED
    BY <2>1, <2>2, <2>3, ReadKeepsMeter DEF MeterInv
<1>4. CASE /\ ~PrintRow /\ ~\E op \in DOMAIN NoReading : ReadEnergy(op)
           /\ Next \/ UNCHANGED vars
  <2>1. /\ UNCHANGED <<reading, failed>>
        /\ \/ UNCHANGED energy
           \/ \E c \in Cpus \cup {Package} : energy' = [energy EXCEPT ![c] = @ + 1]
    BY <1>4
       DEF Next, Program, Pin, PinFails, OpenMsr, OpenMsrFails, ReadHwcr, WriteHwcr,
           VerifyHwcr, ReadUnits, Start, Loop, Consume, Ended
  <2>2. energy \in [Cpus \cup {Package} -> Nat]
    BY DEF Base
  <2>3. \A c \in Cpus \cup {Package} : energy'[c] \in Nat /\ energy[c] <= energy'[c]
    BY <2>1, <2>2
  <2>4. CASE UNCHANGED <<core, at, k>>
    <3>1. ~Done
      BY <1>1, <2>4 DEF Done, Rounds, numProcs
    <3>2. /\ FirstCore(core)' = FirstCore(core) /\ Started' = Started
          /\ Finished' = Finished /\ (PkgStarted' <=> PkgStarted)
          /\ (PkgFinished' <=> PkgFinished)
      BY <1>1, <2>4 DEF FirstCore, LastCore, Started, Finished, PkgStarted, PkgFinished,
         CoreStart, CoreEnd, PkgEnd, AllCores
    <3>3. CoresInv /\ PkgInv
      BY <2>1, <3>1 DEF MeterInv
    <3> QED
      BY <2>1, <2>3, <2>4, <3>2, <3>3, OtherKeepsCores, OtherKeepsPkg
  <2>5. CASE ~Done /\ NextOp /\ Body[at] \notin ReadOps \cup {"print"}
    <3>1. /\ core' = core /\ FirstCore(core)' = FirstCore(core)
          /\ Started' = Started /\ Finished' = Finished
          /\ (PkgStarted' <=> PkgStarted) /\ (PkgFinished' <=> PkgFinished)
      BY <1>1, <2>5, Counts DEF ReadOps
    <3>2. CoresInv /\ PkgInv
      BY <2>1, <2>5 DEF MeterInv
    <3> QED
      BY <2>1, <2>3, <3>1, <3>2, OtherKeepsCores, OtherKeepsPkg
  <2>6. UNCHANGED <<core, at, k>> \/ (~Done /\ NextOp /\ Body[at] \notin ReadOps \cup {"print"})
    <3>1. CASE OpenMsr \/ OpenMsrFails \/ Loop \/ Consume \/ Ended \/ UNCHANGED vars
      BY <3>1 DEF OpenMsr, OpenMsrFails, Loop, Consume, Ended
    <3>2. CASE Pin \/ PinFails \/ ReadHwcr \/ WriteHwcr \/ VerifyHwcr \/ ReadUnits \/ Start
      <4>1. PICK op \in {"pin", "read", "write", "verify", "units", "run"} : Doing(op) /\ NextOp
        BY <3>2 DEF Pin, PinFails, ReadHwcr, WriteHwcr, VerifyHwcr, ReadUnits, Start
      <4> QED
        BY <4>1, DoingIsNotDone DEF ReadOps
    <3> QED
      BY <1>4, <3>1, <3>2 DEF Next, Program
  <2> QED
    BY <2>4, <2>5, <2>6
<1> QED
  BY <1>2, <1>3, <1>4

LEMMA MeterShows ==
    ASSUME Base, MeterInv
    PROVE  WrapShows
<1> SUFFICES ASSUME Metering, Doing("print"), ~failed
    PROVE  /\ Row.pkgUsed < Wrap =>
                 Row.pkg = Row.pkgUsed \/ Row.pkg >= Wide - Wrap
           /\ Row.coresUsed < Wrap =>
                 Row.cores = Row.coresUsed \/ Row.cores >= Wide - HardCores * Wrap
           /\ Row.pkg % Wrap = Row.pkgUsed % Wrap
           /\ Row.cores % Wrap = Row.coresUsed % Wrap
  BY DEF WrapShows
<1>1. ~Done /\ Body[at] = "print"
  BY DoingIsNotDone
<1>2. /\ CoreStart \in 2..4 /\ at = CoreStart + 5
  BY <1>1, MeterBody
<1>3. Started = AllCores /\ Finished = AllCores /\ PkgStarted /\ PkgFinished
  <2>1. at > CoreStart /\ at > CoreStart + 1 /\ at > CoreEnd /\ at > PkgEnd
    BY <1>2 DEF CoreEnd, PkgEnd
  <2>2. CoreEnd \in Nat
    BY <1>2 DEF CoreEnd
  <2> QED
    BY <1>2, <2>1, <2>2 DEF Started, Finished, PkgStarted, PkgFinished
<1>4. CoresInv /\ PkgInv
  BY <1>1 DEF MeterInv
<1>5. /\ Wrap \in Nat \ {0} /\ Wide \in Nat /\ Wide % Wrap = 0 /\ HardCores * Wrap \in Nat
      /\ Wrap <= HardCores * Wrap /\ 2 * (HardCores * Wrap) < Wide
  <2>1. 2 * HardCores * Wrap = 2 * (HardCores * Wrap) /\ Wrap <= HardCores * Wrap
        /\ HardCores * Wrap \in Nat
    BY WidthAssumption
  <2> QED
    BY <2>1, WidthAssumption
<1>6. \A op \in ReadOps : reading[op].reg \in Nat /\ reading[op].used \in Nat
  BY DEF Base
<1>7. /\ Row.pkg = (reading["pkgEnd"].reg - reading["pkgStart"].reg) % Wide
      /\ Row.pkgUsed = reading["pkgEnd"].used - reading["pkgStart"].used
      /\ Row.cores = (reading["coreEnd"].reg - reading["coreStart"].reg) % Wide
      /\ Row.coresUsed = reading["coreEnd"].used - reading["coreStart"].used
  BY DEF Row, Difference, Used
<1>8. /\ Row.pkgUsed < Wrap => Row.pkg = Row.pkgUsed \/ Row.pkg >= Wide - Wrap
      /\ Row.pkg % Wrap = Row.pkgUsed % Wrap
  <2>1. PICK p, q \in Nat : IsRead("pkgStart", p) /\ IsRead("pkgEnd", q) /\ p <= q
    BY <1>3, <1>4 DEF PkgInv
  <2>2. PICK w, r \in Nat : /\ p = Wrap * w + (p % Wrap) /\ q = Wrap * r + (q % Wrap)
                            /\ w <= r
    <3>1. /\ p = Wrap * (p \div Wrap) + (p % Wrap) /\ q = Wrap * (q \div Wrap) + (q % Wrap)
          /\ p \div Wrap <= q \div Wrap /\ p \div Wrap \in Nat /\ q \div Wrap \in Nat
      BY <2>1, Counter
    <3> QED
      BY <3>1
  <2>3. p % Wrap \in 0..(Wrap - 1) /\ q % Wrap \in 0..(Wrap - 1)
    BY Counter
  <2>4. PICK sReg \in Nat, eReg \in Nat : /\ sReg = p % Wrap /\ eReg = q % Wrap
                                          /\ sReg <= Wrap
    BY <1>5, <2>3
  <2>5. p = sReg + Wrap * w /\ q = eReg + Wrap * r
    <3> PICK a \in Nat, b \in Nat : a = Wrap * w /\ b = Wrap * r
      BY <1>5
    <3>1. p = a + sReg /\ q = b + eReg
      BY <2>2, <2>4
    <3>2. p = sReg + a /\ q = eReg + b
      BY <3>1
    <3> QED
      BY <3>2
  <2>6. Wrap \in Nat /\ 2 * Wrap < Wide /\ Wrap <= Wrap
    BY <1>5
  <2>7. Sums(Wrap, sReg, p, w) /\ Sums(Wrap, eReg, q, r)
    BY <2>5 DEF Sums
  <2>8. Shows(Wrap, Wide, eReg - sReg, q - p, Wrap)
    BY <1>5, <2>1, <2>2, <2>4, <2>6, <2>7, Shown
  <2>9. Row.pkg = (eReg - sReg) % Wide /\ Row.pkgUsed = q - p
    BY <1>7, <2>1, <2>4 DEF IsRead
  <2> QED
    BY <2>8, <2>9, Zenon DEF Shows
<1>9. /\ Row.coresUsed < Wrap =>
            Row.cores = Row.coresUsed \/ Row.cores >= Wide - HardCores * Wrap
      /\ Row.cores % Wrap = Row.coresUsed % Wrap
  <2>1. PICK sum, wraps, e \in [Nat -> Nat], r \in Nat :
          Ledger(sum, wraps, e) /\ AtLeast(sum, wraps, r)
    BY <1>4 DEF CoresInv
  <2>2. AllCores \in 1..HardCores
    BY <1>1, CountTypes
  <2> PICK n \in Nat : n = AllCores /\ n <= HardCores
    BY <2>2, WidthAssumption
  <2> PICK w \in Nat : w = wraps[n]
    BY <2>1
  <2> PICK sReg \in Nat, sUsed \in Nat, eReg \in Nat, eUsed \in Nat :
         /\ sReg = reading["coreStart"].reg /\ sUsed = reading["coreStart"].used
         /\ eReg = reading["coreEnd"].reg /\ eUsed = reading["coreEnd"].used
    BY <1>6 DEF ReadOps
  <2>3. /\ sUsed = sReg + Wrap * w /\ sReg <= Wrap * n /\ eUsed = eReg + Wrap * r
        /\ sUsed <= eUsed /\ w <= r
    BY <1>3, <2>1 DEF Ledger, AtLeast
  <2>4. Wrap * n <= HardCores * Wrap
    BY <1>5, WidthAssumption
  <2>5. sReg <= HardCores * Wrap
    <3>1. Wrap * n \in Nat
      BY Distributes
    <3> PICK a \in Nat, b \in Nat : a = Wrap * n /\ b = HardCores * Wrap
      BY <1>5, <3>1, Zenon
    <3>2. sReg <= a /\ a <= b
      BY <2>3, <2>4, Zenon
    <3>3. sReg <= b
      BY <3>2
    <3> QED
      BY <3>3, Zenon
  <2>6. Sums(Wrap, sReg, sUsed, w) /\ Sums(Wrap, eReg, eUsed, r)
    BY <2>3 DEF Sums
  <2>8. Shows(Wrap, Wide, eReg - sReg, eUsed - sUsed, HardCores * Wrap)
    <3> PICK b \in Nat : b = HardCores * Wrap
      BY <1>5
    <3>1. 2 * b < Wide /\ Wrap <= b /\ sReg <= b
      BY <1>5, <2>5, Zenon
    <3>2. Shows(Wrap, Wide, eReg - sReg, eUsed - sUsed, b)
      BY <1>5, <2>3, <2>6, <3>1, Shown
    <3> QED
      BY <3>2, Zenon
  <2>7. Row.cores = (eReg - sReg) % Wide /\ Row.coresUsed = eUsed - sUsed
    BY <1>7
  <2> QED
    BY <2>7, <2>8, Zenon DEF Shows
<1> QED
  BY <1>8, <1>9

(* What measurecmd and power print of the energy counters is what was        *)
(* consumed, or, after a wrap, too large to be believed, for any number of   *)
(* cores summed up, any width of a counter, and any consumption.             *)
THEOREM WrapsShow == Spec => []WrapShows
<1>1. ASSUME Init
      PROVE  MeterInv
  <2>1. Base /\ at = 1 /\ reading = NoReading
    BY <1>1, InitBase DEF Init
  <2> QED
    BY <2>1, NothingRead DEF MeterInv
<1>2. Base /\ MeterInv /\ [Next]_vars => MeterInv'
  BY NextMeter
<1>3. Base /\ MeterInv => WrapShows
  BY MeterShows
<1> QED
  BY <1>1, <1>2, <1>3, BaseAlways, PTL DEF Spec
=============================================================================
