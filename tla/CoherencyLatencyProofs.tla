----------------------- MODULE CoherencyLatencyProofs -----------------------
(***************************************************************************)
(* Proofs about CoherencyLatency for every number of CPUs, offsets and     *)
(* iterations, every set of CPUs sched_setaffinity() accepts and any       *)
(* number of failed thread creations.                                      *)
(***************************************************************************)
EXTENDS CoherencyLatency, TLAPS

\* The value `current' has, or will have once the thread has started.
Eff(r) == IF tstate[Own(r)] \in {"none", "created"}
          THEN r ELSE current[Own(r)]

\* The tests main() has yet to come to, in the order of its loops.
Later(t) == \/ t[1] > offsetIdx
            \/ t[1] = offsetIdx /\ t[2] > i
            \/ t[1] = offsetIdx /\ t[2] = i /\ t[3] > j

InFrame == InTest \cup {"return"}

\* No thread exists before its test creates it.
FreshOK ==
    /\ pc \notin {"print", "exit", "crashed"}
          => \A t \in Test, r \in Role : Later(t) => tstate[<<t, r>>] = "none"
    /\ pc \in {"pair", "fill", "create1"} => tstate[Own(1)] = "none"
    /\ pc \in {"pair", "fill", "create1", "create2"} => tstate[Own(2)] = "none"

\* While the frame is live both targets point to the running test's cell.
FrameOK == pc \in InFrame => \A r \in Role : lat[r].target = offsetIdx

\* Twice the cell is what the two threads advanced, plus twice what was
\* stolen; as long as nothing was, the two threads are one step apart.
LedgerOK ==
    pc \in InFrame \cup {"fill"} =>
        /\ 2 * cell[offsetIdx] = (Eff(1) - 1) + (Eff(2) - 2) + 2 * stolen
        /\ stolen = 0 => Eff(1) = Eff(2) - 1 \/ Eff(1) = Eff(2) + 1

\* Thread 1 stays on odd values and thread 2 on even ones.
ParityOK ==
    \A t \in Thread : tstate[t] = "running" \/ current[t] # 0 =>
        \E k \in Nat : current[t] = t[2] + 2 * k

\* A thread whose frame is live exits only when its loop is over.
ExitOK ==
    pc \in InFrame => \A r \in Role :
        tstate[Own(r)] = "exited" => current[Own(r)] > 2 * Iter

\* What main() knows of the two threads when it joins them.
JoinOK ==
    /\ pc \in {"join1", "join2"} => BothCreated
    /\ pc = "join2" => tstate[Own(1)] = "exited"
    /\ Measured => \A r \in Role : tstate[Own(r)] = "exited"

IInv == /\ TypeOK /\ FreshOK /\ FrameOK /\ LedgerOK
        /\ ParityOK /\ ExitOK /\ JoinOK
-----------------------------------------------------------------------------
LEMMA Shapes ==
    ASSUME TypeOK
    PROVE  /\ cur \in Test
           /\ \A r \in Role : Own(r) \in Thread
           /\ \A t \in Thread : /\ t[1] \in Test /\ t[2] \in Role
                                /\ t = <<t[1], t[2]>>
BY DEF TypeOK, cur, Own, Test, Thread

\* The loops of main() move to a later test, or stop at the last one.
LEMMA AdvanceMoves ==
    ASSUME TypeOK, Advance
    PROVE  /\ offsetIdx' \in Slot /\ i' \in Proc /\ j' \in Proc
           /\ pc' \in {"pair", "print"}
           /\ pc' = "pair" => Later(<<offsetIdx, i, j>>')
           /\ pc' = "pair" => \A t \in Test : Later(t)' => Later(t)
<1> USE NumProcsAssumption, OffsetsAssumption DEF TypeOK, Slot, Proc
<1>1. /\ offsetIdx' \in Slot /\ i' \in Proc /\ j' \in Proc
      /\ pc' \in {"pair", "print"}
  <2>1. /\ j' \in {j, 0} \/ (j + 1 < NumProcs /\ j' = j + 1)
        /\ i' \in {i, 0} \/ (i + 1 < NumProcs /\ i' = i + 1)
        /\ \/ offsetIdx' = offsetIdx
           \/ offsetIdx + 1 < Offsets /\ offsetIdx' = offsetIdx + 1
        /\ pc' \in {"pair", "print"}
    <3> DEFINE Ends == j + 1 = NumProcs /\ i + 1 = NumProcs
    <3>1. CASE j + 1 < NumProcs /\ j' = j + 1 /\ pc' = "pair" /\ UNCHANGED <<i, offsetIdx>>
      BY <3>1
    <3>2. CASE /\ j + 1 = NumProcs /\ i + 1 < NumProcs
               /\ j' = 0 /\ i' = i + 1 /\ pc' = "pair" /\ UNCHANGED offsetIdx
      BY <3>2
    <3>3. CASE /\ Ends /\ offsetIdx + 1 < Offsets
               /\ j' = 0 /\ i' = 0 /\ offsetIdx' = offsetIdx + 1 /\ pc' = "pair"
      BY <3>3
    <3>4. CASE Ends /\ pc' = "print" /\ UNCHANGED <<offsetIdx, i, j>>
      BY <3>4
    <3> QED
      BY <3>1, <3>2, <3>3, <3>4 DEF Advance, mainVars
  <2>2. offsetIdx \in Slot /\ i \in Proc /\ j \in Proc
    OBVIOUS
  <2> QED
    BY <2>1, <2>2, SMTT(20)
<1>2. pc' = "pair" => \/ offsetIdx' > offsetIdx
                      \/ offsetIdx' = offsetIdx /\ i' > i
                      \/ offsetIdx' = offsetIdx /\ i' = i /\ j' > j
  BY DEF Advance, mainVars
<1>3. pc' = "pair" => Later(<<offsetIdx, i, j>>')
  BY <1>2 DEF Later
<1>4. ASSUME pc' = "pair", NEW t \in Test, Later(t)' PROVE Later(t)
  <2>1. t[1] \in Int /\ t[2] \in Int /\ t[3] \in Int
    BY DEF Test
  <2>2. \/ t[1] > offsetIdx'
        \/ t[1] = offsetIdx' /\ t[2] > i'
        \/ t[1] = offsetIdx' /\ t[2] = i' /\ t[3] > j'
    BY <1>4 DEF Later
  <2>3. /\ offsetIdx \in Int /\ i \in Int /\ j \in Int
        /\ offsetIdx' \in Int /\ i' \in Int /\ j' \in Int
    BY <1>1
  <2> HIDE DEF TypeOK
  <2> QED
    BY <1>2, <1>4, <2>1, <2>2, <2>3 DEF Later
<1> QED
  BY <1>1, <1>3, <1>4

LEMMA InitTypeOK == Init => TypeOK
BY NumProcsAssumption, OffsetsAssumption, IterAssumption, FailuresAssumption
   DEF Init, TypeOK, Slot, Proc, Role, InTest

\* One step preserves the types.
LEMMA NextTypeOK ==
    ASSUME TypeOK, [Next]_vars
    PROVE  TypeOK'
<1> USE NumProcsAssumption, OffsetsAssumption, IterAssumption,
        FailuresAssumption, ElapsedAssumption DEF TypeOK
<1>1. CASE SkipDiagonal
  BY <1>1, AdvanceMoves, Shapes DEF SkipDiagonal, threadVars
<1>2. CASE StoreResult
  BY <1>2, AdvanceMoves, Shapes DEF StoreResult, threadVars
<1>3. CASE PrintResults
  BY <1>3 DEF PrintResults, mainVars, threadVars
<1>4. CASE ResetCell
  BY <1>4 DEF ResetCell, mainVars, threadVars
<1>5. CASE FillLatencyData
  BY <1>5 DEF FillLatencyData, mainVars, threadVars, InTest
<1>6. ASSUME NEW r \in Role, CreateThread(r) PROVE TypeOK'
  BY <1>6, Shapes
     DEF CreateThread, AfterCreate, mainVars, threadVars, InTest, Role
<1>7. ASSUME NEW r \in Role, CreateThreadFails(r) PROVE TypeOK'
  BY <1>7 DEF CreateThreadFails, AfterCreate, mainVars, threadVars, InTest
<1>8. CASE ReportFailure
  BY <1>8, Shapes DEF ReportFailure, mainVars, threadVars, InTest
<1>9. CASE AwaitThreads
  BY <1>9 DEF AwaitThreads, mainVars, threadVars, InTest
<1>10. CASE JoinFirst
  BY <1>10 DEF JoinFirst, mainVars, threadVars, InTest
<1>11. CASE JoinSecond
  BY <1>11 DEF JoinSecond, mainVars, threadVars, InTest
<1>12. ASSUME NEW t \in Thread, StartThread(t) PROVE TypeOK'
  <2>1. t[2] \in 0..(2 * Iter + 2) /\ lat[t[2]].processorIndex \in Proc
    BY Shapes DEF Role
  <2> QED
    BY <1>12, <2>1 DEF StartThread, mainVars
<1>13. ASSUME NEW t \in Thread, Cas(t) PROVE TypeOK'
  <2>1. t[2] \in Role /\ lat[t[2]].target \in Slot
    BY Shapes
  <2>3. current[t] \in 0..(2 * Iter)
    BY <1>13 DEF Cas, Looping
  <2>2. /\ cell' \in [Slot -> 0..(2 * Iter)]
        /\ current' \in [Thread -> 0..(2 * Iter + 2)]
    BY <1>13, <2>1, <2>3 DEF Cas
  <2> QED
    BY <1>13, <2>2 DEF Cas, mainVars
<1>14. ASSUME NEW t \in Thread, ExitThread(t) PROVE TypeOK'
  BY <1>14 DEF ExitThread, mainVars
<1>15. ASSUME NEW t \in Thread, ReadDeadFrame(t) PROVE TypeOK'
  BY <1>15 DEF ReadDeadFrame, mainVars
<1>16. ASSUME UNCHANGED vars PROVE TypeOK'
  BY <1>16 DEF vars, mainVars, threadVars
<1> QED
  BY <1>1, <1>2, <1>3, <1>4, <1>5, <1>6, <1>7, <1>8, <1>9, <1>10, <1>11,
     <1>12, <1>13, <1>14, <1>15, <1>16
     DEF Next, Main, ThreadStep, Spin, Finished

\* The variables keep their types whatever the CPUs, the iteration count and
\* the number of failed pthread_create calls.
THEOREM TypeCorrect == Spec => []TypeOK
BY InitTypeOK, NextTypeOK, PTL DEF Spec
-----------------------------------------------------------------------------
LEMMA InitIInv == Init => IInv
<1> SUFFICES ASSUME Init PROVE IInv
  OBVIOUS
<1>1. TypeOK
  BY InitTypeOK
<1>2. \A t \in Thread : tstate[t] = "none" /\ current[t] = 0
  BY DEF Init
<1>3. Own(1) \in Thread /\ Own(2) \in Thread
  BY <1>1, Shapes DEF Role
<1>4. FreshOK
  BY <1>2, <1>3 DEF FreshOK, Thread
<1>5. pc = "pair"
  BY DEF Init
<1>6. FrameOK /\ LedgerOK /\ ExitOK /\ JoinOK
  BY <1>5 DEF FrameOK, LedgerOK, ExitOK, JoinOK, InFrame, InTest, Measured
<1>7. ParityOK
  BY <1>2 DEF ParityOK
<1> QED
  BY <1>1, <1>4, <1>6, <1>7 DEF IInv

\* The steps of main(), RunTest() and TimeThreads().
LEMMA MainIInv ==
    ASSUME IInv, Main, TypeOK'
    PROVE  IInv'
<1> DEFINE Rest == FreshOK /\ FrameOK /\ LedgerOK /\ ParityOK /\ ExitOK /\ JoinOK
<1> SUFFICES Rest'
  BY DEF IInv
<1>0. /\ TypeOK /\ FreshOK /\ FrameOK /\ LedgerOK
      /\ ParityOK /\ ExitOK /\ JoinOK
  BY DEF IInv
<1>own. cur \in Test /\ \A r \in Role : Own(r) = <<cur, r>> /\ Own(r) \in Thread
  BY <1>0, Shapes DEF Own
<1>a. ASSUME Advance, UNCHANGED <<tstate, current>>, pc \in {"pair", "return"}
      PROVE  Rest'
  <2>1. /\ pc' \in {"pair", "print"} /\ (pc' = "pair" => Later(cur'))
        /\ pc' = "pair" => \A t \in Test : Later(t)' => Later(t)
    BY <1>0, <1>a, AdvanceMoves DEF cur
  <2>2. cur' \in Test
    BY Shapes, TypeOK' DEF TypeOK, cur, Test
  <2>3. FreshOK'
    BY <1>0, <1>a, <2>1, <2>2 DEF FreshOK, Own, Role
  <2>4. ParityOK'
    BY <1>0, <1>a DEF ParityOK
  <2> QED
    BY <2>1, <2>3, <2>4
       DEF FrameOK, LedgerOK, ExitOK, JoinOK, InFrame, InTest, Measured
<1>1. CASE SkipDiagonal
  BY <1>1, <1>a DEF SkipDiagonal, threadVars
<1>2. CASE StoreResult
  BY <1>2, <1>a DEF StoreResult, threadVars
<1>3. CASE PrintResults
  BY <1>0, <1>3
     DEF PrintResults, threadVars, mainVars, FreshOK, FrameOK, LedgerOK,
         ParityOK, ExitOK, JoinOK, InFrame, InTest, Measured
<1>4. CASE ResetCell
  <2>1. /\ pc = "pair" /\ pc' = "fill"
        /\ UNCHANGED <<offsetIdx, i, j, tstate, current>>
        /\ cell'[offsetIdx] = 0 /\ stolen' = 0
    BY <1>0, <1>4 DEF ResetCell, mainVars, threadVars, TypeOK
  <2>2. FreshOK' /\ ParityOK'
    BY <1>0, <2>1 DEF FreshOK, ParityOK, Own, cur, Later
  <2>3. LedgerOK'
    <3>1. Eff(1)' = 1 /\ Eff(2)' = 2
      BY <1>0, <2>1 DEF FreshOK, Eff, Own, cur
    <3> QED
      BY <2>1, <3>1 DEF LedgerOK
  <2> QED
    BY <2>1, <2>2, <2>3
       DEF FrameOK, ExitOK, JoinOK, InFrame, InTest, Measured
<1>5. CASE FillLatencyData
  <2>1. /\ pc = "fill" /\ pc' = "create1"
        /\ UNCHANGED <<offsetIdx, i, j, tstate, current, cell, stolen>>
        /\ \A r \in Role : lat'[r].target = offsetIdx
    BY <1>5 DEF FillLatencyData, mainVars, threadVars
  <2>2. FreshOK' /\ ParityOK' /\ FrameOK'
    BY <1>0, <2>1 DEF FreshOK, ParityOK, FrameOK, Own, cur, Later
  <2>3. LedgerOK'
    BY <1>0, <2>1 DEF LedgerOK, Eff, Own, cur
  <2>4. ExitOK'
    BY <1>0, <2>1 DEF FreshOK, ExitOK, Own, cur, Role
  <2> QED
    BY <2>1, <2>2, <2>3, <2>4 DEF JoinOK, Measured
<1>6. ASSUME NEW r \in Role, CreateThread(r) PROVE Rest'
  <2>1. /\ pc = IF r = 1 THEN "create1" ELSE "create2"
        /\ pc' = IF r = 1 THEN "create2" ELSE "check"
        /\ UNCHANGED <<offsetIdx, i, j, lat, current, cell, stolen>>
        /\ tstate' = [tstate EXCEPT ![Own(r)] = "created"]
    BY <1>6 DEF CreateThread, AfterCreate, mainVars
  <2>2. tstate[Own(r)] = "none"
    BY <1>0, <2>1 DEF FreshOK, Role
  <2>3. \A t \in Thread : tstate'[t] = IF t = Own(r) THEN "created" ELSE tstate[t]
    BY <1>0, <2>1 DEF TypeOK
  <2>4. \A t \in Test, s \in Role : Later(t) => <<t, s>> # Own(r)
    <3>1. ~ Later(cur)
      BY <1>0 DEF Later, cur, TypeOK, Slot, Proc
    <3> QED
      BY <3>1, <1>own DEF Own
  <2>5. FreshOK'
    BY <1>0, <1>own, <2>1, <2>2, <2>3, <2>4
       DEF FreshOK, Own, cur, Later, Thread, Role
  <2>6. ParityOK'
    BY <1>0, <2>1, <2>3 DEF ParityOK
  <2>7. FrameOK' /\ ExitOK'
    BY <1>0, <1>own, <2>1, <2>3
       DEF FrameOK, ExitOK, Own, cur, InFrame, InTest, Role
  <2>8. Eff(1)' = Eff(1) /\ Eff(2)' = Eff(2)
    BY <1>own, <2>1, <2>2, <2>3 DEF Eff, Own, cur, Role
  <2>9. LedgerOK'
    BY <1>0, <2>1, <2>8 DEF LedgerOK, InFrame, InTest
  <2> QED
    BY <2>1, <2>5, <2>6, <2>7, <2>9 DEF JoinOK, Measured
<1>7. ASSUME NEW r \in Role, CreateThreadFails(r) PROVE Rest'
  <2>1. /\ pc = IF r = 1 THEN "create1" ELSE "create2"
        /\ pc' = IF r = 1 THEN "create2" ELSE "check"
        /\ UNCHANGED <<offsetIdx, i, j, lat, current, cell, stolen, tstate>>
    BY <1>7 DEF CreateThreadFails, AfterCreate, mainVars, threadVars
  <2>2. FreshOK' /\ ParityOK'
    BY <1>0, <2>1 DEF FreshOK, ParityOK, Own, cur, Later, Role
  <2>3. FrameOK' /\ ExitOK' /\ LedgerOK'
    BY <1>0, <2>1 DEF FrameOK, ExitOK, LedgerOK, Eff, Own, cur, InFrame, InTest
  <2> QED
    BY <2>1, <2>2, <2>3 DEF JoinOK, Measured
<1>b. ASSUME UNCHANGED <<offsetIdx, i, j, lat, current, cell, stolen, tstate>>,
             pc \in {"check", "join1", "join2"},
             pc' \in {"join1", "join2", "return"}
      PROVE  /\ FreshOK' /\ FrameOK' /\ LedgerOK' /\ ParityOK' /\ ExitOK'
             /\ BothCreated' = BothCreated
  <2>1. FreshOK' /\ ParityOK'
    BY <1>0, <1>b DEF FreshOK, ParityOK, Own, cur, Later
  <2>2. FrameOK' /\ ExitOK' /\ LedgerOK'
    BY <1>0, <1>b DEF FrameOK, ExitOK, LedgerOK, Eff, Own, cur, InFrame, InTest
  <2> QED
    BY <1>b, <2>1, <2>2 DEF BothCreated, Own, cur
<1>8. CASE ReportFailure
  <2>1. cur' \in reported' /\ pc' = "return"
    BY <1>8, <1>own DEF ReportFailure, mainVars, cur
  <2> QED
    BY <1>8, <1>b, <2>1 DEF ReportFailure, mainVars, threadVars, JoinOK, Measured
<1>9. CASE AwaitThreads
  BY <1>9, <1>b DEF AwaitThreads, mainVars, threadVars, JoinOK, Measured
<1>10. CASE JoinFirst
  BY <1>0, <1>10, <1>b
     DEF JoinFirst, mainVars, threadVars, JoinOK, Measured, Own, cur
<1>11. CASE JoinSecond
  BY <1>0, <1>11, <1>b
     DEF JoinSecond, mainVars, threadVars, JoinOK, Measured, Own, cur, Role
<1> QED
  BY <1>1, <1>2, <1>3, <1>4, <1>5, <1>6, <1>7, <1>8, <1>9, <1>10, <1>11
     DEF Main

\* The steps of the threads, of this test and of earlier ones.
LEMMA ThreadIInv ==
    ASSUME IInv, NEW t \in Thread, ThreadStep(t) \/ ReadDeadFrame(t), TypeOK'
    PROVE  IInv'
<1> DEFINE Rest == FreshOK /\ FrameOK /\ LedgerOK /\ ParityOK /\ ExitOK /\ JoinOK
<1> SUFFICES Rest'
  BY DEF IInv
<1>0. /\ TypeOK /\ FreshOK /\ FrameOK /\ LedgerOK
      /\ ParityOK /\ ExitOK /\ JoinOK
  BY DEF IInv
<1>own. /\ cur \in Test
        /\ \A r \in Role : Own(r) = <<cur, r>> /\ Own(r) \in Thread
        /\ \A u \in Thread : u[1] \in Test /\ u[2] \in Role /\ u = <<u[1], u[2]>>
  BY <1>0, Shapes DEF Own
<1>pc. /\ UNCHANGED <<offsetIdx, i, j, lat, reported>>
       /\ UNCHANGED pc \/ pc' = "crashed"
       /\ tstate[t] \in {"created", "running"}
       /\ \E x \in {"running", "exited", tstate[t]} :
              tstate' = [tstate EXCEPT ![t] = x]
  BY <1>0 DEF ThreadStep, ReadDeadFrame, StartThread, Cas, ExitThread, Looping,
              mainVars, TypeOK
<1>st. \A u \in Thread : u # t => tstate'[u] = tstate[u]
  BY <1>0, <1>pc DEF TypeOK
<1>cur. cur' = cur /\ \A r \in Role : Own(r)' = Own(r)
  BY <1>pc DEF cur, Own
<1>fresh. FreshOK'
  BY <1>0, <1>pc, <1>st, <1>own, <1>cur DEF FreshOK, Later, Thread, Role, InTest
<1>1. CASE StartThread(t)
  <2>1. /\ UNCHANGED <<pc, cell, stolen>>
        /\ tstate[t] = "created" /\ tstate'[t] = "running"
        /\ current'[t] = t[2]
        /\ \A u \in Thread : u # t => current'[u] = current[u]
    BY <1>0, <1>1 DEF StartThread, TypeOK
  <2>2. \A r \in Role : Eff(r)' = Eff(r)
    BY <1>own, <1>cur, <1>st, <2>1 DEF Eff
  <2>3. FrameOK' /\ LedgerOK'
    BY <1>0, <1>pc, <2>1, <2>2 DEF FrameOK, LedgerOK, Role
  <2>4. ParityOK'
    <3>1. t[2] \in Nat /\ t[2] = t[2] + 2 * 0
      BY <1>own DEF Role
    <3> QED
      BY <1>0, <1>st, <2>1, <3>1 DEF ParityOK
  <2>5. ExitOK' /\ JoinOK'
    BY <1>0, <1>own, <1>pc, <1>cur, <1>st, <2>1
       DEF ExitOK, JoinOK, BothCreated, Measured, Role
  <2> QED
    BY <1>fresh, <2>3, <2>4, <2>5
<1>2. CASE Cas(t)
  <2>1. /\ UNCHANGED <<pc, tstate>>
        /\ tstate[t] = "running" /\ current[t] <= 2 * Iter
        /\ current'[t] = current[t] + 2
        /\ \A u \in Thread : u # t => current'[u] = current[u]
    BY <1>0, <1>2 DEF Cas, Looping, TypeOK
  <2>2. FrameOK' /\ JoinOK'
    <3>1. BothCreated' = BothCreated /\ Measured' = Measured
      BY <1>pc, <1>cur, <2>1 DEF BothCreated, Measured
    <3>2. \A r \in Role : tstate'[Own(r)'] = tstate[Own(r)]
      BY <1>cur, <2>1
    <3> QED
      BY <1>0, <1>pc, <2>1, <3>1, <3>2 DEF FrameOK, JoinOK, Role
  <2>3. ExitOK'
    BY <1>0, <1>own, <1>pc, <1>cur, <2>1 DEF ExitOK
  <2>4. ParityOK'
    <3>1. PICK k \in Nat : current[t] = t[2] + 2 * k
      BY <1>0, <2>1 DEF ParityOK
    <3>2. current'[t] = t[2] + 2 * (k + 1) /\ k + 1 \in Nat
      BY <1>own, <2>1, <3>1 DEF Role
    <3> QED
      BY <1>0, <2>1, <3>2 DEF ParityOK
  <2>5. LedgerOK'
    <3> SUFFICES ASSUME pc \in InFrame \cup {"fill"} PROVE LedgerOK'
      BY <2>1 DEF LedgerOK
    <3>0. /\ 2 * cell[offsetIdx] = (Eff(1) - 1) + (Eff(2) - 2) + 2 * stolen
          /\ stolen = 0 => Eff(1) = Eff(2) - 1 \/ Eff(1) = Eff(2) + 1
      BY <1>0 DEF LedgerOK
    <3>ty. /\ Eff(1) \in Int /\ Eff(2) \in Int /\ stolen \in Nat
           /\ \A s \in Slot : cell[s] \in Int
           /\ current[t] \in Int /\ offsetIdx \in Slot
      BY <1>0, <1>own DEF TypeOK, Eff, Role
    <3>tg. /\ lat[t[2]].target \in Slot
           /\ cell[lat[t[2]].target] = current[t] - 1
           /\ cell' = [cell EXCEPT ![lat[t[2]].target] = current[t]]
      BY <1>0, <1>2, <1>own DEF Cas, CasWouldSucceed, TypeOK
    <3>cell. \A s \in Slot : cell'[s] = IF s = lat[t[2]].target
                                        THEN current[t] ELSE cell[s]
      BY <1>0, <3>tg DEF TypeOK
    <3>sto. stolen' = IF t[1] # cur /\ lat[t[2]].target = offsetIdx
                      THEN stolen + 1 ELSE stolen
      BY <1>2 DEF Cas
    <3>1. CASE t[1] = cur
      <4>1. /\ t = Own(t[2]) /\ pc \in InFrame
            /\ lat[t[2]].target = offsetIdx
        BY <1>0, <1>own, <2>1, <3>1 DEF FreshOK, FrameOK, Role
      <4>2. /\ stolen' = stolen /\ cell[offsetIdx] = current[t] - 1
            /\ cell'[offsetIdx] = cell[offsetIdx] + 1
        BY <3>1, <3>ty, <3>tg, <3>cell, <3>sto, <4>1
      <4>3. Eff(t[2]) = current[t] /\ Eff(t[2])' = current[t] + 2
        BY <1>own, <1>cur, <2>1, <4>1 DEF Eff
      <4>4. \A r \in Role : r # t[2] => Eff(r)' = Eff(r)
        BY <1>own, <1>cur, <2>1, <4>1 DEF Eff
      <4>5. \/ Eff(1)' = Eff(1) + 2 /\ Eff(2)' = Eff(2) /\ Eff(1) = cell[offsetIdx] + 1
            \/ Eff(2)' = Eff(2) + 2 /\ Eff(1)' = Eff(1) /\ Eff(2) = cell[offsetIdx] + 1
        BY <1>own, <3>ty, <4>2, <4>3, <4>4 DEF Role
      <4> QED
        BY <1>pc, <3>0, <3>ty, <4>2, <4>5 DEF LedgerOK
    <3>2. CASE t[1] # cur
      <4>1. \A r \in Role : Eff(r)' = Eff(r)
        BY <1>own, <1>cur, <2>1, <3>2 DEF Eff
      <4>2. \/ stolen' = stolen + 1 /\ cell'[offsetIdx] = cell[offsetIdx] + 1
            \/ stolen' = stolen /\ cell'[offsetIdx] = cell[offsetIdx]
        BY <3>2, <3>ty, <3>tg, <3>cell, <3>sto
      <4>3. Eff(1)' = Eff(1) /\ Eff(2)' = Eff(2)
        BY <4>1 DEF Role
      <4>4. cell[offsetIdx] \in Int /\ offsetIdx' = offsetIdx
        BY <1>pc, <3>ty
      <4>5. /\ 2 * cell'[offsetIdx] = (Eff(1) - 1) + (Eff(2) - 2) + 2 * stolen'
            /\ stolen' = 0 => stolen = 0
        BY <3>0, <3>ty, <4>2, <4>4
      <4> QED
        BY <3>0, <4>3, <4>4, <4>5 DEF LedgerOK
    <3> QED
      BY <3>1, <3>2
  <2> QED
    BY <1>fresh, <2>2, <2>3, <2>4, <2>5
<1>3. CASE ExitThread(t)
  <2>1. /\ UNCHANGED <<pc, cell, stolen, current>>
        /\ tstate[t] = "running" /\ tstate'[t] = "exited"
        /\ current[t] > 2 * Iter
    BY <1>0, <1>3 DEF ExitThread, TypeOK
  <2>2. \A r \in Role : Eff(r)' = Eff(r)
    BY <1>own, <1>cur, <1>st, <2>1 DEF Eff
  <2>3. FrameOK' /\ LedgerOK'
    BY <1>0, <1>pc, <2>1, <2>2 DEF FrameOK, LedgerOK, Role
  <2>4. ParityOK'
    BY <1>0, <1>st, <2>1 DEF ParityOK
  <2>5. ExitOK' /\ JoinOK'
    BY <1>0, <1>own, <1>pc, <1>cur, <1>st, <2>1
       DEF ExitOK, JoinOK, BothCreated, Measured, Role
  <2> QED
    BY <1>fresh, <2>3, <2>4, <2>5
<1>4. CASE ReadDeadFrame(t)
  <2>1. /\ UNCHANGED <<cell, stolen, current>>
        /\ pc \in {"pair", "fill", "print"}
        /\ UNCHANGED pc \/ pc' = "crashed"
    BY <1>0, <1>4 DEF ReadDeadFrame, FrameLive, Alive, TypeOK
  <2>2. ParityOK'
    <3>1. tstate'[t] = "running" => tstate[t] = "running"
      BY <1>0, <1>4 DEF ReadDeadFrame, TypeOK
    <3> QED
      BY <1>0, <1>st, <2>1, <3>1 DEF ParityOK
  <2>3. LedgerOK'
    <3>1. pc = "fill" => \A r \in Role : t # Own(r)
      BY <1>0, <1>pc, <1>own DEF FreshOK, Role
    <3>2. pc = "fill" => \A r \in Role : Eff(r)' = Eff(r)
      BY <1>own, <1>cur, <1>st, <2>1, <3>1 DEF Eff
    <3> QED
      BY <1>0, <1>pc, <2>1, <3>2 DEF LedgerOK, InFrame, InTest, Role
  <2> QED
    BY <1>fresh, <2>1, <2>2, <2>3
       DEF FrameOK, ExitOK, JoinOK, InFrame, InTest, Measured
<1> QED
  BY <1>1, <1>2, <1>3, <1>4 DEF ThreadStep

LEMMA NextIInv ==
    ASSUME IInv, [Next]_vars
    PROVE  IInv'
<1>1. TypeOK'
  BY NextTypeOK DEF IInv
<1>2. CASE Main
  BY <1>1, <1>2, MainIInv
<1>3. ASSUME NEW t \in Thread, ThreadStep(t) \/ ReadDeadFrame(t) PROVE IInv'
  BY <1>1, <1>3, ThreadIInv
<1>4. CASE UNCHANGED vars
  BY <1>4 DEF vars, mainVars, threadVars, IInv, TypeOK, FreshOK, FrameOK,
              LedgerOK, ParityOK, ExitOK, JoinOK, Measured, BothCreated,
              Later, Eff, Own, cur
<1> QED
  BY <1>2, <1>3, <1>4 DEF Next, Spin, Finished

\* The value each thread of the running test has left its loop with.
LEMMA FinalValues ==
    ASSUME IInv, pc \in InFrame
    PROVE  /\ tstate[Own(1)] = "exited" => Eff(1) = 2 * Iter + 1
           /\ tstate[Own(2)] = "exited" => Eff(2) = 2 * Iter + 2
<1> SUFFICES ASSUME NEW r \in Role, tstate[Own(r)] = "exited"
             PROVE  Eff(r) = 2 * Iter + r
  BY DEF Role
<1>1. /\ Own(r) \in Thread /\ Own(r)[2] = r
      /\ current[Own(r)] \in 0..(2 * Iter + 2) /\ current[Own(r)] > 2 * Iter
  BY Shapes DEF IInv, TypeOK, ExitOK, Own
<1>2. PICK k \in Nat : current[Own(r)] = r + 2 * k
  BY <1>1, IterAssumption DEF IInv, ParityOK
<1> QED
  BY <1>1, <1>2, IterAssumption DEF Eff, Role

\* A measured test saw all of its 2 * Iter increments and only its own two
\* threads made them, whatever threads earlier failures left running.
THEOREM MeasuredTestCorrect == Spec => []MeasuredTestIsClean
<1>1. ASSUME IInv, Measured PROVE cell[offsetIdx] = 2 * Iter /\ stolen = 0
  <2>1. /\ 2 * cell[offsetIdx] = (Eff(1) - 1) + (Eff(2) - 2) + 2 * stolen
        /\ cell[offsetIdx] \in 0..(2 * Iter) /\ stolen \in Nat
    BY <1>1 DEF IInv, LedgerOK, Measured, InFrame, TypeOK
  <2>2. Eff(1) = 2 * Iter + 1 /\ Eff(2) = 2 * Iter + 2
    BY <1>1, FinalValues DEF IInv, JoinOK, ExitOK, Measured, InFrame, Role
  <2> QED
    BY <2>1, <2>2, IterAssumption
<1>2. IInv => MeasuredTestIsClean
  BY <1>1 DEF MeasuredTestIsClean
<1> QED
  BY <1>2, InitIInv, NextIInv, PTL DEF Spec

\* While main() waits for its two threads one of them can proceed, unless a
\* thread left behind by a failed pthread_create took an increment of theirs.
THEOREM HangCorrect == Spec => []HangsOnlyIfRobbed
<1>1. ASSUME IInv, Waiting, stolen = 0,
             \A r \in Role : ~ CanMove(Own(r))
      PROVE  FALSE
  <2>1. /\ pc \in {"join1", "join2"} /\ pc \in InFrame /\ Alive /\ BothCreated
        /\ \A r \in Role : lat[r].target = offsetIdx
    BY <1>1 DEF IInv, Waiting, JoinOK, FrameOK, InFrame, InTest, Alive
  <2>2. \A r \in Role : /\ tstate[Own(r)] \in {"running", "exited"}
                        /\ current[Own(r)] \in Int /\ Eff(r) = current[Own(r)]
                        /\ Own(r)[2] = r
    BY <1>1, <2>1, Shapes DEF IInv, TypeOK, BothCreated, CanMove, Eff, Own
  <2>3. \A r \in Role : tstate[Own(r)] = "running" =>
            Eff(r) <= 2 * Iter /\ cell[offsetIdx] # Eff(r) - 1
    BY <1>1, <2>1, <2>2, IterAssumption DEF CanMove, Looping, CasWouldSucceed
  <2>4. /\ tstate[Own(1)] = "exited" => Eff(1) = 2 * Iter + 1
        /\ tstate[Own(2)] = "exited" => Eff(2) = 2 * Iter + 2
    BY <1>1, <2>1, FinalValues
  <2>5. /\ 2 * cell[offsetIdx] = (Eff(1) - 1) + (Eff(2) - 2)
        /\ Eff(1) = Eff(2) - 1 \/ Eff(1) = Eff(2) + 1
        /\ cell[offsetIdx] \in Int
    BY <1>1, <2>1, <2>2 DEF IInv, LedgerOK, TypeOK, Role
  <2>6. \E r \in Role : tstate[Own(r)] = "running"
    BY <1>1, <2>1, <2>2 DEF Waiting, IInv, JoinOK, Role
  <2> QED
    BY <2>2, <2>3, <2>4, <2>5, <2>6, IterAssumption DEF Role
<1>2. IInv => HangsOnlyIfRobbed
  BY <1>1 DEF HangsOnlyIfRobbed
<1> QED
  BY <1>2, InitIInv, NextIInv, PTL DEF Spec
-----------------------------------------------------------------------------
(* EntriesArePinnedPairs *)

Processor(r) == IF r = 1 THEN i ELSE j

\* While the frame is live it names the pair's CPUs, and the test's threads
\* that have started are pinned to them.
PinOK ==
    pc \in InFrame => \A r \in Role :
        /\ lat[r].processorIndex = Processor(r)
        /\ tstate[Own(r)] \in {"running", "exited"} =>
               affinity[Own(r)] = Processor(r)

\* The entries of the tests main() has passed are set.
DoneOK ==
    \A t \in Test :
        \/ latencies[t] # Unset
        \/ pc \notin {"print", "exit"} /\ (Later(t) \/ t = cur)
        \/ pc = "crashed"

\* The loops of main() go to the very next test, and stop after the last one.
LEMMA AdvanceIsNext ==
    ASSUME TypeOK, Advance, NEW t \in Test, Later(t)
    PROVE  pc' = "pair" /\ (Later(t)' \/ t = cur')
<1> USE NumProcsAssumption, OffsetsAssumption DEF Slot, Proc
<1>1. /\ t[1] \in 0..(Offsets - 1) /\ t[2] \in 0..(NumProcs - 1)
      /\ t[3] \in 0..(NumProcs - 1) /\ t = <<t[1], t[2], t[3]>>
  BY DEF Test
<1>2. /\ offsetIdx \in 0..(Offsets - 1)
      /\ i \in 0..(NumProcs - 1) /\ j \in 0..(NumProcs - 1)
  BY DEF TypeOK
<1>3. \/ t[1] > offsetIdx
      \/ t[1] = offsetIdx /\ t[2] > i
      \/ t[1] = offsetIdx /\ t[2] = i /\ t[3] > j
  BY DEF Later
<1>4. /\ pc' = "pair"
      /\ \/ t[1] > offsetIdx'
         \/ t[1] = offsetIdx' /\ t[2] > i'
         \/ t[1] = offsetIdx' /\ t[2] = i' /\ t[3] > j'
         \/ t[1] = offsetIdx' /\ t[2] = i' /\ t[3] = j'
  BY <1>1, <1>2, <1>3 DEF Advance, mainVars
<1> QED
  BY <1>1, <1>4 DEF Later, cur

LEMMA InitPinned == Init => PinOK /\ DoneOK
<1> SUFFICES ASSUME Init, NEW t \in Test PROVE Later(t) \/ t = cur
  BY DEF Init, PinOK, DoneOK, InFrame, InTest
<1> QED
  BY NumProcsAssumption, OffsetsAssumption
     DEF Init, Later, Test, Slot, Proc, cur

\* A step keeps the passed entries set.
LEMMA NextDone ==
    ASSUME TypeOK, DoneOK, [Next]_vars
    PROVE  DoneOK'
<1> SUFFICES ASSUME NEW t \in Test, pc' # "crashed"
             PROVE  \/ latencies'[t] # Unset
                    \/ pc' \notin {"print", "exit"} /\ (Later(t)' \/ t = cur')
  BY DEF DoneOK
<1>0. pc # "crashed"
  BY DEF Next, Main, ThreadStep, Spin, ReadDeadFrame, StartThread, Cas,
         ExitThread, Looping, Alive, Finished, vars, SkipDiagonal, StoreResult,
         PrintResults, ResetCell, FillLatencyData, CreateThread,
         CreateThreadFails, ReportFailure, AwaitThreads, JoinFirst, JoinSecond
<1>a. ASSUME Advance, pc \in {"pair", "return"},
             NEW v \in Nat, latencies' = [latencies EXCEPT ![cur] = v]
      PROVE  \/ latencies'[t] # Unset
             \/ pc' \notin {"print", "exit"} /\ (Later(t)' \/ t = cur')
  <2>1. CASE Later(t)
    BY <1>a, <2>1, AdvanceIsNext
  <2>2. CASE t = cur
    BY <1>a, <2>2 DEF TypeOK, Unset
  <2>3. CASE latencies[t] # Unset
    BY <1>a, <2>2, <2>3 DEF TypeOK
  <2> QED
    BY <1>a, <2>1, <2>2, <2>3 DEF DoneOK
<1>1. CASE SkipDiagonal
  BY <1>1, <1>a DEF SkipDiagonal
<1>2. CASE StoreResult
  BY <1>2, <1>a DEF StoreResult, TypeOK
<1>3. CASE PrintResults
  BY <1>3 DEF PrintResults, DoneOK
<1>4. ASSUME UNCHANGED <<mainVars, latencies>>,
             pc' = pc \/ pc' \notin {"print", "exit"}
      PROVE  \/ latencies'[t] # Unset
             \/ pc' \notin {"print", "exit"} /\ (Later(t)' \/ t = cur')
  <2>1. (Later(t)' <=> Later(t)) /\ cur' = cur /\ latencies' = latencies
    BY <1>4 DEF Later, cur, mainVars
  <2>2. CASE pc' = pc
    BY <1>0, <2>1, <2>2 DEF DoneOK
  <2>3. CASE pc' \notin {"print", "exit"}
    <3>1. latencies[t] # Unset \/ Later(t) \/ t = cur
      BY <1>0 DEF DoneOK
    <3> QED
      BY <2>1, <2>3, <3>1
  <2> QED
    BY <1>4, <2>2, <2>3
<1>5. CASE ResetCell \/ FillLatencyData
  BY <1>5, <1>4 DEF ResetCell, FillLatencyData
<1>6. ASSUME NEW r \in Role, CreateThread(r) \/ CreateThreadFails(r)
      PROVE  UNCHANGED <<mainVars, latencies>> /\ pc' \notin {"print", "exit"}
  BY <1>6 DEF CreateThread, CreateThreadFails, AfterCreate
<1>7. CASE ReportFailure \/ AwaitThreads \/ JoinFirst \/ JoinSecond
  BY <1>7, <1>4 DEF ReportFailure, AwaitThreads, JoinFirst, JoinSecond
<1>8. ASSUME NEW u \in Thread, ThreadStep(u) \/ Spin(u) \/ ReadDeadFrame(u)
      PROVE  UNCHANGED <<mainVars, latencies>> /\ pc' = pc
  BY <1>8 DEF ThreadStep, StartThread, Cas, ExitThread, Spin, ReadDeadFrame,
              vars, mainVars
<1>9. CASE Finished \/ UNCHANGED vars
  BY <1>9, <1>4 DEF Finished, vars, mainVars
<1> QED
  BY <1>1, <1>2, <1>3, <1>4, <1>5, <1>6, <1>7, <1>8, <1>9 DEF Next, Main

\* A step keeps the started threads of the running test pinned to its pair,
\* provided sched_setaffinity() accepts every CPU number below get_nprocs().
LEMMA NextPinned ==
    ASSUME Proc \subseteq Online, IInv, PinOK, [Next]_vars
    PROVE  PinOK'
<1>0. TypeOK /\ FreshOK
  BY DEF IInv
<1>own. /\ \A r \in Role : Own(r) = <<cur, r>> /\ Own(r) \in Thread
        /\ \A u \in Thread : u[2] \in Role
  BY <1>0, Shapes DEF Own
<1>a. ASSUME UNCHANGED <<mainVars, lat, tstate, affinity>>,
             pc' \in InFrame => pc \in InFrame
      PROVE  PinOK'
  BY <1>a DEF PinOK, Own, cur, Processor, mainVars
<1>b. ASSUME pc' \notin InFrame PROVE PinOK'
  BY <1>b DEF PinOK
<1>1. CASE SkipDiagonal \/ StoreResult \/ PrintResults \/ ResetCell
  BY <1>1, <1>b DEF SkipDiagonal, StoreResult, Advance, PrintResults, ResetCell,
                    InFrame, InTest
<1>2. CASE FillLatencyData
  <2>1. /\ UNCHANGED <<offsetIdx, i, j, tstate>> /\ pc = "fill"
        /\ \A r \in Role : lat'[r].processorIndex = Processor(r)
    BY <1>2 DEF FillLatencyData, mainVars, threadVars, Processor
  <2>2. \A r \in Role : Own(r)' = Own(r) /\ tstate[Own(r)] = "none"
    BY <1>0, <2>1 DEF FreshOK, Role, Own, cur
  <2> QED
    BY <2>1, <2>2 DEF PinOK, Processor
<1>3. ASSUME NEW r \in Role, CreateThread(r) PROVE PinOK'
  <2>1. /\ UNCHANGED <<offsetIdx, i, j, lat, affinity>> /\ pc \in InFrame
        /\ tstate' = [tstate EXCEPT ![Own(r)] = "created"]
    BY <1>3 DEF CreateThread, mainVars, InFrame, InTest, Role
  <2>2. \A s \in Role : /\ Own(s)' = Own(s)
                        /\ tstate'[Own(s)] \in {"running", "exited"} =>
                               tstate[Own(s)] = tstate'[Own(s)]
    BY <1>0, <1>own, <2>1 DEF TypeOK, Own, cur
  <2> QED
    BY <2>1, <2>2 DEF PinOK, Processor
<1>4. ASSUME NEW r \in Role, CreateThreadFails(r) PROVE PinOK'
  BY <1>4, <1>a DEF CreateThreadFails, threadVars, InFrame, InTest, Role
<1>5. CASE ReportFailure \/ AwaitThreads \/ JoinFirst \/ JoinSecond
  BY <1>5, <1>a DEF ReportFailure, AwaitThreads, JoinFirst, JoinSecond,
                    threadVars, InFrame, InTest
<1>6. ASSUME NEW u \in Thread, StartThread(u) PROVE PinOK'
  <2> SUFFICES ASSUME pc \in InFrame, NEW r \in Role,
                      tstate'[Own(r)] \in {"running", "exited"}
               PROVE  affinity'[Own(r)] = Processor(r)
    BY <1>6 DEF PinOK, StartThread, mainVars, Own, cur, Processor
  <2>1. lat[u[2]].processorIndex \in Online
    BY <1>0, <1>own DEF TypeOK
  <2>2. CASE Own(r) = u
    BY <1>0, <1>6, <1>own, <2>1, <2>2 DEF PinOK, StartThread, TypeOK
  <2>3. CASE Own(r) # u
    BY <1>0, <1>6, <1>own, <2>3 DEF PinOK, StartThread, TypeOK
  <2> QED
    BY <2>2, <2>3
<1>7. ASSUME NEW u \in Thread, Cas(u) \/ Spin(u) PROVE PinOK'
  BY <1>7, <1>a DEF Cas, Spin, vars, mainVars
<1>8. ASSUME NEW u \in Thread, ExitThread(u) PROVE PinOK'
  <2>1. /\ UNCHANGED <<pc, offsetIdx, i, j, lat, affinity>>
        /\ tstate[u] = "running" /\ tstate' = [tstate EXCEPT ![u] = "exited"]
    BY <1>8 DEF ExitThread, mainVars
  <2>2. \A r \in Role : /\ Own(r)' = Own(r)
                        /\ tstate'[Own(r)] \in {"running", "exited"} =>
                               tstate[Own(r)] \in {"running", "exited"}
    BY <1>0, <1>own, <2>1 DEF TypeOK, Own, cur
  <2> QED
    BY <2>1, <2>2 DEF PinOK, Processor
<1>9. ASSUME NEW u \in Thread, ReadDeadFrame(u) PROVE PinOK'
  BY <1>9, <1>b DEF ReadDeadFrame, FrameLive, InFrame, InTest
<1>10. CASE Finished \/ UNCHANGED vars
  BY <1>10, <1>a DEF Finished, vars, mainVars
<1> QED
  BY <1>1, <1>2, <1>3, <1>4, <1>5, <1>6, <1>7, <1>8, <1>9, <1>10
     DEF Next, Main, ThreadStep

\* Where sched_setaffinity() accepts every CPU number below get_nprocs(), the
\* threads of a measured test ran on the CPUs of its entry, whatever thread
\* creations failed, and no printed entry is uninitialised.
THEOREM EntriesCorrect ==
    ASSUME Proc \subseteq Online
    PROVE  Spec => []EntriesArePinnedPairs
<1> DEFINE Inv == IInv /\ PinOK /\ DoneOK
<1>1. Init => Inv
  BY InitIInv, InitPinned
<1>2. Inv /\ [Next]_vars => Inv'
  BY NextIInv, NextPinned, NextDone DEF IInv
<1>3. Inv => EntriesArePinnedPairs
  <2> SUFFICES ASSUME Inv PROVE EntriesArePinnedPairs
    OBVIOUS
  <2>1. Measured => affinity[Own(1)] = i /\ affinity[Own(2)] = j
    BY DEF IInv, JoinOK, PinOK, Processor, Measured, InFrame, Role
  <2>2. pc = "exit" => \A t \in Test : latencies[t] # Unset
    BY DEF DoneOK
  <2> QED
    BY <2>1, <2>2 DEF EntriesArePinnedPairs
<1> QED
  BY <1>1, <1>2, <1>3, PTL DEF Spec
-----------------------------------------------------------------------------
(* Refinement of Bounce, when no pthread_create fails *)

\* Every thread was created before the joins and has exited after them, and
\* the threads of other tests are over or not there yet.
NoLeftovers ==
    /\ pc # "crashed" /\ stolen = 0
    /\ pc = "create2" => tstate[Own(1)] # "none"
    /\ pc = "check" => BothCreated
    /\ pc \notin InTest => \A t \in Thread : tstate[t] \in {"none", "exited"}
    /\ \A t \in Thread : t[1] # cur => tstate[t] \in {"none", "exited"}

RInv == IInv /\ NoLeftovers

LEMMA InitNoLeftovers == Init => NoLeftovers
BY DEF Init, NoLeftovers, InTest

\* Without failures main() always reaches the joins, and what it leaves behind
\* there are threads that have exited.
LEMMA MainNoLeftovers ==
    ASSUME MaxFailures = 0, RInv, Main
    PROVE  NoLeftovers'
<1>0. /\ TypeOK /\ FreshOK /\ JoinOK /\ NoLeftovers
      /\ pc # "crashed" /\ stolen = 0
      /\ \A r \in Role : Own(r) = <<cur, r>> /\ Own(r) \in Thread
      /\ \A t \in Thread : t[1] = cur => t = Own(1) \/ t = Own(2)
  BY Shapes DEF RInv, IInv, NoLeftovers, Own, Role
<1>a. ASSUME UNCHANGED tstate, pc \notin InTest, pc' # "crashed", stolen' = 0,
             pc' \notin InTest \/ pc' = "create1"
      PROVE  NoLeftovers'
  <2>1. \A t \in Thread : tstate'[t] \in {"none", "exited"}
    BY <1>0, <1>a DEF NoLeftovers
  <2> QED
    BY <1>a, <2>1 DEF NoLeftovers, InTest
<1>1. CASE SkipDiagonal \/ StoreResult
  BY <1>0, <1>1, <1>a DEF SkipDiagonal, StoreResult, Advance, InTest, threadVars
<1>2. CASE PrintResults \/ ResetCell \/ FillLatencyData
  BY <1>0, <1>2, <1>a
     DEF PrintResults, ResetCell, FillLatencyData, InTest, threadVars
<1>3. ASSUME NEW r \in Role, CreateThread(r) PROVE NoLeftovers'
  <2>1. /\ pc \in {"create1", "create2"} /\ pc' \in {"create2", "check"}
        /\ pc = "create2" => r = 2
        /\ UNCHANGED <<offsetIdx, i, j, stolen>>
        /\ tstate' = [tstate EXCEPT ![Own(r)] = "created"]
        /\ pc = "create1" => r = 1 /\ pc' = "create2"
    BY <1>3 DEF CreateThread, AfterCreate, mainVars, Role
  <2>2. cur' = cur /\ \A s \in Role : Own(s)' = Own(s)
    BY <2>1 DEF cur, Own
  <2>3. \A t \in Thread : tstate'[t] = IF t = Own(r) THEN "created" ELSE tstate[t]
    BY <1>0, <2>1 DEF TypeOK
  <2>4. \A t \in Thread : t[1] # cur => tstate'[t] \in {"none", "exited"}
    BY <1>0, <2>3 DEF NoLeftovers, Own
  <2>5. CASE pc = "create1"
    <3>1. tstate'[Own(1)] = "created"
      BY <1>0, <2>1, <2>3, <2>5 DEF Role
    <3> QED
      BY <1>0, <2>1, <2>2, <2>4, <2>5, <3>1 DEF NoLeftovers, InTest, Role
  <2>6. CASE pc = "create2"
    <3>1. BothCreated'
      BY <1>0, <2>1, <2>2, <2>3, <2>6 DEF NoLeftovers, BothCreated, Role
    <3> QED
      BY <1>0, <1>3, <2>1, <2>2, <2>4, <2>6, <3>1
         DEF NoLeftovers, InTest, CreateThread, AfterCreate
  <2> QED
    BY <2>1, <2>5, <2>6
<1>4. ~ \E r \in Role : CreateThreadFails(r)
  BY <1>0 DEF CreateThreadFails, TypeOK
<1>5. ~ ReportFailure
  BY <1>0 DEF ReportFailure, NoLeftovers
<1>6. CASE AwaitThreads \/ JoinFirst
  <2>1. /\ UNCHANGED <<offsetIdx, i, j, stolen, tstate>>
        /\ pc' \in {"join1", "join2"}
    BY <1>6 DEF AwaitThreads, JoinFirst, mainVars, threadVars
  <2> QED
    BY <1>0, <2>1 DEF NoLeftovers, InTest, cur
<1>7. CASE JoinSecond
  <2>1. /\ UNCHANGED <<offsetIdx, i, j, stolen, tstate>> /\ pc' = "return"
        /\ pc = "join2" /\ tstate[Own(2)] = "exited"
    BY <1>7 DEF JoinSecond, mainVars, threadVars
  <2>2. tstate[Own(1)] = "exited"
    BY <1>0, <2>1 DEF JoinOK
  <2>3. \A t \in Thread : tstate[t] \in {"none", "exited"}
    BY <1>0, <2>1, <2>2 DEF NoLeftovers
  <2> QED
    BY <1>0, <2>1, <2>3 DEF NoLeftovers, InTest
<1> QED
  BY <1>1, <1>2, <1>3, <1>4, <1>5, <1>6, <1>7 DEF Main

\* Only the two threads of the running test take steps.
LEMMA ThreadNoLeftovers ==
    ASSUME RInv, NEW u \in Thread,
           ThreadStep(u) \/ ReadDeadFrame(u)
    PROVE  /\ NoLeftovers' /\ UNCHANGED <<pc, mainVars, lat>>
           /\ ThreadStep(u) /\ u[1] = cur /\ pc \in InTest
<1>0. TypeOK /\ NoLeftovers
  BY DEF RInv, IInv
<1>1. tstate[u] \in {"created", "running"}
  BY DEF ThreadStep, ReadDeadFrame, StartThread, Cas, ExitThread, Looping
<1>2. u[1] = cur /\ pc \in InTest /\ ~ ReadDeadFrame(u)
  BY <1>0, <1>1 DEF NoLeftovers, ReadDeadFrame, FrameLive
<1>3. /\ ThreadStep(u) /\ UNCHANGED <<pc, offsetIdx, i, j, lat>>
      /\ \E x \in {"running", "exited"} : tstate' = [tstate EXCEPT ![u] = x]
  BY <1>0, <1>2 DEF ThreadStep, StartThread, Cas, ExitThread, mainVars, Looping,
                    TypeOK
<1>4. stolen' = 0
  BY <1>0, <1>2, <1>3
     DEF ThreadStep, StartThread, Cas, ExitThread, NoLeftovers
<1>5. \A t \in Thread : /\ t # u => tstate'[t] = tstate[t]
                        /\ t = u => tstate'[t] # "none"
  BY <1>0, <1>3 DEF TypeOK
<1>6. /\ cur' = cur /\ \A r \in Role : Own(r)' = Own(r) /\ Own(r) \in Thread
  BY <1>0, <1>3, Shapes DEF cur, Own
<1>7. NoLeftovers'
  BY <1>0, <1>2, <1>3, <1>4, <1>5, <1>6 DEF NoLeftovers, BothCreated, Role
<1> QED
  BY <1>2, <1>3, <1>7 DEF mainVars

LEMMA NextRInv ==
    ASSUME MaxFailures = 0, RInv, [Next]_vars
    PROVE  RInv'
<1>1. IInv'
  BY NextIInv DEF RInv
<1>2. CASE Main
  BY <1>1, <1>2, MainNoLeftovers DEF RInv
<1>3. ASSUME NEW u \in Thread, ThreadStep(u) \/ ReadDeadFrame(u) PROVE RInv'
  BY <1>1, <1>3, ThreadNoLeftovers DEF RInv
<1>4. CASE UNCHANGED vars
  BY <1>1, <1>4 DEF vars, threadVars, RInv, NoLeftovers, BothCreated, Own, cur
<1> QED
  BY <1>2, <1>3, <1>4 DEF Next, Spin, Finished

\* main() starts and ends the tests of Bounce; between its reset of the cell
\* and the second join it stutters.
LEMMA MainBounces ==
    ASSUME MaxFailures = 0, RInv, Main
    PROVE  [B!Next]_(B!vars)
<1>0. /\ TypeOK /\ IInv /\ NoLeftovers
  BY DEF RInv, IInv
<1> USE DEF B!vars, Bouncing, InTest
<1>1. CASE SkipDiagonal \/ StoreResult
  BY <1>1 DEF SkipDiagonal, StoreResult, Advance
<1>2. CASE PrintResults
  BY <1>2 DEF PrintResults
<1>3. CASE ResetCell
  <2>1. cell'[offsetIdx'] = 0 /\ pc = "pair" /\ pc' = "fill"
    BY <1>0, <1>3 DEF ResetCell, TypeOK, mainVars
  <2> QED
    BY <2>1 DEF B!Next, B!Start
<1>4. CASE FillLatencyData
  BY <1>4 DEF FillLatencyData, mainVars
<1>5. ASSUME NEW r \in Role, CreateThread(r) \/ CreateThreadFails(r)
      PROVE  UNCHANGED B!vars
  BY <1>5 DEF CreateThread, CreateThreadFails, AfterCreate, mainVars, Role
<1>6. ~ ReportFailure
  BY <1>0 DEF ReportFailure, NoLeftovers
<1>7. CASE AwaitThreads \/ JoinFirst
  BY <1>7 DEF AwaitThreads, JoinFirst, mainVars
<1>8. CASE JoinSecond
  <2>1. /\ pc = "join2" /\ pc' = "return" /\ pc \in InFrame
        /\ tstate[Own(1)] = "exited" /\ tstate[Own(2)] = "exited"
    BY <1>0, <1>8 DEF JoinSecond, IInv, JoinOK, InFrame
  <2>2. Eff(1) = 2 * Iter + 1 /\ Eff(2) = 2 * Iter + 2
    BY <1>0, <2>1, FinalValues
  <2>3. /\ 2 * cell[offsetIdx] = (Eff(1) - 1) + (Eff(2) - 2) + 2 * stolen
        /\ cell[offsetIdx] \in 0..(2 * Iter) /\ stolen = 0
    BY <1>0, <2>1 DEF IInv, LedgerOK, TypeOK, NoLeftovers
  <2>4. cell[offsetIdx] = 2 * Iter
    BY <2>2, <2>3, IterAssumption
  <2> QED
    BY <2>1, <2>4 DEF B!Next, B!Finish
<1> QED
  BY <1>1, <1>2, <1>3, <1>4, <1>5, <1>6, <1>7, <1>8 DEF Main

\* A successful compare-and-swap is a handoff.
LEMMA ThreadBounces ==
    ASSUME RInv, NEW u \in Thread, ThreadStep(u) \/ ReadDeadFrame(u)
    PROVE  [B!Next]_(B!vars)
<1>0. /\ TypeOK /\ FrameOK
      /\ UNCHANGED <<pc, offsetIdx>> /\ ThreadStep(u) /\ pc \in InTest
  BY ThreadNoLeftovers DEF RInv, IInv, mainVars
<1>1. Bouncing /\ Bouncing'
  BY <1>0 DEF Bouncing
<1>2. CASE StartThread(u) \/ ExitThread(u)
  BY <1>0, <1>1, <1>2 DEF StartThread, ExitThread, B!vars
<1>3. CASE Cas(u)
  <2>1. u[2] \in Role /\ lat[u[2]].target = offsetIdx /\ offsetIdx \in Slot
    BY <1>0, Shapes DEF FrameOK, InFrame, TypeOK
  <2>2. /\ cell[offsetIdx] = current[u] - 1 /\ current[u] <= 2 * Iter
        /\ cell'[offsetIdx] = current[u]
    BY <1>0, <1>3, <2>1 DEF Cas, Looping, CasWouldSucceed, TypeOK
  <2>3. /\ cell'[offsetIdx'] = cell[offsetIdx] + 1
        /\ cell[offsetIdx] < 2 * Iter
    BY <1>0, <2>2, IterAssumption DEF TypeOK
  <2> QED
    BY <1>0, <1>1, <2>3 DEF B!Next, B!Handoff
<1> QED
  BY <1>0, <1>2, <1>3 DEF ThreadStep

\* When every pthread_create succeeds the program implements Bounce: its tests
\* run one after the other, and each hands its counter over 2 * Iter times,
\* one increment at a time, before it may finish.
THEOREM RefinesBounce ==
    ASSUME MaxFailures = 0
    PROVE  Spec => Implements
<1>1. Init => B!Init
  BY DEF Init, B!Init, Bouncing, InTest
<1>2. Init => RInv
  BY InitIInv, InitNoLeftovers DEF RInv
<1>3. RInv /\ [Next]_vars => RInv'
  BY NextRInv
<1>4. RInv /\ [Next]_vars => [B!Next]_(B!vars)
  <2> SUFFICES ASSUME RInv, [Next]_vars PROVE [B!Next]_(B!vars)
    OBVIOUS
  <2>1. CASE Main
    BY <2>1, MainBounces
  <2>2. ASSUME NEW u \in Thread, ThreadStep(u) \/ ReadDeadFrame(u)
        PROVE  [B!Next]_(B!vars)
    BY <2>2, ThreadBounces
  <2>3. CASE UNCHANGED vars
    BY <2>3 DEF vars, B!vars, Bouncing
  <2> QED
    BY <2>1, <2>2, <2>3 DEF Next, Spin, Finished
<1> QED
  BY <1>1, <1>2, <1>3, <1>4, PTL DEF Spec, Implements, B!Spec
=============================================================================
