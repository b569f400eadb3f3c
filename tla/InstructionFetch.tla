-------------------------- MODULE InstructionFetch --------------------------
(***************************************************************************)
(* MeasureInstructionBw() of MemoryBandwidth.c and flush_icache() of       *)
(* MemoryBandwidth_arm.s: an array is filled with nops and a return, made  *)
(* executable and called.  On ARM the instructions written may not be      *)
(* those fetched until their cache lines are cleaned and invalidated; the  *)
(* code's lines are taken together as the first, the rest up to the return *)
(* and the one of the return, which starts a line of its own.              *)
(***************************************************************************)
EXTENDS Integers

CONSTANTS Machines      \* processors to run on
ASSUME MachineAssumption ==
    \A m \in Machines : /\ m.arch \in {"x86", "arm"}
                        /\ m.coherent \in BOOLEAN
                        /\ m.features \subseteq {"sse", "avx", "avx512"}

VARIABLES
    machine,
    codePc,
    codeKb, codeIterations,     \* parameters of the call
    calls,                      \* iterIdx
    stale,                      \* history: lines fetched may not be as written
    fetched,                    \* history: bytes of code executed
    measured,                   \* what the last call computed a rate from
    lost                        \* history: arrays that are never freed

codeVars == <<codePc, codeKb, codeIterations, calls, stale, fetched, measured, lost>>

OnArm == machine.arch = "arm"
Lines == {"first", "rest", "return"}
elementsOf(kb) == (kb * 1024) \div 8
RetBytes == IF OnArm THEN 4 ELSE 1

CodeInit ==
    /\ machine \in Machines
    /\ codePc = "off"
    /\ codeKb = 0 /\ codeIterations = 0 /\ calls = 0
    /\ stale = {} /\ fetched = 0 /\ measured = 0 /\ lost = 0

StartCode(kb, iterations) ==
    /\ codeKb' = kb /\ codeIterations' = iterations
    /\ calls' = 0 /\ fetched' = 0 /\ measured' = 0
    /\ codePc' = "alloc"
    /\ UNCHANGED <<stale, lost>>

\* posix_memalign() of new or used memory, and the loop that fills it.
FillCode ==
    /\ codePc = "alloc"
    /\ stale' = IF OnArm /\ ~machine.coherent THEN Lines ELSE {}
    /\ codePc' = IF OnArm THEN "flush" ELSE "protect"
    /\ UNCHANGED <<machine, codeKb, codeIterations, calls, fetched, measured, lost>>

AllocCodeFails ==
    /\ codePc = "alloc"
    /\ codePc' = "returned"
    /\ UNCHANGED <<machine, codeKb, codeIterations, calls, stale, fetched, measured, lost>>

\* The sub of flush_icache()'s loops leaves the flags as they were: b.gt goes on
\* beyond the array until an address is not mapped, or ends at the first line.
FlushICache ==
    /\ codePc = "flush"
    /\ \/ codePc' = "crashed" /\ UNCHANGED stale
       \/ codePc' = "clear" /\ stale' = stale \ {"first"}
    /\ UNCHANGED <<machine, codeKb, codeIterations, calls, fetched, measured, lost>>

\* Mutant of Cleared: the second call is left out as well.
ClearedNothing == {}

\* __builtin___clear_cache(nops, functionEnd) stops before functionEnd.
Cleared == {"first", "rest"}

ClearCache ==
    /\ codePc = "clear"
    /\ stale' = stale \ Cleared
    /\ codePc' = "protect"
    /\ UNCHANGED <<machine, codeKb, codeIterations, calls, fetched, measured, lost>>

Protect ==
    /\ codePc = "protect"
    /\ codePc' = "call"
    /\ UNCHANGED <<machine, codeKb, codeIterations, calls, stale, fetched, measured, lost>>

ProtectFails ==
    /\ codePc = "protect"
    /\ codePc' = "returned"
    /\ lost' = lost + 1
    /\ UNCHANGED <<machine, codeKb, codeIterations, calls, stale, fetched, measured>>

\* nopfunc(): without its return the function runs into whatever follows.
CallCode ==
    /\ codePc = "call" /\ calls < codeIterations
    /\ \/ /\ calls' = calls + 1
          /\ fetched' = fetched + 8 * elementsOf(codeKb) + RetBytes
          /\ UNCHANGED codePc
       \/ stale # {} /\ codePc' = "crashed" /\ UNCHANGED <<calls, fetched>>
    /\ UNCHANGED <<machine, codeKb, codeIterations, stale, measured, lost>>

\* gbTransferred, in bytes
Transferred(iterations, kb) == iterations * 8 * elementsOf(kb) + 1

EndCode ==
    /\ codePc = "call" /\ calls = codeIterations
    /\ measured' = Transferred(codeIterations, codeKb)
    /\ codePc' = "returned"
    /\ UNCHANGED <<machine, codeKb, codeIterations, calls, stale, fetched, lost>>

CodeStep == FillCode \/ FlushICache \/ ClearCache \/ Protect \/ CallCode \/ EndCode
-----------------------------------------------------------------------------
(* The code that is called is what was written, whatever flush_icache() did, *)
(* but for the line of its return: "x1: array size in bytes" is not what     *)
(* flush_icache() goes by, and __builtin___clear_cache() is given an end     *)
(* before the return, which ARM processors without coherent caches may run   *)
(* past.                                                                     *)
CodeIsWritten ==
    /\ codePc = "call" =>
         stale = IF OnArm /\ ~machine.coherent THEN {"return"} ELSE {}
    /\ codePc = "crashed" => OnArm
=============================================================================
