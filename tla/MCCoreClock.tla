----------------------------- MODULE MCCoreClock ----------------------------
(* CoreClock for TLC: one or two cores online out of three, with counters   *)
(* that start just below their first wrap.                                  *)
EXTENDS CoreClock

ARun(mode, amd, iterations, samples) ==
    [mode |-> mode, amd |-> amd, iterations |-> iterations, samples |-> samples]

\* 40 stands for the 8e9 and 16e9 of main().
MCRuns == {ARun(mode, TRUE, 40, 0) : mode \in {"disableboost", "enableboost",
                                               "power", "clock"}}
          \cup {ARun("measurecmd", amd, 40, 0) : amd \in BOOLEAN}
          \cup {ARun("samples", FALSE, it, 2) : it \in {0, 20, 30}}
MCOnlines == {{0}, {0, 1}, {0, 2}}
=============================================================================
