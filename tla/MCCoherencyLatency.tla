------------------------- MODULE MCCoherencyLatency -------------------------
(* Instances of CoherencyLatency for TLC.                                  *)
EXTENDS CoherencyLatency

\* CPUs 0 .. n-1 are online: what main() takes for granted.
MCOnline == 0..2

\* Three CPUs are online but CPU 1 is not one of them.
MCGapOnline == {0, 2, 3}

\* Wall-clock times in milliseconds; 0 is a test of less than one, which the
\* sweep of three CPUs leaves out to stay small.
MCElapsed == {1}
MCAnyElapsed == {0, 1}
=============================================================================
