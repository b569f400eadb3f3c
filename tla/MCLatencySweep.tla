--------------------------- MODULE MCLatencySweep ---------------------------
(* LatencySweep for TLC: the real tables of sizes, and counts that let the  *)
(* iterations run out, wrap and be enough.  The smallest array has four     *)
(* lines and the table ten store and load offsets.                          *)
EXTENDS LatencySweep

MCTestSizes == <<2, 4, 8, 12, 16, 24, 32, 48, 64, 96, 128, 192, 256, 384, 512,
                 600, 768, 1024, 1536, 2048, 3072, 4096, 5120, 6144, 8192, 10240,
                 12288, 16384, 24567, 32768, 65536, 98304, 131072, 262144,
                 393216, 524288, 1048576>>
MCTlbSizes == <<2, 4, 8, 12, 16, 20, 24, 28, 32, 36, 40, 44, 48, 64, 96, 128,
                192, 256, 384, 512, 640, 768, 896, 1024, 1152, 1280, 1536, 2048,
                3072, 4096, 5120, 6144, 8192>>

Arg(mode, func, huge, max, single, it) ==
    [mode |-> mode, func |-> func, huge |-> huge, max |-> max,
     single |-> single, iter |-> it]

\* 3 and 4 are around the fewest iterations that suffice, 14 is enough for all
\* chains and 16 wraps to nothing; 4096 MB wrap to no buffer, 4 GB to no array.
MCArgs ==
    {Arg("plain", f, h, max, 0, it) :
       f \in {"c", "asm"}, h \in BOOLEAN, max \in {0, 1, 4096}, it \in {3, 4, 16}}
    \cup {Arg("plain", f, h, max, single, it) :
       f \in {"c", "asm"}, h \in BOOLEAN, max \in {0, 1},
       single \in {1, 3000, 4194304, 4194306}, it \in {4, 14}}
    \cup {Arg("tlb", "c", h, max, 0, it) :
       h \in BOOLEAN, max \in {0, 1, 31, 32, 4096}, it \in {3, 4}}
    \cup {Arg(mode, "c", FALSE, 1, 0, it) : mode \in {"mlp", "stlf"},
                                            it \in {4, 14}}

MCRounds == 0..(Word - 1)
=============================================================================
