--------------------------- MODULE MCBandwidthMain ---------------------------
(* BandwidthMain for TLC: three test sizes, one of them above the threshold  *)
(* of GetIterationCount(), up to three threads, every method on x86 and ARM  *)
(* processors, and two small arrays and three spacings for bank conflicts.   *)
EXTENDS BandwidthMain

MCSizes == <<2, 3, 5>>
MCBankSizes == <<30, 48>>

Machine(arch, features, coherent) ==
    [arch |-> arch, features |-> features, coherent |-> coherent]
Newest == Machine("x86", {"sse", "avx", "avx512"}, TRUE)
MCMachines ==
    {Newest} \cup {Machine("x86", f, TRUE) : f \in {{}, {"sse"}, {"sse", "avx"}}}
             \cup {Machine("arm", {}, c) : c \in BOOLEAN}

Flag(name) == [opt |-> name, value |-> None, name |-> ""]
Number(name, value) == [opt |-> name, value |-> value, name |-> ""]
OfMethod(name) == [opt |-> "method", value |-> None, name |-> name]
Shape(sh) == Flag(IF sh THEN "shared" ELSE "private")

\* All data tests: a list of sizes, a single size, up to three threads.
Tests ==
    {<<Number("data", 1), Shape(sh), Number("threads", t)>> :
       t \in {1, 3}, sh \in BOOLEAN}
    \cup {<<Number("data", 1), Number("sizekb", 3), Shape(sh), Number("threads", t)>> :
       t \in {1, 3}, sh \in BOOLEAN}
    \cup {<<Number("autothreads", au), Number("data", 1), Shape(sh)>> :
       au \in {2, 3}, sh \in BOOLEAN}
    \cup {<<Number("autothreads", au), Shape(sh), Number("sizekb", 2)>> :
       au \in {2, 3}, sh \in BOOLEAN}
\* Every method, two at once, names and options that do not exist.
Choices ==
    {<<Number("sizekb", 2)>>, <<Flag("help")>>, <<Flag("sizekb")>>, <<Flag("method")>>}
    \cup {<<OfMethod(name), Number("data", 1), Number("sleep", 1)>> :
       name \in {"instr4", "readbankconflict"}}
    \cup {<<Number("sizekb", 2), OfMethod(name)>> : name \in Methods \cup {"neon"}}
    \cup {<<OfMethod("write"), OfMethod(name), Number("sizekb", 2)>> :
       name \in {"neon", "readbankconflict"}}

MCRuns == {[machine |-> Newest, cmdline |-> c] : c \in Tests}
          \cup {[machine |-> m, cmdline |-> c] : m \in MCMachines, c \in Choices}
=============================================================================
