------------------------------ MODULE RateCalls ------------------------------
(***************************************************************************)
(* The calls of measureFunction() in the two main() functions.  A call     *)
(* passes times * iterations: 1 for iterations, 5 for latencyIterations,   *)
(* 22 for iterations * 22.  label is the kernel the printed text is about: *)
(* the one that executes the kinds of instructions the text names, or a    *)
(* name that no kernel has where there is none; kernel is the one that is  *)
(* called.  The wrappers only add the arrays.  The proportion that a text  *)
(* gives for a mix is not compared.  CPU features and argv[1] decide which *)
(* of the calls are made.                                                  *)
(***************************************************************************)
EXTENDS RateKernels

Call(label, kernel, times) == [label |-> label, kernel |-> kernel, times |-> times]
Calls1(names) == {Call(n, n, 1) : n \in names}
Calls5(names) == {Call(n, n, 5) : n \in names}
Calls22(names) == {Call(n, n, 22) : n \in names}


(* x86instructionrate.c *)
Avx512Calls ==
    UNION {Calls1({"fma512", "latfma512", "mixfma256fma512", "mix21fma256fma512",
                   "add512int", "mul512int", "muldq512int", "load512", "store512",
                   "aesenc128", "aesdec128", "aesencadd128", "aesencfma128",
                   "aesencmul128", "aesencfadd128"}),
           Calls5({"latmulq512int", "latmul512int", "latmuldq512int"}),
           Calls22({"nemesfpu512mix21", "mixfmaadd512", "mixfma512add256"}),
           {Call("latadd512int", "latadd256int", 5)}}

ScalarCalls ==
    Calls5({"noptest1b", "noptest", "addtest", "addnoptest", "depmovtest",
            "indepmovtest", "xorzerotest", "movzerotest", "subzerotest",
            "depinctest", "depdectest", "depaddimmtest", "clkmovtest",
            "vecdepmovtest", "vecindepmovtest", "vecxorzerotest",
            "vecsubzerotest", "addmultest", "jmpmultest", "jmptest", "ntjmptest",
            "pdeptest", "pexttest", "pdepmultest", "shltest", "rortest",
            "mixrorshltest", "mixrormultest", "btstest", "btsmultest",
            "rorbtstest", "leatest", "leamultest"})
      \cup {Call("addmovtest", "addnoptest", 5)}

VectorCalls ==
    Calls5({"add256int", "mixadd256int", "mixadd256int11", "mixadd256fpint",
            "mix256fp", "latadd256int", "latadd128int", "add128fp", "mul128fp",
            "add128int", "mul128int"})
      \cup Calls1({"add256fp", "mul256fp", "latmul256int", "latmul128int",
                   "latadd256fp", "latmul256fp", "latadd128fp", "latmul128fp"})

FmaCalls ==
    Calls1({"fma256", "fma128", "latfma256", "latfma128", "fma4_256", "fma4_128"})
      \cup Calls22({"mixfmafadd256", "mixfmaadd256", "mixfmaaddmem256",
                    "mixfmaand256", "mixfmaandmem256", "nemesfpumix21"})
      \cup {Call("mix256fmaintadd", "mix256faddintadd", 1)}

MultiplyLoadCalls ==
    Calls1({"latmul16", "latmul64", "mul16", "mul64", "mixmul16mul64",
            "mixmul16mul64_21", "load128", "spacedload128", "load256",
            "spacedstorescalar", "store128", "store256", "mixaddmul128int",
            "testfusion", "cmpfusion", "subfusion", "nopfusion"})

X86Calls == UNION {Avx512Calls, ScalarCalls, VectorCalls, FmaCalls, MultiplyLoadCalls}

(* arminstructionrate.c: the kernels main() calls directly ... *)
ArmPlainCalls ==
    Calls5({"addtest", "noptest", "indepmovtest", "depmovtest", "xorzerotest",
            "movzerotest", "subzerotest", "jmptest", "fusejmptest",
            "mixmuljmptest", "mixmuljmptest21", "mixaddjmptest",
            "mixaddjmp21test", "addmultest", "addmul21test", "rortest",
            "mixmulrortest", "mul32test"})
      \cup {Call("latmul64test", "latmul64test", 1),
            Call("mul64test", "mul32test", 5)}

(* ... and those it calls through a wrapper that adds the arrays. *)
ArmWrapperCalls ==
    Calls5({"faddtest", "vecadd128test", "vecmul128test", "mixvecaddmul128test",
            "vecfadd128test", "vecfmul128test", "mixvecfaddfmul128test",
            "mixaddvecadd128test", "mix3to1addvecadd128test",
            "mix1to1addvecadd128test", "mixmulvecmultest", "mixvecmulfmultest",
            "mixvecaddfaddtest", "mixjmpvecaddtest", "mixjmpvecmultest",
            "vecloadtest", "vecstoretest", "loadtest", "mixloadstoretest",
            "mix21loadstoretest", "latfaddtest", "vecfma128test",
            "scalarfmatest", "latscalarfmatest", "mixvecfaddfma128test",
            "mixvecfmulfma128test"})
      \cup Calls1({"latvecadd128test", "latvecmul128test", "latvecfadd128test",
                   "latvecfmul128test", "latvecfma128test"})

ArmCalls == ArmPlainCalls \cup ArmWrapperCalls
=============================================================================
