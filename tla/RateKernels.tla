----------------------------- MODULE RateKernels -----------------------------
(***************************************************************************)
(* The assembly kernels of InstructionRate and the calls main() makes of   *)
(* them.  Every kernel is one loop: a straight-line body, a subtraction    *)
(* from the iteration register, and a branch back to a loop label.         *)
(***************************************************************************)
EXTENDS Naturals

\* work is the number of instructions per pass that the printed result is
\* about: a compare with its branch is one of them, a move that only resets a
\* register is none, and the fusion kernels count everything they contain.
\* step is what a pass takes from the register; the branch is taken while the
\* register is not zero ("ne"), positive ("gt") or not negative ("ge"); back
\* is the kernel whose loop label it names.
Kernel(name, work, step, branch) ==
    [name |-> name, work |-> work, step |-> step, branch |-> branch, back |-> name]

\* A kernel whose branch names the loop label of another one.
Stray(kernel, back) == [kernel EXCEPT !.back = back]

\* The usual kernel, and its form with another number of instructions.
Unrolled(n, names) == {Kernel(name, n, n, "ne") : name \in names}
Plain(names) == Unrolled(20, names)

(* x86instructionrate.s, in the order of the file. *)
ClockKernels == Plain({"clktest", "clkmovtest"})
NopKernels == {Kernel(n, 19, 20, "ne") : n \in {"noptest", "noptest1b"}}
AddKernels == Plain({"addtest", "addnoptest"})
MovRotateKernels == Plain({"addmovtest", "rortest"})
ShiftKernels == Plain({"shltest", "mixrorshltest"})
RotateMixKernels == Plain({"mixrormultest", "rorbtstest"})
BitKernels == Plain({"btstest", "leatest"})
BitMultiplyKernels == Plain({"leamultest", "btsmultest"})
JumpKernels == Plain({"jmptest"})
NotTakenKernels == Plain({"ntjmptest"})
JumpMultiplyKernels == Plain({"jmpmultest"})
AddMultiplyKernels == {Kernel("addmultest", 39, 40, "ne")}
IntVectorKernels == Plain({"add256int", "mul512int", "muldq512int", "add512int"})
MixedVectorKernels == Plain({"mixadd256fpint", "mix256faddintadd", "mix256fp"})
ScalarVectorKernels == Plain({"mixadd256int11"}) \cup Unrolled(30, {"mixadd256int"})
IntLatencyKernels ==
    Plain({"latadd256int", "latmul512int"})
      \cup {Stray(Kernel("latadd512int", 20, 20, "ne"), "latadd256int")}
MultiplyLatencyKernels == Plain({"latmuldq512int", "latmulq512int", "latmul256int"})
SseAddKernels == Plain({"latadd128int", "add128int", "aesenc128", "aesencadd128"})
AesMixKernels ==
    Unrolled(15, {"aesencfma128"})
      \cup {Kernel(n, 15, 15, "gt") : n \in {"aesencfadd128", "aesencmul128"}}
SseMultiplyKernels == Plain({"aesdec128", "mul128int", "latmul128int", "mixaddmul128int"})
AvxFloatKernels == Plain({"latadd256fp", "mul256fp", "add256fp"})
\* (mutant: the step of 18 with the branch of the others)
Fma512KernelsNotZero ==
    Plain({"latmul256fp", "fma512"}) \cup {Kernel("mix21fma256fma512", 18, 18, "ne")}
Fma512Kernels ==
    Plain({"latmul256fp", "fma512"}) \cup {Kernel("mix21fma256fma512", 18, 18, "gt")}
FmaKernels == Plain({"mixfma256fma512", "fma256", "fma128"})
FmaAddKernels ==
    Unrolled(30, {"mixfmafadd256"})
      \cup {Kernel(n, 15, 16, "gt") : n \in {"mixfmaadd512", "mixfma512add256"}}
FmaIntKernels ==
    {Kernel("mixfmaadd256", 15, 16, "gt"), Kernel("mixfmaand256", 15, 15, "gt"),
     Kernel("mixfmaandmem256", 21, 22, "gt")}
FmaMemoryKernels ==
    {Kernel("mixfmaaddmem256", 21, 22, "gt")}
      \cup {Kernel(n, 16, 16, "gt") : n \in {"nemesfpu512mix21", "nemesfpumix21"}}
FmaLatencyKernels == Plain({"latfma512", "latfma256", "latfma128"})
SseFloatKernels == Plain({"latadd128fp", "latmul128fp", "mul128fp", "add128fp"})
MultiplyKernels == Plain({"latmul64", "latmul16"})
WideMultiplyKernels == Plain({"mul16", "mul64"})
MixedMultiplyKernels ==
    Plain({"mixmul16mul64"}) \cup {Kernel("mixmul16mul64_21", 24, 24, "ge")}
LoadKernels == Plain({"spacedstorescalar", "spacedload128", "load128", "load256"})
StoreKernels == Plain({"load512", "store128", "store256", "store512"})
PdepKernels == Plain({"pdeptest", "pdepmultest"})
MoveKernels == Plain({"pexttest", "depmovtest", "vecdepmovtest"})
MoveZeroKernels == Plain({"vecindepmovtest", "indepmovtest", "movzerotest"})
ZeroKernels == Plain({"xorzerotest", "vecxorzerotest", "subzerotest"})
DependentKernels ==
    Plain({"depaddimmtest", "depinctest"})
      \cup {Stray(Kernel("vecsubzerotest", 20, 20, "ne"), "subzerotest")}
Fma4Kernels == Plain({"depdectest", "fma4_256", "fma4_128"})
FusionKernels == Unrolled(5, {"testfusion", "cmpfusion", "subfusion", "nopfusion"})

X86Kernels ==
    UNION {ClockKernels, NopKernels, AddKernels, MovRotateKernels, ShiftKernels,
           RotateMixKernels, BitKernels, BitMultiplyKernels, JumpKernels,
           NotTakenKernels, JumpMultiplyKernels, AddMultiplyKernels,
           IntVectorKernels, MixedVectorKernels, ScalarVectorKernels,
           IntLatencyKernels, MultiplyLatencyKernels, SseAddKernels,
           AesMixKernels, SseMultiplyKernels, AvxFloatKernels, Fma512Kernels,
           FmaKernels, FmaAddKernels, FmaIntKernels, FmaMemoryKernels,
           FmaLatencyKernels, SseFloatKernels, MultiplyKernels,
           WideMultiplyKernels, MixedMultiplyKernels, LoadKernels, StoreKernels,
           PdepKernels, MoveKernels, MoveZeroKernels, ZeroKernels,
           DependentKernels, Fma4Kernels, FusionKernels}

(* arminstructionrate.s, in the order of the file. *)
ArmBasicKernels == Plain({"clktest"}) \cup Unrolled(50, {"noptest"})
ArmAddKernels ==
    Unrolled(30, {"addtest"}) \cup Plain({"addmultest"})
      \cup {Kernel("addmul21test", 24, 24, "gt")}
ArmMultiplyKernels == Plain({"mul32test", "mul64test", "latmul64test"})
ArmVecAddKernels ==
    Plain({"vecadd128test", "latvecadd128test", "faddtest", "latfaddtest"})
ArmVecMultiplyKernels ==
    Plain({"latfmultest", "latvecmul128test", "vecmul128test", "scalarfmatest"})
ArmFmaKernels == Plain({"latscalarfmatest", "vecfma128test", "mixvecfmulfma128test"})
ArmFmaMixKernels ==
    Plain({"mixvecfaddfma128test", "latvecfma128test", "vecfadd128test",
           "latvecfadd128test"})
ArmVecFloatKernels ==
    Plain({"vecfmul128test", "latvecfmul128test", "mixvecfaddfmul128test",
           "mixvecaddmul128test"})
ArmScalarVecKernels ==
    Unrolled(30, {"mixaddvecadd128test"}) \cup Unrolled(40, {"mix3to1addvecadd128test"})
ArmEvenMixKernels ==
    Unrolled(40, {"mix1to1addvecadd128test"}) \cup Plain({"mixmulvecmultest"})
ArmVecMixKernels ==
    Plain({"mixvecmulfmultest", "mixvecaddfaddtest"}) \cup Unrolled(30, {"mixjmpvecaddtest"})
ArmLoadKernels == Plain({"mixjmpvecmultest", "vecloadtest", "vecstoretest", "loadtest"})
ArmLoadStoreKernels ==
    Plain({"mixloadstoretest", "jmptest"}) \cup Unrolled(30, {"mix21loadstoretest"})
ArmJumpKernels ==
    Plain({"fusejmptest", "mixmuljmptest"}) \cup Unrolled(30, {"mixmuljmptest21"})
ArmJumpAddKernels ==
    Plain({"mixmulrortest"})
      \cup {Stray(Kernel("mixaddjmptest", 20, 20, "ne"), "mixmuljmptest"),
            Kernel("mixaddjmp21test", 15, 15, "gt")}
ArmMoveKernels == Plain({"rortest", "depmovtest", "indepmovtest"})
ArmZeroKernels == Plain({"xorzerotest", "movzerotest", "subzerotest"})

ArmKernels ==
    UNION {ArmBasicKernels, ArmAddKernels, ArmMultiplyKernels, ArmVecAddKernels,
           ArmVecMultiplyKernels, ArmFmaKernels, ArmFmaMixKernels,
           ArmVecFloatKernels, ArmScalarVecKernels, ArmEvenMixKernels,
           ArmVecMixKernels, ArmLoadKernels, ArmLoadStoreKernels,
           ArmJumpKernels, ArmJumpAddKernels, ArmMoveKernels, ArmZeroKernels}
=============================================================================
