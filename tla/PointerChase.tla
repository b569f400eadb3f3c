---------------------------- MODULE PointerChase ----------------------------
(***************************************************************************)
(* RunTest(), RunAsmTest() and RunTlbTest() of MemoryLatency.c: shuffle a  *)
(* pattern, lay it out over the array and chase the pointers.  RunTest()   *)
(* and RunAsmTest() use one element per cache line, FillPatternArr() and   *)
(* FillPatternArr64() shuffling in place; RunTlbTest() shuffles a separate *)
(* array and places one element per page.                                  *)
(***************************************************************************)
EXTENDS Sattolo

CONSTANTS
    LineElems,      \* CACHELINE_SIZE / sizeof(element)
    PageElems,      \* PAGE_SIZE / sizeof(element)
    Iterations      \* what scale_iterations() returned

ASSUME LayoutAssumption == /\ LineElems \in Nat \ {0}
                           /\ PageElems \in Nat \ {0}
                           /\ LineElems <= PageElems
ASSUME IterationsAssumption == Iterations \in Nat

VARIABLES
    test,           \* "lines": RunTest, RunAsmTest;  "pages": RunTlbTest
    phase,
    arr,            \* A, by index
    current,        \* the index loaded last
    hops,           \* the loop variable of the timed loop
    lap             \* history: elements touched since the lap began

chaseVars == <<arr, current, hops, lap>>
walkVars == <<shuffleVars, test, phase, chaseVars>>

\* Where element e lives.  Pages are staggered by one line each.
Index(e) == IF test = "lines"
            THEN e * LineElems
            ELSE e * PageElems + ((e * LineElems) % PageElems)

\* Mutant of Target: the pointers leave the stagger out.
TargetUnstaggered(e) ==
    pattern[e] * (IF test = "lines" THEN LineElems ELSE PageElems)

\* The pointer stored in element e.
Target(e) == Index(pattern[e])

ListSize == Count * (IF test = "lines" THEN LineElems ELSE PageElems)
Address  == 0..(ListSize - 1)

Stale  == -1        \* whatever the memory held before
Poison == -2        \* 0xFFFFFFFF, from memset(A, INT_MAX, ...)

ChaseInit ==
    /\ FillIdentity
    /\ test \in {"lines", "pages"}
    /\ phase = "shuffle"
    /\ arr = [a \in Address |-> Stale]
    /\ current = 0
    /\ hops = 0
    /\ lap = {}

ChaseShuffle == /\ phase = "shuffle" /\ Shuffle
                /\ UNCHANGED <<test, phase, chaseVars>>

\* The array once the pattern is laid out.  RunTlbTest()'s memset() gets the
\* element count for a byte count, so it poisons the first quarter only.
LayOut ==
    /\ phase = "shuffle" /\ iter <= 1
    /\ arr' = [a \in Address |->
                 IF \E e \in Elem : a = Index(e)
                 THEN Target(CHOOSE e \in Elem : a = Index(e))
                 ELSE IF test = "pages" /\ 4 * a < ListSize
                      THEN Poison ELSE Stale]
    /\ phase' = "first"
    /\ UNCHANGED <<shuffleVars, test, current, hops, lap>>

\* (history) The element a load of index a touches.
ElementAt(a) == CHOOSE e \in Elem : Index(e) = a

Touched(a) == IF lap = Elem THEN {ElementAt(a)} ELSE lap \cup {ElementAt(a)}

\* current = A[0]
FirstLoad == /\ phase = "first"
             /\ current' = arr[0]
             /\ lap' = Touched(0)
             /\ phase' = "chase"
             /\ UNCHANGED <<shuffleVars, test, arr, hops>>

\* The condition of the timed loop.
Looping == hops < Iterations

\* current = A[current]
Hop == /\ phase = "chase" /\ Looping
       /\ current' = arr[current]
       /\ lap' = Touched(current)
       /\ hops' = hops + 1
       /\ UNCHANGED <<shuffleVars, test, phase, arr>>

ChaseReport == /\ phase = "chase" /\ ~Looping
               /\ phase' = "done"
               /\ UNCHANGED <<shuffleVars, test, chaseVars>>

ChaseFinished == phase = "done" /\ UNCHANGED walkVars

ChaseNext == \/ ChaseShuffle \/ LayOut \/ FirstLoad \/ Hop \/ ChaseReport
             \/ ChaseFinished

ChaseSpec == ChaseInit /\ [][ChaseNext]_walkVars
-----------------------------------------------------------------------------
ChaseTypeOK ==
    /\ ShuffleTypeOK
    /\ test \in {"lines", "pages"}
    /\ phase \in {"shuffle", "first", "chase", "done"}
    /\ arr \in [Address -> Address \cup {Stale, Poison}]
    /\ current \in Address
    /\ hops \in 0..Iterations
    /\ lap \subseteq Elem

\* Every load of the chase is inside the array and finds a pointer, not what
\* the memory happened to hold; and pages are staggered "to avoid conflict
\* misses" (RunTlbTest()): those that share a line offset are a whole page of
\* lines apart.
ChaseInBounds ==
    /\ phase = "chase" => current \in Address /\ arr[current] \in Address
    /\ test = "pages" =>
         \A a, b \in Elem :
            a < b /\ Index(a) % PageElems = Index(b) % PageElems
            => (b - a) * LineElems >= PageElems

\* The chase touches all elements before it touches one of them twice, and so
\* again in every later lap.
Walk == INSTANCE RingWalk WITH
            loads <- IF phase \in {"shuffle", "first"} THEN 0 ELSE hops + 1,
            todo  <- Elem \ lap
WalksTheRing == Walk!Spec
=============================================================================
