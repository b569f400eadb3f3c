----------------------- MODULE MemoryLatencyProofs ------------------------
(***************************************************************************)
(* Proofs about MemoryLatency, in four parts: the shuffle builds one cycle *)
(* over all elements, whatever their number and whatever rand() returns;   *)
(* the chase stays on it and in its array; chains never meet; and main()   *)
(* runs its tests in buffers that are big enough and prints what it has    *)
(* measured.                                                               *)
(*                                                                         *)
(* The proof of the cycle needs neither counting nor induction over the    *)
(* length of a walk. It speaks of sets that the pattern cannot leave       *)
(* (Closed) or cannot enter (BackClosed), and of the positions not yet     *)
(* settled, Low: every such set reaches down to a low position, and each   *)
(* low position has a closed set of its own. A swap of the highest low     *)
(* position with another one merges two of these sets.                     *)
(***************************************************************************)
EXTENDS PointerChase, LatencySweep, FiniteSetTheorems, WellFoundedInduction,
        TLAPS

Low == 0..(iter - 1)

BackClosed(S) == \A e \in Elem : pattern[e] \in S => e \in S

ForwardMeets ==
    \A S \in SUBSET Elem : S # {} /\ Closed(S) => S \cap Low # {}

BackwardMeets ==
    \A S \in SUBSET Elem : S # {} /\ BackClosed(S) => S \cap Low # {}

Separate ==
    \A a \in Low : \E C \in SUBSET Elem : Closed(C) /\ C \cap Low = {a}

ShuffleInv == /\ ShuffleTypeOK /\ Injective
              /\ ForwardMeets /\ BackwardMeets /\ Separate
-----------------------------------------------------------------------------
\* The identity pattern satisfies the invariant: every element is a cycle.
LEMMA FillShuffleInv == FillIdentity => ShuffleInv
<1> SUFFICES ASSUME FillIdentity PROVE ShuffleInv
  OBVIOUS
<1>1. ShuffleTypeOK /\ Injective
  BY CountAssumption DEF FillIdentity, ShuffleTypeOK, Injective, Elem
<1>2. Low = Elem
  BY DEF FillIdentity, Low, Elem
<1>3. ForwardMeets /\ BackwardMeets
  BY <1>2 DEF ForwardMeets, BackwardMeets
<1>4. Separate
  <2> SUFFICES ASSUME NEW a \in Elem
               PROVE  \E C \in SUBSET Elem : Closed(C) /\ C \cap Low = {a}
    BY <1>2 DEF Separate
  <2> WITNESS {a} \in SUBSET Elem
  <2> QED
    BY <1>2 DEF Closed, FillIdentity
<1> QED
  BY <1>1, <1>3, <1>4 DEF ShuffleInv

\* One round of the loop preserves the invariant.
LEMMA StepShuffleInv ==
    ASSUME ShuffleInv, Shuffle
    PROVE  ShuffleInv'
<1> DEFINE k == iter - 1
<1>0. /\ pattern \in [Elem -> Elem] /\ iter \in 2..Count /\ iter' = iter - 1
      /\ iter - 1 = k /\ k \in 1..(Count - 1)
  BY CountAssumption DEF ShuffleInv, ShuffleTypeOK, Shuffle
<1> HIDE DEF k
<1>1. PICK j \in 0..(k - 1) : pattern' = Swap(pattern, k, j)
  <2>1. RandPick(k) \subseteq 0..(k - 1)
    BY <1>0 DEF RandPick
  <2> QED
    BY <1>0, <2>1 DEF Shuffle
<1>2. /\ ShuffleTypeOK /\ iter' = k /\ k \in Elem /\ j \in Elem /\ j # k
      /\ k \in Low /\ j \in Low /\ k \notin Low' /\ Low = Low' \cup {k}
      /\ Low \subseteq Elem
  <2>1. Low = 0..k /\ Low' = 0..(k - 1) /\ j \in 0..(k - 1)
    BY <1>0, <1>1 DEF Low
  <2>2. /\ k \in Elem /\ j \in Elem /\ j # k /\ 0..k \subseteq Elem
        /\ k \in 0..k /\ j \in 0..k /\ k \notin 0..(k - 1)
    BY <1>0, <1>1, CountAssumption DEF Elem
  <2>3. 0..k = 0..(k - 1) \cup {k}
    BY <1>0
  <2> QED
    BY <1>0, <2>1, <2>2, <2>3 DEF ShuffleInv
<1>3. /\ pattern'[k] = pattern[j] /\ pattern'[j] = pattern[k]
      /\ \A e \in Elem : e # k /\ e # j => pattern'[e] = pattern[e]
      /\ \A e \in Elem : pattern[e] \in Elem
  BY <1>0, <1>1, <1>2 DEF Swap
<1>4. ShuffleTypeOK'
  <2>1. pattern' \in [Elem -> Elem]
    BY <1>0, <1>1, <1>2, <1>3 DEF Swap
  <2>2. iter' \in 1..Count
    BY <1>0, CountAssumption
  <2> QED
    BY <2>1, <2>2 DEF ShuffleTypeOK, Elem
<1>5. Injective'
  BY <1>2, <1>3 DEF ShuffleInv, Injective
<1>6. ForwardMeets'
  <2> SUFFICES ASSUME NEW S \in SUBSET Elem, S # {}, Closed(S)',
                      S \cap Low' = {}
               PROVE  FALSE
    BY DEF ForwardMeets, Elem
  <2>1. j \notin S
    BY <1>0, <1>1 DEF Low
  <2>2. CASE k \notin S
    <3>1. Closed(S)
      BY <1>2, <1>3, <2>1, <2>2 DEF Closed
    <3> QED
      BY <1>2, <2>2, <3>1 DEF ShuffleInv, ForwardMeets
  <2>3. CASE k \in S
    <3>1. PICK C \in SUBSET Elem : Closed(C) /\ C \cap Low = {j}
      BY <1>2 DEF ShuffleInv, Separate
    <3>2. pattern[j] \in S \cap C
      BY <1>2, <1>3, <2>3, <3>1 DEF Closed
    <3>3. k \notin C
      BY <1>2, <3>1
    <3>4. Closed(S \cap C)
      BY <1>2, <1>3, <2>1, <3>1, <3>3 DEF Closed
    <3>5. (S \cap C) \cap Low = {}
      BY <2>1, <3>1
    <3> QED
      BY <3>2, <3>4, <3>5 DEF ShuffleInv, ForwardMeets
  <2> QED
    BY <2>2, <2>3
<1>7. BackwardMeets'
  <2> SUFFICES ASSUME NEW S \in SUBSET Elem, S # {}, BackClosed(S)',
                      S \cap Low' = {}
               PROVE  FALSE
    BY DEF BackwardMeets, Elem
  <2>1. j \notin S
    BY <1>0, <1>1 DEF Low
  <2>2. \A e \in Elem : pattern'[e] \in S => e \in S
    BY DEF BackClosed, Elem
  <2>3. pattern[k] \notin S
    BY <1>2, <1>3, <2>1, <2>2
  <2>4. CASE k \notin S
    <3>1. BackClosed(S)
      BY <1>2, <1>3, <2>2, <2>3, <2>4 DEF BackClosed
    <3> QED
      BY <1>2, <2>4, <3>1 DEF ShuffleInv, BackwardMeets
  <2>5. CASE k \in S
    <3>1. PICK C \in SUBSET Elem : Closed(C) /\ C \cap Low = {k}
      BY <1>2 DEF ShuffleInv, Separate
    <3>2. pattern[k] \in C \ S /\ j \notin C
      BY <1>2, <1>3, <2>3, <3>1 DEF Closed
    <3>3. Closed(C \ S)
      <4> SUFFICES ASSUME NEW e \in C \ S PROVE pattern[e] \in C \ S
        BY DEF Closed
      <4>1. e # k /\ e # j /\ pattern'[e] = pattern[e]
        BY <1>3, <2>5, <3>2
      <4> QED
        BY <2>2, <3>1, <4>1 DEF Closed
    <3>4. (C \ S) \cap Low = {}
      BY <2>5, <3>1
    <3> QED
      BY <3>2, <3>3, <3>4 DEF ShuffleInv, ForwardMeets
  <2> QED
    BY <2>4, <2>5
<1>8. Separate'
  <2> SUFFICES ASSUME NEW a \in Low'
               PROVE  \E C \in SUBSET Elem : Closed(C)' /\ C \cap Low' = {a}
    BY DEF Separate, Elem
  <2>1. PICK C \in SUBSET Elem : Closed(C) /\ C \cap Low = {a}
    BY <1>2 DEF ShuffleInv, Separate
  <2>2. CASE a # j
    <3>1. k \notin C /\ j \notin C
      BY <1>2, <2>1, <2>2
    <3>2. Closed(C)'
      BY <1>3, <2>1, <3>1 DEF Closed
    <3> QED
      BY <1>2, <2>1, <3>1, <3>2
  <2>3. CASE a = j
    <3>1. PICK D \in SUBSET Elem : Closed(D) /\ D \cap Low = {k}
      BY <1>2 DEF ShuffleInv, Separate
    <3>2. j \in C /\ k \in D
      BY <2>1, <2>3, <3>1
    <3>3. Closed(C \cup D)'
      BY <1>3, <2>1, <3>1, <3>2 DEF Closed
    <3>4. (C \cup D) \cap Low' = {a}
      BY <1>2, <2>1, <2>3, <3>1
    <3> QED
      BY <3>3, <3>4
  <2> QED
    BY <2>2, <2>3
<1> QED
  BY <1>4, <1>5, <1>6, <1>7, <1>8 DEF ShuffleInv

\* When the loop is over, a set the chase cannot leave contains element 0, and
\* so does its complement unless it is empty.
LEMMA FinishedIsOneCycle == ShuffleInv => OneCycle
<1> SUFFICES ASSUME ShuffleInv, iter = 1,
                    NEW S \in SUBSET Elem, S # {}, Closed(S)
             PROVE  S = Elem
  BY DEF OneCycle
<1>1. Low = {0}
  BY DEF Low
<1>2. 0 \in S
  BY <1>1 DEF ShuffleInv, ForwardMeets
<1>3. BackClosed(Elem \ S)
  BY DEF BackClosed, Closed
<1>4. Elem \ S = {}
  BY <1>1, <1>2, <1>3 DEF ShuffleInv, BackwardMeets
<1> QED
  BY <1>4

LEMMA StutterShuffleInv ==
    ASSUME ShuffleInv, UNCHANGED shuffleVars
    PROVE  ShuffleInv'
BY DEF ShuffleInv, shuffleVars, ShuffleTypeOK, Injective, ForwardMeets,
       BackwardMeets, Separate, Closed, BackClosed, Low

\* Whatever rand() returns, the finished pattern is one cycle.
THEOREM ShuffleOneCycle == SpecShuffle => []OneCycle
<1>1. ShuffleInv /\ [Shuffle]_shuffleVars => ShuffleInv'
  BY StepShuffleInv, StutterShuffleInv
<1> QED
  BY <1>1, FillShuffleInv, FinishedIsOneCycle, PTL DEF SpecShuffle
-----------------------------------------------------------------------------
\* Unsettled positions hold themselves or a settled position, and no settled
\* position holds its predecessor.
StepInv ==
    /\ ShuffleTypeOK
    /\ \A e \in Elem : e < iter => pattern[e] = e \/ pattern[e] >= iter
    /\ \A e \in Elem : e >= iter /\ e > 1 => pattern[e] # e - 1

LEMMA StepStepInv ==
    ASSUME StepInv, Shuffle, ShuffleInv
    PROVE  StepInv'
<1> DEFINE k == iter - 1
<1>1. /\ pattern \in [Elem -> Elem] /\ k \in 1..(Count - 1) /\ iter' = k
      /\ k \in Elem /\ iter = k + 1
  BY CountAssumption DEF StepInv, ShuffleTypeOK, Shuffle, Elem
<1>2. ShuffleTypeOK'
  BY StepShuffleInv DEF ShuffleInv
<1> HIDE DEF k
<1>3. PICK j \in RandPick(k) : pattern' = Swap(pattern, k, j)
  BY <1>1 DEF Shuffle, k
<1>4. /\ j \in Elem /\ j < k /\ (k > 1 => j # k - 1)
  BY <1>1, <1>3, CountAssumption DEF RandPick, Elem
<1>5. /\ pattern'[k] = pattern[j] /\ pattern'[j] = pattern[k]
      /\ \A e \in Elem : e # k /\ e # j => pattern'[e] = pattern[e]
  BY <1>1, <1>3, <1>4 DEF Swap
<1>6. \A e \in Elem : e \in Int /\ pattern[e] \in Int
  BY <1>1 DEF Elem
<1>7. ASSUME NEW e \in Elem, e < k
      PROVE  pattern'[e] = e \/ pattern'[e] >= k
  BY <1>1, <1>4, <1>5, <1>6, <1>7 DEF StepInv
<1>8. ASSUME NEW e \in Elem, e >= k, e > 1
      PROVE  pattern'[e] # e - 1
  BY <1>1, <1>4, <1>5, <1>6, <1>8 DEF StepInv
<1> QED
  BY <1>1, <1>2, <1>7, <1>8 DEF StepInv, Elem

\* The chase never steps back by one element.
THEOREM ShuffleNeverStepsBack == SpecShuffle => []NeverStepsBack
<1>1. FillIdentity => StepInv
  BY FillShuffleInv DEF FillIdentity, StepInv, Elem, ShuffleInv
<1>2. StepInv => NeverStepsBack
  BY DEF StepInv, NeverStepsBack, Elem
<1>3. ShuffleInv /\ StepInv /\ [Shuffle]_shuffleVars => StepInv'
  BY StepStepInv DEF StepInv, shuffleVars, ShuffleTypeOK
<1>4. ShuffleInv /\ [Shuffle]_shuffleVars => ShuffleInv'
  BY StepShuffleInv, StutterShuffleInv
<1> QED
  BY <1>1, <1>2, <1>3, <1>4, FillShuffleInv, PTL DEF SpecShuffle
-----------------------------------------------------------------------------
(***************************************************************************)
(* For every number of elements, every line and page size and every outcome *)
(* of the shuffle, the chase visits the whole array lap after lap.         *)
(***************************************************************************)

\* What the chase relies on.  The elements of the current lap can only be left
\* for the element the next load touches.
ChaseInv ==
    /\ test \in {"lines", "pages"}
    /\ phase \in {"shuffle", "first", "chase", "done"}
    /\ phase # "shuffle" =>
          /\ iter = 1
          /\ \A e \in Elem : arr[Index(e)] = Index(pattern[e])
    /\ phase \in {"shuffle", "first"} => lap = {} /\ hops = 0
    /\ hops \in Nat /\ lap \subseteq Elem
    /\ phase \in {"chase", "done"} =>
          /\ lap # {}
          /\ \E c \in Elem : /\ current = Index(c)
                             /\ \A e \in lap : pattern[e] \in lap \cup {c}

RingInv == ShuffleInv /\ ChaseInv
-----------------------------------------------------------------------------
\* Quotients are unique.
LEMMA QuotientUnique ==
    ASSUME NEW n \in Nat \ {0}, NEW a \in Nat, NEW b \in Nat,
           NEW r \in 0..(n - 1), NEW s \in 0..(n - 1), a * n + r = b * n + s
    PROVE  a = b
<1>1. ASSUME NEW x \in Nat, NEW y \in Nat, x < y PROVE x * n + n <= y * n
  <2>1. PICK d \in Nat : y = x + 1 + d
    <3>1. y - x - 1 \in Nat /\ y = x + 1 + (y - x - 1)
      BY <1>1
    <3> QED
      BY <3>1
  <2>2. y * n = x * n + n + d * n /\ d * n \in Nat /\ x * n \in Nat
    BY <2>1
  <2> QED
    BY <2>2
<1>2. a * n \in Nat /\ b * n \in Nat
  OBVIOUS
<1>3. ~ (a < b)
  BY <1>1, <1>2
<1>4. ~ (b < a)
  BY <1>1, <1>2
<1> QED
  BY <1>3, <1>4

\* Elements live at different indices of the array.
LEMMA IndexIsInjective ==
    ASSUME test \in {"lines", "pages"}
    PROVE  /\ \A e \in Elem : Index(e) \in Address
           /\ \A a, b \in Elem : Index(a) = Index(b) => a = b
           /\ Index(0) = 0 /\ 0 \in Elem
<1> USE CountAssumption, LayoutAssumption
<1>0. 0 \in Elem /\ Elem \subseteq Nat
  BY DEF Elem
<1>2. ASSUME NEW n \in Nat \ {0}, NEW a \in Elem, NEW r \in 0..(n - 1)
      PROVE  a * n + r \in 0..(Count * n - 1)
  <2>1. PICK d \in Nat : Count = a + 1 + d
    <3>1. Count - a - 1 \in Nat /\ Count = a + 1 + (Count - a - 1)
      BY DEF Elem
    <3> QED
      BY <3>1
  <2>2. /\ Count * n = a * n + n + d * n
        /\ d * n \in Nat /\ a * n \in Nat
    BY <1>0, <2>1
  <2> QED
    BY <2>2
<1>3. \A e \in Elem : (e * LineElems) % PageElems \in 0..(PageElems - 1)
  <2> SUFFICES ASSUME NEW e \in Elem
               PROVE  (e * LineElems) % PageElems \in 0..(PageElems - 1)
    OBVIOUS
  <2>1. e * LineElems \in Nat
    BY <1>0
  <2> QED
    BY <2>1
<1>4. Index(0) = 0
  BY DEF Index
<1>5. CASE test = "lines"
  <2>1. \A e \in Elem : Index(e) = e * LineElems + 0 /\ 0 \in 0..(LineElems - 1)
    BY <1>0, <1>5 DEF Index
  <2>2. ListSize = Count * LineElems
    BY <1>5 DEF ListSize
  <2>3. ASSUME NEW e \in Elem PROVE Index(e) \in Address
    <3>1. Index(e) \in 0..(Count * LineElems - 1)
      BY <1>2, <2>1
    <3> QED
      BY <2>2, <3>1 DEF Address
  <2>4. ASSUME NEW a \in Elem, NEW b \in Elem, Index(a) = Index(b) PROVE a = b
    <3>1. a * LineElems + 0 = b * LineElems + 0
      BY <2>1, <2>4
    <3>2. /\ LineElems \in Nat \ {0} /\ 0 \in 0..(LineElems - 1)
          /\ a \in Nat /\ b \in Nat
      BY <1>0
    <3> QED
      BY <1>0, <3>1, <3>2, QuotientUnique
  <2> QED
    BY <1>0, <1>4, <2>3, <2>4
<1>6. CASE test = "pages"
  <2>1. \A e \in Elem : Index(e) = e * PageElems + ((e * LineElems) % PageElems)
    BY <1>6 DEF Index
  <2>2. ListSize = Count * PageElems
    BY <1>6 DEF ListSize
  <2>3. ASSUME NEW e \in Elem PROVE Index(e) \in Address
    <3>1. Index(e) \in 0..(Count * PageElems - 1)
      BY <1>2, <1>3, <2>1
    <3> QED
      BY <2>2, <3>1 DEF Address
  <2>4. ASSUME NEW a \in Elem, NEW b \in Elem, Index(a) = Index(b) PROVE a = b
    <3> DEFINE r == (a * LineElems) % PageElems
               s == (b * LineElems) % PageElems
    <3>1. a * PageElems + r = b * PageElems + s
      BY <2>1, <2>4
    <3>2. /\ PageElems \in Nat \ {0} /\ a \in Nat /\ b \in Nat
          /\ r \in 0..(PageElems - 1) /\ s \in 0..(PageElems - 1)
      BY <1>0, <1>3
    <3> HIDE DEF r, s
    <3> QED
      BY <1>0, <3>1, <3>2, QuotientUnique
  <2> QED
    BY <1>0, <1>4, <2>3, <2>4
<1> QED
  BY <1>0, <1>4, <1>5, <1>6

LEMMA ElementAtIndex ==
    ASSUME test \in {"lines", "pages"}, NEW e \in Elem
    PROVE  ElementAt(Index(e)) = e
BY IndexIsInjective DEF ElementAt

LEMMA ChaseInitInv == ChaseInit => RingInv
BY FillShuffleInv DEF ChaseInit, RingInv, ChaseInv

\* A lap that has touched some elements but not all can be left: the next load
\* touches an element the lap has not touched.  This is where the single cycle
\* is used.
LEMMA NextIsNew ==
    ASSUME OneCycle, iter = 1, lap \subseteq Elem, lap # {}, lap # Elem,
           NEW c \in Elem, \A e \in lap : pattern[e] \in lap \cup {c}
    PROVE  c \notin lap
BY DEF OneCycle, Closed

\* One load of the chase, first or later: it touches c, the element that index
\* a belongs to, and goes to pattern[c].
LEMMA LoadStep ==
    ASSUME RingInv, phase # "shuffle", NEW a, NEW c \in Elem, a = Index(c),
           lap' = Touched(a), UNCHANGED <<pattern, test, arr>>,
           \A e \in lap : pattern[e] \in lap \cup {c}
    PROVE  /\ arr[a] = Index(pattern[c]) /\ pattern[c] \in Elem
           /\ lap' = IF lap = Elem THEN {c} ELSE lap \cup {c}
           /\ lap' # {} /\ lap' \subseteq Elem
           /\ \A e \in lap' : pattern[e] \in lap' \cup {pattern[c]}
<1>1. ElementAt(a) = c
  BY ElementAtIndex DEF RingInv, ChaseInv
<1>2. lap' = IF lap = Elem THEN {c} ELSE lap \cup {c}
  BY <1>1 DEF Touched
<1>3. arr[a] = Index(pattern[c]) /\ pattern[c] \in Elem
  BY DEF RingInv, ChaseInv, ShuffleInv, ShuffleTypeOK
<1>4. lap \subseteq Elem
  BY DEF RingInv, ChaseInv
<1> QED
  BY <1>2, <1>3, <1>4

LEMMA ChaseNextInv ==
    ASSUME RingInv, [ChaseNext]_walkVars
    PROVE  RingInv'
<1>0. ShuffleInv'
  <2>1. Shuffle \/ UNCHANGED shuffleVars
    BY DEF ChaseNext, ChaseShuffle, LayOut, FirstLoad, Hop, Looping, ChaseReport, ChaseFinished, walkVars
  <2> QED
    BY <2>1, StepShuffleInv, StutterShuffleInv DEF RingInv
<1> SUFFICES ChaseInv'
  BY <1>0 DEF RingInv
<1>1. CASE ChaseShuffle
  BY <1>1 DEF RingInv, ChaseInv, ChaseShuffle, chaseVars
<1>2. CASE LayOut
  <2>1. iter = 1 /\ test' = test
    BY <1>2, CountAssumption
       DEF LayOut, RingInv, ShuffleInv, ShuffleTypeOK, shuffleVars
  <2>2. \A e \in Elem : arr'[Index(e)] = Index(pattern[e])
    <3> SUFFICES ASSUME NEW e \in Elem
                 PROVE  arr'[Index(e)] = Index(pattern[e])
      OBVIOUS
    <3>1. Index(e) \in Address
      BY IndexIsInjective DEF RingInv, ChaseInv
    <3>2. e = CHOOSE f \in Elem : Index(e) = Index(f)
      BY IndexIsInjective DEF RingInv, ChaseInv
    <3> QED
      BY <1>2, <3>1, <3>2 DEF LayOut, Target
  <2>3. /\ phase' = "first" /\ lap' = {} /\ hops' = 0
        /\ UNCHANGED <<pattern, iter>>
    BY <1>2 DEF RingInv, ChaseInv, LayOut, shuffleVars
  <2>4. \A e \in Elem : (arr[Index(e)] = Index(pattern[e]))'
    BY <2>1, <2>2, <2>3 DEF Index, Elem
  <2> QED
    BY <2>1, <2>3, <2>4 DEF RingInv, ChaseInv, Elem
<1>3. CASE FirstLoad
  <2>1. /\ phase = "first" /\ phase' = "chase" /\ lap = {} /\ iter = 1
        /\ UNCHANGED <<pattern, iter, test, arr, hops>>
        /\ current' = arr[0] /\ lap' = Touched(0)
    BY <1>3 DEF FirstLoad, RingInv, ChaseInv, shuffleVars
  <2>2. 0 = Index(0) /\ 0 \in Elem
    BY IndexIsInjective DEF RingInv, ChaseInv
  <2>3. /\ arr[0] = Index(pattern[0]) /\ pattern[0] \in Elem
        /\ lap' # {} /\ lap' \subseteq Elem
        /\ \A e \in lap' : pattern[e] \in lap' \cup {pattern[0]}
    BY <2>1, <2>2, LoadStep
  <2> QED
    BY <2>1, <2>3 DEF RingInv, ChaseInv, Index, Elem
<1>4. CASE Hop
  <2>1. /\ phase = "chase" /\ iter = 1 /\ hops' = hops + 1
        /\ UNCHANGED <<pattern, iter, test, arr, phase>>
        /\ current' = arr[current] /\ lap' = Touched(current)
    BY <1>4 DEF Hop, Looping, RingInv, ChaseInv, shuffleVars
  <2>2. PICK c \in Elem : /\ current = Index(c)
                          /\ \A e \in lap : pattern[e] \in lap \cup {c}
    BY <2>1 DEF RingInv, ChaseInv
  <2>3. /\ arr[current] = Index(pattern[c]) /\ pattern[c] \in Elem
        /\ lap' # {} /\ lap' \subseteq Elem
        /\ \A e \in lap' : pattern[e] \in lap' \cup {pattern[c]}
    BY <2>1, <2>2, LoadStep
  <2> QED
    BY <2>1, <2>3 DEF RingInv, ChaseInv, Index, Elem
<1>5. CASE ChaseReport
  BY <1>5 DEF RingInv, ChaseInv, ChaseReport, Looping, shuffleVars, chaseVars, Index, Elem
<1>6. CASE UNCHANGED walkVars
  BY <1>6 DEF RingInv, ChaseInv, walkVars, shuffleVars, chaseVars, Index, Elem
<1> QED
  BY <1>1, <1>2, <1>3, <1>4, <1>5, <1>6 DEF ChaseNext, ChaseFinished
-----------------------------------------------------------------------------
\* Every pointer chase runs over a single cycle.
THEOREM RingCorrect == ChaseSpec => []OneCycle
BY ChaseInitInv, ChaseNextInv, FinishedIsOneCycle, PTL DEF ChaseSpec, RingInv

\* Numbers with the same remainder are a multiple of the divisor apart.
LEMMA SameRemainder ==
    ASSUME NEW n \in Nat \ {0}, NEW u \in Nat, NEW v \in Nat, u < v, u % n = v % n
    PROVE  v - u >= n
<1> DEFINE f == u \div n
           q == v \div n
           r == u % n
<1>1. f \in Nat /\ q \in Nat /\ r \in 0..(n - 1)
  OBVIOUS
<1>2. u = n * f + r /\ v = n * q + r
  OBVIOUS
<1> HIDE DEF f, q, r
<1>3. n * f \in Nat /\ n * q \in Nat
  BY <1>1
<1>4. f < q
  <2>1. SUFFICES ASSUME q <= f PROVE FALSE
    BY <1>1
  <2>2. PICK d \in Nat : f = q + d
    <3>1. f - q \in Nat /\ f = q + (f - q)
      BY <1>1, <2>1
    <3> QED
      BY <3>1
  <2>3. n * f = n * q + n * d /\ n * d \in Nat
    BY <1>1, <2>2
  <2> QED
    BY <1>1, <1>2, <1>3, <2>3
<1>5. PICK d \in Nat : q = f + 1 + d
  <2>1. q - f - 1 \in Nat /\ q = f + 1 + (q - f - 1)
    BY <1>1, <1>4
  <2> QED
    BY <2>1
<1>6. n * q = n * f + n + n * d /\ n * d \in Nat
  BY <1>1, <1>5
<1> QED
  BY <1>1, <1>2, <1>3, <1>6

\* Staggered pages that share a line offset are a page of lines apart.
LEMMA Staggered ==
    ASSUME test = "pages", NEW a \in Elem, NEW b \in Elem, a < b,
           Index(a) % PageElems = Index(b) % PageElems
    PROVE  (b - a) * LineElems >= PageElems
<1> USE CountAssumption, LayoutAssumption
<1> DEFINE u == a * LineElems
           v == b * LineElems
<1>1. a \in Nat /\ b \in Nat /\ b - a \in Nat \ {0}
  BY DEF Elem
<1>2. u \in Nat /\ v \in Nat /\ v = u + (b - a) * LineElems
  BY <1>1
<1>3. ASSUME NEW e \in Nat, NEW w \in Nat
      PROVE  (e * PageElems + (w % PageElems)) % PageElems = w % PageElems
  <2>1. w % PageElems \in 0..(PageElems - 1)
    OBVIOUS
  <2>2. ASSUME NEW m \in Nat, NEW r \in 0..(PageElems - 1)
        PROVE  (m * PageElems + r) % PageElems = r
    <3> DEFINE z == m * PageElems + r
    <3>1. z \in Nat /\ m * PageElems \in Nat
      OBVIOUS
    <3>2. PICK q \in Nat : z = q * PageElems + (z % PageElems) /\ z % PageElems \in 0..(PageElems - 1)
      <4>1. z \div PageElems \in Nat /\ z = (z \div PageElems) * PageElems + (z % PageElems)
        BY <3>1
      <4> QED
        BY <3>1, <4>1
    <3>3. m = q
      <4>1. m * PageElems + r = q * PageElems + (z % PageElems)
        BY <3>2
      <4> HIDE DEF z
      <4> QED
        BY <3>2, <4>1, QuotientUnique
    <3> QED
      BY <3>1, <3>2, <3>3
  <2> QED
    BY <2>1, <2>2
<1>4. u % PageElems = v % PageElems
  BY <1>1, <1>2, <1>3 DEF Index
<1>5. (b - a) * LineElems \in Nat \ {0}
  BY <1>1
<1> HIDE DEF u, v
<1>6. u < v
  BY <1>2, <1>5
<1>7. v - u >= PageElems
  BY <1>2, <1>4, <1>6, SameRemainder
<1> QED
  BY <1>2, <1>5, <1>7

\* Every load of RunTest(), RunAsmTest() and RunTlbTest() stays in its array
\* and finds a pointer there, and the pages of RunTlbTest() do not meet in the
\* same sets of the cache.
THEOREM ChaseStaysInBounds == ChaseSpec => []ChaseInBounds
<1>1. ASSUME RingInv PROVE ChaseInBounds
  <2>1. ASSUME phase = "chase" PROVE current \in Address /\ arr[current] \in Address
    <3>1. PICK c \in Elem : current = Index(c)
      BY <1>1, <2>1 DEF RingInv, ChaseInv
    <3>2. arr[current] = Index(pattern[c]) /\ pattern[c] \in Elem
      BY <1>1, <2>1, <3>1 DEF RingInv, ChaseInv, ShuffleInv, ShuffleTypeOK
    <3> QED
      BY <1>1, <3>1, <3>2, IndexIsInjective DEF RingInv, ChaseInv
  <2> QED
    BY <2>1, Staggered DEF ChaseInBounds
<1> QED
  BY <1>1, ChaseInitInv, ChaseNextInv, PTL DEF ChaseSpec

\* The chase implements RingWalk: it touches all elements of the array once
\* before it touches any of them twice, in the first lap and in every later
\* one.  The reported size is the size that was walked.
THEOREM ChaseWalksTheRing == ChaseSpec => WalksTheRing
<1>1. ChaseInit => Walk!Init
  BY DEF ChaseInit, Walk!Init
<1>2. ASSUME RingInv, [ChaseNext]_walkVars PROVE [Walk!Load]_(Walk!vars)
  <2> DEFINE loads == IF phase \in {"shuffle", "first"} THEN 0 ELSE hops + 1
  <2>1. ASSUME UNCHANGED <<loads, lap, Elem>> PROVE [Walk!Load]_(Walk!vars)
    BY <2>1 DEF Walk!vars
  <2>2. ASSUME NEW c \in Elem, lap \subseteq Elem, loads' = loads + 1,
               lap # Elem => c \notin lap,
               lap' = IF lap = Elem THEN {c} ELSE lap \cup {c}
        PROVE  Walk!Load
    <3>1. c \in (IF Elem \ lap = {} THEN Elem ELSE Elem \ lap)
      BY <2>2
    <3>2. (Elem \ lap)' = (IF Elem \ lap = {} THEN Elem ELSE Elem \ lap) \ {c}
      BY <2>2 DEF Elem
    <3> QED
      BY <2>2, <3>1, <3>2 DEF Walk!Load
  <2>3. CASE FirstLoad
    <3>1. /\ lap = {} /\ 0 \in Elem /\ lap' = {0} /\ loads' = loads + 1
      <4>1. 0 \in Elem /\ ElementAt(0) = 0
        BY <1>2, IndexIsInjective, ElementAtIndex DEF RingInv, ChaseInv
      <4>2. /\ lap = {} /\ hops' = 0 /\ hops = 0 /\ phase' = "chase"
            /\ phase = "first" /\ lap' = Touched(0)
        BY <1>2, <2>3 DEF FirstLoad, RingInv, ChaseInv
      <4> QED
        BY <4>1, <4>2 DEF Touched
    <3> QED
      BY <2>2, <3>1
  <2>4. CASE Hop
    <3>1. PICK c \in Elem : /\ current = Index(c)
                            /\ \A e \in lap : pattern[e] \in lap \cup {c}
      BY <1>2, <2>4 DEF Hop, RingInv, ChaseInv
    <3>2. ElementAt(current) = c
      BY <1>2, <3>1, ElementAtIndex DEF RingInv, ChaseInv
    <3>3. lap # Elem => c \notin lap
      BY <1>2, <2>4, <3>1, NextIsNew, FinishedIsOneCycle DEF Hop, RingInv, ChaseInv
    <3>4. /\ loads' = loads + 1 /\ lap \subseteq Elem
          /\ lap' = IF lap = Elem THEN {c} ELSE lap \cup {c}
      BY <1>2, <2>4, <3>2 DEF Hop, Touched, RingInv, ChaseInv
    <3> QED
      BY <2>2, <3>3, <3>4
  <2>5. CASE ~ FirstLoad /\ ~ Hop
    <3>1. UNCHANGED <<loads, lap, Elem>>
      BY <1>2, <2>5
         DEF ChaseNext, ChaseShuffle, LayOut, ChaseReport, ChaseFinished, walkVars, chaseVars,
             RingInv, ChaseInv, Elem
    <3> QED
      BY <2>1, <3>1
  <2> QED
    BY <2>3, <2>4, <2>5
<1> QED
  BY <1>1, <1>2, ChaseInitInv, ChaseNextInv, PTL DEF ChaseSpec, WalksTheRing, Walk!Spec
-----------------------------------------------------------------------------
(***************************************************************************)
(* For every number of lines, every number of chains up to it and every    *)
(* outcome of the shuffle, no two chains of RunMlpTest() share a line.     *)
(***************************************************************************)

ChainTypes == /\ parallelism \in 1..MaxParallelism
              /\ pc \in {"shuffle", "run", "done"}
              /\ offsets \in [Chain -> Elem]
              /\ from \in [Chain -> Elem]
              /\ turn \in 0..parallelism
              /\ rounds \in Rounds
              /\ round \in 0..rounds

\* A chain that has had its turn went on along the ring.
FollowsTheRing ==
    pc = "run" => \A c \in Chain : c < turn => offsets[c] = pattern[from[c]]

NotStarted == pc = "shuffle" => turn = 0 /\ round = 0

MlpInv == ShuffleInv /\ NotStarted /\ ChainTypes /\ FollowsTheRing /\ NoSharedLine
-----------------------------------------------------------------------------
LEMMA MlpInitInv == Init => MlpInv
<1> SUFFICES ASSUME Init PROVE MlpInv
  OBVIOUS
<1>1. 0 \in Elem /\ parallelism \in Nat
  BY CountAssumption, ParallelismAssumption DEF Init, Elem
<1>2. ChainTypes
  BY <1>1, RoundsAssumption DEF Init, ChainTypes
<1> QED
  BY <1>2, FillShuffleInv DEF Init, MlpInv, NotStarted, FollowsTheRing, NoSharedLine

LEMMA MlpNextInv ==
    ASSUME MlpInv, [Next]_vars
    PROVE  MlpInv'
<1>0. ShuffleInv'
  <2>1. Shuffle \/ UNCHANGED shuffleVars
    BY DEF Next, ShuffleRound, PlaceChains, Advance, NextRound, Report,
           Finished, vars
  <2> QED
    BY <2>1, StepShuffleInv, StutterShuffleInv DEF MlpInv
<1>n. NotStarted'
  <2>1. CASE ShuffleRound \/ UNCHANGED vars
    BY <2>1 DEF MlpInv, NotStarted, ShuffleRound, vars, testVars, chainVars
  <2>2. CASE PlaceChains \/ Advance \/ NextRound \/ Report
    BY <2>2 DEF PlaceChains, Advance, NextRound, Report, NotStarted
  <2> QED
    BY <2>1, <2>2 DEF Next, Finished
<1> SUFFICES ChainTypes' /\ FollowsTheRing' /\ NoSharedLine'
  BY <1>0, <1>n DEF MlpInv
<1>t. /\ ChainTypes /\ pattern \in [Elem -> Elem]
      /\ parallelism \in Nat /\ turn \in Nat /\ Chain \subseteq Nat
      /\ Chain \subseteq Elem
  <2>1. /\ ChainTypes /\ pattern \in [Elem -> Elem]
        /\ parallelism \in 1..MaxParallelism /\ turn \in 0..parallelism
    BY DEF MlpInv, ChainTypes, ShuffleInv, ShuffleTypeOK
  <2>2. parallelism \in Nat /\ parallelism <= Count
    BY <2>1, ParallelismAssumption, CountAssumption
  <2> QED
    BY <2>1, <2>2, CountAssumption DEF Chain, Elem
<1>1. CASE ShuffleRound
  BY <1>1, <1>t DEF ShuffleRound, testVars, chainVars, ChainTypes, FollowsTheRing,
                    NoSharedLine, Chain
<1>2. CASE PlaceChains
  <2>1. /\ pc' = "run" /\ turn' = turn /\ Chain' = Chain
        /\ UNCHANGED <<parallelism, rounds, round, from>>
        /\ offsets' = [c \in Chain |-> c]
    BY <1>2 DEF PlaceChains, testVars, Chain
  <2>2. turn = 0
    BY <1>2 DEF PlaceChains, MlpInv, NotStarted
  <2> QED
    BY <1>t, <2>1, <2>2 DEF ChainTypes, FollowsTheRing, NoSharedLine, LoadOf
<1>3. CASE Advance
  <2>1. /\ pc = "run" /\ turn < parallelism /\ turn' = turn + 1
        /\ Chain' = Chain /\ turn \in Chain
        /\ UNCHANGED <<pattern, parallelism, rounds, pc, round>>
    BY <1>3, <1>t DEF Advance, testVars, shuffleVars, Chain
  <2>2. /\ from' \in [Chain -> Elem] /\ offsets' \in [Chain -> Elem]
        /\ from'[turn] = offsets[turn]
        /\ offsets'[turn] = pattern[offsets[turn]]
        /\ \A c \in Chain : c # turn =>
              from'[c] = from[c] /\ offsets'[c] = offsets[c]
    BY <1>3, <1>t, <2>1 DEF Advance, ChainTypes
  <2>3. ChainTypes'
    BY <1>t, <2>1, <2>2 DEF ChainTypes
  <2>4. FollowsTheRing'
    BY <1>t, <2>1, <2>2 DEF MlpInv, FollowsTheRing
  <2>5. \A c \in Chain : LoadOf(c)' = LoadOf(c)
    BY <1>t, <2>1, <2>2 DEF LoadOf
  <2>6. NoSharedLine'
    BY <2>1, <2>5 DEF MlpInv, NoSharedLine
  <2> QED
    BY <2>3, <2>4, <2>6
<1>4. CASE NextRound
  <2>1. /\ pc = "run" /\ turn >= parallelism /\ turn' = 0
        /\ Chain' = Chain /\ round' \in 0..rounds /\ rounds' = rounds
        /\ UNCHANGED <<pattern, parallelism, rounds, pc, offsets, from>>
    BY <1>4, <1>t, RoundsAssumption
       DEF NextRound, testVars, shuffleVars, Chain, ChainTypes
  <2>2. \A c \in Chain : LoadOf(c) = from[c] /\ offsets[c] = pattern[from[c]]
    BY <1>t, <2>1 DEF MlpInv, FollowsTheRing, LoadOf, Chain
  <2>3. \A c \in Chain : LoadOf(c)' = pattern[from[c]] /\ from[c] \in Elem
    BY <1>t, <2>1, <2>2 DEF LoadOf, ChainTypes, Chain
  <2>4. NoSharedLine'
    BY <2>1, <2>2, <2>3
       DEF MlpInv, NoSharedLine, ShuffleInv, Injective
  <2>5. ChainTypes' /\ FollowsTheRing'
    BY <1>t, <2>1 DEF ChainTypes, FollowsTheRing, Chain
  <2> QED
    BY <2>4, <2>5
<1>5. CASE Report
  BY <1>5, <1>t DEF Report, testVars, chainVars, ChainTypes, FollowsTheRing,
                    NoSharedLine, Chain
<1>6. CASE UNCHANGED vars
  BY <1>6, <1>t DEF vars, testVars, shuffleVars, chainVars, MlpInv, ChainTypes,
                    FollowsTheRing, NoSharedLine, LoadOf, Chain
<1> QED
  BY <1>1, <1>2, <1>3, <1>4, <1>5, <1>6 DEF Next, Finished

\* No two chains load the same line in one round.
THEOREM ChainsShareNoLine == Spec => []NoSharedLine
BY MlpInitInv, MlpNextInv, PTL DEF Spec, MlpInv

\* The type invariant of the chains.
THEOREM MlpTypeCorrect == Spec => []TypeOK
<1>1. MlpInv => TypeOK
  BY DEF MlpInv, TypeOK, ChainTypes, ShuffleInv
<1> QED
  BY <1>1, MlpInitInv, MlpNextInv, PTL DEF Spec
-----------------------------------------------------------------------------
(***************************************************************************)
(* main(): one command line with any tables, counts and failing malloc().  *)
(* First what scale_iterations() computes.                                 *)
(***************************************************************************)
\* A non-empty set of natural numbers has a least element.  The library's
\* theorem takes an operator; this one orders the intervals up to the numbers.
LEMMA LeastOf ==
    ASSUME NEW T, T \subseteq Nat, T # {}
    PROVE  \E x \in T : \A y \in T : x <= y
<1> DEFINE R == StrictSubsetOrdering(Nat)
           I == {0..x : x \in T}
<1>1. IsWellFoundedOn(R, FiniteSubsetsOf(Nat))
  BY FS_StrictSubsetOrderingWellFounded
<1>2. I \subseteq FiniteSubsetsOf(Nat) /\ I # {}
  <2>1. ASSUME NEW x \in T PROVE 0..x \subseteq Nat /\ IsFiniteSet(0..x)
    BY FS_Interval
  <2> QED
    BY <2>1 DEF FiniteSubsetsOf
<1> HIDE DEF R
<1>3. PICK s \in I : \A t \in I : <<t, s>> \notin R
  <2> HIDE DEF I
  <2> QED
    BY <1>1, <1>2, WFMin
<1>4. PICK x \in T : s = 0..x
  BY <1>3
<1>5. ASSUME NEW y \in T, ~ (x <= y) PROVE FALSE
  <2>1. 0..y \subseteq 0..x /\ x \in 0..x /\ x \notin 0..y
    BY <1>5
  <2>2. <<0..y, s>> \in R
    BY <1>4, <2>1 DEF R, StrictSubsetOrdering
  <2> QED
    BY <1>3, <2>2
<1> QED
  BY <1>5

\* The tables of sizes, entry by entry.
LEMMA TableFacts ==
    /\ KB = 1024 /\ LargestKb \in Nat \ {0} /\ LargestKb <= KB * KB
    /\ 32 * KB <= LargestKb /\ LargestKb < WordKb
    /\ Len(TestSizes) \in Nat \ {0}
    /\ \A k \in 1..Len(TestSizes) :
          TestSizes[k] \in 1..LargestKb /\ k <= TestSizes[k]
    /\ \A j, k \in 1..Len(TestSizes) : j < k => TestSizes[j] < TestSizes[k]
    /\ Len(TlbSizes) \in Nat
    /\ \A k \in 1..Len(TlbSizes) :
          TlbSizes[k] \in Nat \ {0} /\ 4 * TlbSizes[k] <= 32 * KB
<1>0. KB = 1024
  BY DEF KB
<1>1. /\ LargestKb \in (32 * KB)..(KB * KB) /\ LargestKb < WordKb
      /\ TestSizes \in Seq(Nat \ {0}) /\ TestSizes # <<>>
      /\ TlbSizes \in Seq(Nat \ {0})
  BY TablesAssumption
<1>2. /\ LargestKb \in Nat \ {0} /\ LargestKb <= KB * KB
      /\ 32 * KB <= LargestKb
  <2>1. ASSUME NEW a \in Nat, NEW b \in Nat, NEW x \in a..b, a # 0
        PROVE  x \in Nat \ {0} /\ a <= x /\ x <= b
    BY <2>1
  <2>2. 32 * KB \in Nat /\ KB * KB \in Nat /\ 32 * KB # 0
    BY <1>0
  <2> QED
    BY <1>1, <2>1, <2>2
<1>3. /\ Len(TestSizes) \in Nat \ {0}
      /\ DOMAIN TestSizes = 1..Len(TestSizes)
      /\ DOMAIN TlbSizes = 1..Len(TlbSizes) /\ Len(TlbSizes) \in Nat
      /\ \A k \in 1..Len(TestSizes) : TestSizes[k] \in Nat \ {0}
      /\ \A k \in 1..Len(TlbSizes) : TlbSizes[k] \in Nat \ {0}
  <2>1. TestSizes \in Seq(Nat \ {0}) /\ TlbSizes \in Seq(Nat \ {0})
    BY <1>1
  <2>2. Len(TestSizes) # 0
    BY <1>1
  <2> QED
    BY <2>1, <2>2
<1>4. /\ \A j, k \in 1..Len(TestSizes) : j < k => TestSizes[j] < TestSizes[k]
      /\ \A k \in 1..Len(TestSizes) : k <= TestSizes[k]
      /\ \A k \in 1..Len(TlbSizes) : 4 * TlbSizes[k] <= 32 * KB
  BY <1>3, TablesAssumption, Zenon
<1>5. \A k \in 1..Len(TestSizes) : TestSizes[k] <= LargestKb
  BY <1>3, <1>4 DEF LargestKb
<1>6. \A k \in 1..Len(TestSizes) :
         TestSizes[k] \in 1..LargestKb /\ k <= TestSizes[k]
  <2> HIDE DEF LargestKb
  <2> QED
    BY <1>2, <1>3, <1>4, <1>5
<1>7. \A k \in 1..Len(TlbSizes) :
         TlbSizes[k] \in Nat \ {0} /\ 4 * TlbSizes[k] <= 32 * KB
  BY <1>3, <1>4, Zenon
<1>8. Len(TestSizes) \in Nat \ {0} /\ Len(TlbSizes) \in Nat /\ LargestKb < WordKb
  BY <1>1, <1>3, Zenon
<1> HIDE DEF LargestKb
<1> QED
  BY <1>0, <1>2, <1>4, <1>6, <1>7, <1>8, Zenon

\* What the remainder is.
LEMMA Remainder ==
    ASSUME NEW n \in Nat \ {0}, NEW a \in Nat
    PROVE  /\ a % n \in 0..(n - 1) /\ a % n \in Nat /\ a % n <= a
           /\ (a < n => a % n = a)
<1> DEFINE f == a \div n
           r == a % n
<1>1. f \in Nat /\ r \in 0..(n - 1) /\ a = n * f + r
  OBVIOUS
<1> HIDE DEF f, r
<1>2. n * f \in Nat /\ (f # 0 => n * f >= n)
  <2>1. ASSUME f # 0 PROVE n * f >= n
    <3>1. PICK d \in Nat : f = 1 + d
      <4>1. f - 1 \in Nat /\ f = 1 + (f - 1)
        BY <1>1, <2>1
      <4> QED
        BY <4>1
    <3>2. n * f = n + n * d /\ n * d \in Nat
      BY <3>1
    <3> QED
      BY <3>2
  <2> QED
    BY <1>1, <2>1
<1>3. r <= a /\ (a < n => r = a)
  BY <1>1, <1>2
<1> QED
  BY <1>1, <1>3 DEF r

LEMMA ProductGrows ==
    ASSUME NEW a \in Nat, NEW b \in Nat, NEW c \in Nat, NEW d \in Nat,
           a <= b, c <= d
    PROVE  a * c <= b * d /\ a * c \in Nat
<1>1. PICK x \in Nat : b = a + x
  <2>1. b - a \in Nat /\ b = a + (b - a)
    OBVIOUS
  <2> QED
    BY <2>1
<1>2. PICK y \in Nat : d = c + y
  <2>1. d - c \in Nat /\ d = c + (d - c)
    OBVIOUS
  <2> QED
    BY <2>1
<1>3. b * d = a * c + a * y + x * d /\ a * y \in Nat /\ x * d \in Nat
  <2>1. b * d = a * d + x * d
    BY <1>1
  <2>2. a * d = a * c + a * y
    BY <1>2
  <2> QED
    BY <2>1, <2>2
<1> QED
  BY <1>3

\* A quotient is not above the dividend, and zero only below the divisor.
LEMMA Quotient ==
    ASSUME NEW n \in Nat \ {0}, NEW a \in Nat
    PROVE  a \div n \in Nat /\ a \div n <= a /\ (n <= a => a \div n # 0)
<1> DEFINE f == a \div n
           r == a % n
<1>1. f \in Nat /\ r \in 0..(n - 1) /\ a = n * f + r
  OBVIOUS
<1> HIDE DEF f, r
<1>2. 1 * f <= n * f /\ n * f \in Nat
  BY <1>1, ProductGrows
<1>3. f <= a /\ (n <= a => f # 0)
  BY <1>1, <1>2
<1> QED
  BY <1>1, <1>3 DEF f

LEMMA PowerGrows ==
    ASSUME NEW a \in Nat, NEW b \in Nat, a <= b
    PROVE  FourthPower(a) <= FourthPower(b) /\ FourthPower(a) \in Nat
<1>1. a * a <= b * b /\ a * a \in Nat /\ b * b \in Nat
  BY ProductGrows
<1>2. (a * a) * a <= (b * b) * b /\ (a * a) * a \in Nat /\ (b * b) * b \in Nat
  <2> DEFINE x == a * a
             y == b * b
  <2> HIDE DEF x, y
  <2>1. x * a <= y * b /\ x * a \in Nat /\ y * b \in Nat
    BY <1>1, ProductGrows DEF x, y
  <2> QED
    BY <2>1 DEF x, y
<1>3. /\ ((a * a) * a) * a <= ((b * b) * b) * b
      /\ ((a * a) * a) * a \in Nat
  <2> DEFINE x == (a * a) * a
             y == (b * b) * b
  <2>0. x \in Nat /\ y \in Nat /\ x <= y
    BY <1>2
  <2> HIDE DEF x, y
  <2>1. x * a <= y * b /\ x * a \in Nat
    BY <2>0, ProductGrows
  <2> QED
    BY <2>1 DEF x, y
<1> QED
  BY <1>3 DEF FourthPower

LEMMA PowerOfProduct ==
    ASSUME NEW a \in Nat, NEW b \in Nat
    PROVE  FourthPower(a * b) = FourthPower(a) * FourthPower(b)
BY DEF FourthPower

LEMMA PowerOfNext ==
    ASSUME NEW a \in Nat
    PROVE  /\ FourthPower(a) \in Nat /\ FourthPower(a) < FourthPower(a + 1)
           /\ FourthPower(0) = 0
<1>1. a * a \in Nat /\ a * a * a \in Nat /\ a * a * a * a \in Nat
  OBVIOUS
<1>2. (a + 1) * (a + 1) = a * a + 2 * a + 1
  OBVIOUS
<1>3. (a + 1) * (a + 1) * (a + 1) = a * a * a + 3 * (a * a) + 3 * a + 1
  OBVIOUS
<1>4. FourthPower(a + 1) =
        a * a * a * a + 4 * (a * a * a) + 6 * (a * a) + 4 * a + 1
  BY DEF FourthPower
<1> QED
  BY <1>1, <1>4 DEF FourthPower

\* The floor of m divided by the fourth root of the size exists.
LEMMA FloorIs ==
    ASSUME NEW m \in Nat, NEW size \in Nat \ {0}
    PROVE  /\ Floor(m, size) \in 0..m
           /\ FourthPower(m) < FourthPower(Floor(m, size) + 1) * size
<1> DEFINE T == {n \in Nat : FourthPower(m) < FourthPower(n + 1) * size}
<1>1. m \in T
  <2> DEFINE x == FourthPower(m)
             y == FourthPower(m + 1)
  <2>1. x \in Nat /\ y \in Nat /\ x < y
    BY PowerOfNext, m + 1 \in Nat
  <2> HIDE DEF x, y
  <2>2. y * 1 <= y * size
    BY <2>1, ProductGrows
  <2>3. x < y * size
    BY <2>1, <2>2
  <2> QED
    BY <2>3 DEF x, y
<1>2. PICK n \in T : \A y \in T : n <= y
  <2>1. T \subseteq Nat /\ T # {}
    BY <1>1
  <2> HIDE DEF T
  <2> QED
    BY <2>1, LeastOf
<1>3. n \in 0..m /\ FourthPower(m) < FourthPower(n + 1) * size
  BY <1>1, <1>2
<1>4. FourthPower(n) * size <= FourthPower(m)
  <2>1. CASE n = 0
    BY <2>1, PowerOfNext
  <2>2. CASE n # 0
    <3>1. n - 1 \in Nat /\ n - 1 \notin T /\ (n - 1) + 1 = n
      BY <1>2, <2>2
    <3>2. ~ (FourthPower(m) < FourthPower(n) * size)
      BY <3>1
    <3>3. FourthPower(m) \in Nat /\ FourthPower(n) \in Nat
      BY PowerOfNext, <1>3
    <3>4. FourthPower(n) * size \in Nat
      BY <3>3
    <3> QED
      BY <3>2, <3>3, <3>4
  <2> QED
    BY <2>1, <2>2
<1> QED
  BY <1>3, <1>4 DEF Floor

\* What a run does, as long as it has a size to do it for.
LEMMA ScaledIs ==
    ASSUME args \in Args, NEW size \in Nat \ {0}
    PROVE  /\ Scaled(size) \in 0..((10 * args.iter) % Word)
           /\ Scaled(size) \in 0..(Word - 1)
           /\ FourthPower((10 * args.iter) % Word) <
                FourthPower(Scaled(size) + 1) * size
<1>1. 10 * args.iter \in Nat
  BY ArgsAssumption
<1> DEFINE m == (10 * args.iter) % Word
<1>2. m \in 0..(Word - 1) /\ m \in Nat /\ Word \in Nat \ {0}
  <2>1. Word \in Nat \ {0}
    BY CountsAssumption
  <2>2. (10 * args.iter) % Word \in 0..(Word - 1)
    BY <1>1, <2>1, Remainder
  <2> QED
    BY <2>1, <2>2
<1>3. Scaled(size) = Floor(m, size)
  BY DEF Scaled
<1> HIDE DEF m
<1>4. /\ Floor(m, size) \in 0..m
      /\ FourthPower(m) < FourthPower(Floor(m, size) + 1) * size
  BY <1>2, FloorIs
<1>5. Scaled(size) \in 0..(Word - 1)
  <2>1. \A x \in 0..m : x \in 0..(Word - 1)
    BY <1>2
  <2> QED
    BY <1>3, <1>4, <2>1
<1> QED
  BY <1>3, <1>4, <1>5 DEF m

LEMMA RootIs == Root \in 1..KB /\ LargestKb <= FourthPower(Root)
<1> DEFINE T == {n \in Nat : LargestKb <= FourthPower(n)}
<1>0. LargestKb \in Nat \ {0} /\ LargestKb <= KB * KB
  BY TableFacts
<1>1. KB \in T
  BY <1>0 DEF KB, FourthPower
<1>2. PICK n \in T : \A y \in T : n <= y
  <2>1. T \subseteq Nat /\ T # {}
    BY <1>1
  <2> HIDE DEF T
  <2> QED
    BY <2>1, LeastOf
<1>3. n # 0
  BY <1>0, <1>2 DEF FourthPower
<1>4. n - 1 \in Nat /\ n - 1 \notin T /\ n \in 1..KB
  BY <1>1, <1>2, <1>3 DEF KB
<1>5. FourthPower(n - 1) \in Nat
  BY <1>4, PowerOfNext
<1>6. FourthPower(n - 1) < LargestKb
  BY <1>0, <1>4, <1>5
<1> QED
  BY <1>2, <1>4, <1>6 DEF Root

\* Iterations that are enough for a number of chains are scaled to at least
\* that number at every size.
LEMMA EnoughIsEnough ==
    ASSUME args \in Args, NEW chains \in Nat \ {0}, Enough(chains),
           NEW size \in 1..LargestKb
    PROVE  chains <= Scaled(size)
<1> DEFINE m == (10 * args.iter) % Word
           n == Scaled(size)
<1>0. LargestKb \in Nat
  BY TableFacts
<1>1. size \in Nat \ {0} /\ size <= LargestKb
  BY <1>0
<1>2. m = 10 * args.iter /\ m \in Nat
  <2>1. 10 * args.iter \in Nat /\ 10 * args.iter < Word
    BY ArgsAssumption DEF Enough
  <2> QED
    BY <2>1, CountsAssumption, Remainder
<1>3. /\ n \in Nat
      /\ FourthPower(m) < FourthPower(n + 1) * size
  BY <1>1, ScaledIs
<1>4. Root \in Nat /\ Root * chains <= m /\ Root * chains \in Nat
  <2>1. Root \in Nat
    BY RootIs DEF KB
  <2> QED
    BY <1>2, <2>1 DEF Enough
<1> HIDE DEF m, n
<1>5. FourthPower(Root) * FourthPower(chains) <= FourthPower(m)
  BY <1>2, <1>4, PowerGrows, PowerOfProduct
<1>6. SUFFICES ASSUME n + 1 <= chains PROVE FALSE
  BY <1>3 DEF n
<1>7. /\ FourthPower(n + 1) <= FourthPower(chains)
      /\ FourthPower(n + 1) \in Nat /\ FourthPower(chains) \in Nat
      /\ FourthPower(Root) \in Nat /\ FourthPower(m) \in Nat
  BY <1>2, <1>3, <1>4, <1>6, PowerGrows, chains <= chains, Root <= Root, m <= m,
     n + 1 \in Nat
<1>8. FourthPower(n + 1) * size <= FourthPower(chains) * FourthPower(Root)
  <2>1. size <= FourthPower(Root)
    BY <1>0, <1>1, <1>7, RootIs
  <2> QED
    BY <1>1, <1>7, <2>1, ProductGrows
<1>9. /\ FourthPower(chains) * FourthPower(Root) =
           FourthPower(Root) * FourthPower(chains)
      /\ FourthPower(Root) * FourthPower(chains) \in Nat
      /\ FourthPower(n + 1) * size \in Nat
  BY <1>1, <1>7
<1> QED
  BY <1>3, <1>5, <1>7, <1>8, <1>9
-----------------------------------------------------------------------------
(***************************************************************************)
(* The stages of main(), its memory, and the chains while it runs them.    *)
(***************************************************************************)
StageInv ==
    /\ args \in Args
    /\ stage \in {"start", "plain", "tlb", "reference", "mlp", "chains", "stlf",
                  "done", "crashed", "wrapped"}
    /\ stage \in {"plain", "tlb", "mlp", "stlf"} => stage = args.mode
    /\ stage = "reference" => args.mode = "tlb"
    /\ stage = "chains" => args.mode = "mlp"
    /\ stage = "wrapped" => args.mode = "plain"
    /\ stage # "chains" => pc = "done"

CounterInv ==
    /\ buffer \in {None, Required} /\ (stage = "start" => buffer = None)
    /\ i \in Nat \ {0} /\ p \in 1..Width
    /\ overran \in BOOLEAN
    /\ failures \in 0..MaxFailures

\* What main() holds; a lost block means that a malloc() failed.
HeapInv ==
    /\ \A block \in heap : \/ block = "table"
                           \/ block \in Freed /\ stage = "chains"
                           \/ block = "lost" /\ failures > 0
    /\ stage \in {"start", "plain", "tlb", "reference"} => heap = {}
    /\ stage = "done" => heap = {} \/ failures > 0

SweepInv == MlpInv /\ StageInv /\ CounterInv /\ HeapInv

SweepStep == [MainNext \/ Ended]_allVars

\* The command line is read once.
LEMMA ArgsStay ==
    ASSUME SweepStep
    PROVE  /\ args' = args /\ sizes' = sizes
           /\ Height' = Height /\ Width' = Width /\ Required' = Required
           /\ InOrder' = InOrder
<1>1. args' = args
  <2>1. CASE NoHugePages \/ MapHugePages \/ NoMemory \/ RunTest \/ RunTestFails
             \/ RunAsmTestWraps \/ Crash \/ Return
    BY <2>1 DEF NoHugePages, MapHugePages, NoMemory, RunTest, RunTestFails,
                RunAsmTestWraps, Crash, Return, inVars
  <2>2. CASE TlbChase \/ NoPattern \/ NoPointerArray \/ Reference \/ AllocTable
             \/ AllocTableFails \/ StartMlpTest \/ ChainStep
    BY <2>2 DEF TlbChase, NoPattern, NoPointerArray, Reference, AllocTable,
                AllocTableFails, StartMlpTest, ChainStep, mainVars, inVars
  <2>3. CASE EndMlpTest \/ RunMlpTest \/ RunMlpTestFails \/ StlfTest \/ PrintTable
             \/ UNCHANGED allVars
    BY <2>3 DEF EndMlpTest, RunMlpTest, RunMlpTestFails, StlfTest, PrintTable,
                allVars, mainVars, inVars
  <2> QED
    BY <2>1, <2>2, <2>3 DEF SweepStep, MainNext, Ended
<1> QED
  BY <1>1 DEF sizes, Height, Width, Required, InOrder

\* Only the MLP test of the smallest array runs its chains.
LEMMA ChainsAreQuiet ==
    ASSUME SweepStep
    PROVE  UNCHANGED vars \/ StartMlpTest \/ ChainStep \/ EndMlpTest
<1>1. CASE NoHugePages \/ MapHugePages \/ NoMemory \/ RunTest \/ RunTestFails
           \/ RunAsmTestWraps \/ Crash \/ Return
  BY <1>1 DEF NoHugePages, MapHugePages, NoMemory, RunTest, RunTestFails,
              RunAsmTestWraps, Crash, Return, Quiet
<1>2. CASE TlbChase \/ NoPattern \/ NoPointerArray \/ Reference \/ AllocTable
           \/ AllocTableFails
  BY <1>2 DEF TlbChase, NoPattern, NoPointerArray, Reference, AllocTable,
              AllocTableFails, Quiet
<1>3. CASE RunMlpTest \/ RunMlpTestFails \/ StlfTest \/ PrintTable
           \/ UNCHANGED allVars
  BY <1>3 DEF RunMlpTest, RunMlpTestFails, StlfTest, PrintTable, allVars, Quiet
<1> QED
  BY <1>1, <1>2, <1>3 DEF SweepStep, MainNext, Ended

\* RunMlpTest() starts with a fresh identity pattern.
LEMMA LocalsMlpInv ==
    ASSUME NEW n \in 1..MaxParallelism, NEW r \in Rounds, Locals(n, r),
           pc' \in {"shuffle", "done"}
    PROVE  MlpInv'
<1>0. 0 \in Elem /\ n \in Nat /\ Elem' = Elem
  BY CountAssumption, ParallelismAssumption DEF Elem
<1>1. FillIdentity'
  BY <1>0 DEF Locals, FillIdentity
<1>2. ShuffleInv'
  <2>1. ASSUME NEW e \in Elem PROVE pattern'[e] = e
    BY <1>0 DEF Locals
  <2>2. ShuffleTypeOK' /\ Injective'
    BY <1>0, <2>1, CountAssumption
       DEF Locals, ShuffleTypeOK, Injective, Elem
  <2>3. Low' = Elem
    BY DEF Locals, Low, Elem
  <2>4. ForwardMeets' /\ BackwardMeets'
    BY <1>0, <2>3 DEF ForwardMeets, BackwardMeets
  <2>5. Separate'
    <3> SUFFICES ASSUME NEW a \in Elem
                 PROVE  \E C \in SUBSET Elem : Closed(C)' /\ C \cap Low' = {a}
      BY <1>0, <2>3 DEF Separate
    <3> WITNESS {a} \in SUBSET Elem
    <3> QED
      BY <2>1, <2>3 DEF Closed
  <2> QED
    BY <2>2, <2>4, <2>5 DEF ShuffleInv
<1>3. ChainTypes'
  <2>1. Chain' = 0..(n - 1)
    BY DEF Locals, Chain
  <2> QED
    BY <1>0, <2>1, RoundsAssumption DEF Locals, ChainTypes
<1> QED
  BY <1>2, <1>3 DEF MlpInv, NotStarted, FollowsTheRing, NoSharedLine, Locals

\* The number of rounds of an MLP test.
LEMMA MlpRoundsIs ==
    ASSUME StageInv, CounterInv, args.mode = "mlp", i <= Height
    PROVE  /\ sizes[i] \in 1..LargestKb /\ p \in 1..MaxParallelism
           /\ MlpRounds \in Rounds /\ MlpRounds \in Nat
           /\ (p <= Scaled(sizes[i]) => MlpRounds # 0)
<1>1. sizes = TestSizes /\ Height = Len(TestSizes) /\ Width = MaxParallelism
  BY DEF sizes, Height, Width
<1>2. p \in 1..MaxParallelism /\ MaxParallelism \in Nat
  BY <1>1, ParallelismAssumption, CountAssumption DEF CounterInv
<1>3. i \in 1..Len(TestSizes) /\ sizes[i] \in 1..LargestKb
  BY <1>1, TableFacts DEF CounterInv
<1>4. sizes[i] \in Nat \ {0}
  BY <1>3, TableFacts
<1>5. Scaled(sizes[i]) \in 0..(Word - 1)
  BY <1>4, ScaledIs DEF StageInv
<1>6. /\ Scaled(sizes[i]) \in Nat /\ Scaled(sizes[i]) <= Word - 1
      /\ p \in Nat \ {0} /\ Word \in Nat
  BY <1>2, <1>5, CountsAssumption
<1>7. /\ MlpRounds \in Nat /\ MlpRounds <= Scaled(sizes[i])
      /\ (p <= Scaled(sizes[i]) => MlpRounds # 0)
  BY <1>6, Quotient DEF MlpRounds
<1>8. MlpRounds \in 0..(Word - 1)
  BY <1>6, <1>7
<1> QED
  BY <1>2, <1>3, <1>7, <1>8, CountsAssumption

LEMMA StepMlpInv ==
    ASSUME SweepInv, SweepStep
    PROVE  MlpInv'
<1>1. CASE UNCHANGED vars
  BY <1>1, MlpNextInv DEF SweepInv
<1>2. CASE StartMlpTest
  BY <1>2, LocalsMlpInv, MlpRoundsIs
     DEF SweepInv, StartMlpTest, MlpTest, StageInv
<1>3. CASE ChainStep
  BY <1>3, MlpNextInv DEF SweepInv, ChainStep, Next
<1>4. CASE EndMlpTest
  <2>1. rounds \in Rounds /\ 1 \in 1..MaxParallelism
    BY ParallelismAssumption, CountAssumption DEF SweepInv, MlpInv, ChainTypes
  <2>2. Locals(1, rounds) /\ pc' = "done"
    BY <1>4 DEF EndMlpTest
  <2> QED
    BY <2>1, <2>2, LocalsMlpInv
<1> QED
  BY <1>1, <1>2, <1>3, <1>4, ChainsAreQuiet

\* The maximum the buffer is allocated for is a number of huge pages.
LEMMA RequiredIs == ASSUME args \in Args PROVE Required \in Nat
<1>1. args.max * KB \in Nat /\ WordKb \in Nat \ {0} /\ LargestKb \in Nat
  BY ArgsAssumption, CountsAssumption, TableFacts
<1>2. (args.max * KB) % WordKb \in Nat
  BY <1>1, Remainder
<1> DEFINE cap == (args.max * KB) % WordKb
           kb == IF args.max > 0 /\ LargestKb > cap THEN cap ELSE LargestKb
<1>3. kb \in Nat
  BY <1>1, <1>2
<1>4. Required = ((kb + HugePageKb - 1) \div HugePageKb) * HugePageKb
  BY DEF Required
<1> HIDE DEF kb
<1> QED
  BY <1>3, <1>4 DEF HugePageKb, KB

\* main() keeps a result in a cell of the table.
LEMMA RecordKeeps ==
    ASSUME NEW result, Record(result), CounterInv, Width' = Width
    PROVE  i' \in Nat \ {0} /\ p' \in 1..Width /\ out' = out
<1>1. Width \in Nat
  BY CountsAssumption, ParallelismAssumption, CountAssumption DEF Width
<1>2. CASE p < Width
  BY <1>1, <1>2 DEF Record, CounterInv
<1>3. CASE ~ (p < Width)
  BY <1>1, <1>3 DEF Record, CounterInv
<1> QED
  BY <1>2, <1>3

LEMMA StepStageInv ==
    ASSUME SweepInv, SweepStep
    PROVE  StageInv' /\ CounterInv' /\ HeapInv'
<1>0. /\ args' = args /\ Width' = Width /\ Required' = Required
      /\ StageInv /\ CounterInv /\ HeapInv
      /\ MaxFailures \in Nat /\ failures \in Nat
  BY ArgsStay, CountsAssumption DEF SweepInv, CounterInv
<1>1. CASE UNCHANGED allVars
  BY <1>0, <1>1
     DEF StageInv, CounterInv, HeapInv, allVars, mainVars, inVars, vars
<1>2. CASE NoHugePages
  BY <1>0, <1>2, ArgsAssumption
     DEF StageInv, CounterInv, HeapInv, NoHugePages, Begin, inVars, Quiet, vars
<1>3. CASE MapHugePages
  BY <1>0, <1>3, ArgsAssumption
     DEF StageInv, CounterInv, HeapInv, MapHugePages, Begin, Quiet, vars
<1>4. CASE NoMemory
  BY <1>0, <1>4
     DEF StageInv, CounterInv, HeapInv, NoMemory, inVars, Quiet, vars
<1>5. CASE RunTest
  BY <1>0, <1>5
     DEF StageInv, CounterInv, HeapInv, RunTest, PrintLine, Overruns, inVars,
         Quiet, vars
<1>6. CASE RunTestFails
  BY <1>0, <1>6
     DEF StageInv, CounterInv, HeapInv, RunTestFails, PrintLine, MallocFails,
         inVars, Quiet, vars
<1>7. CASE RunAsmTestWraps \/ Crash
  BY <1>0, <1>7
     DEF StageInv, CounterInv, HeapInv, RunAsmTestWraps, Crash, inVars, Quiet,
         vars
<1>8. CASE Return
  BY <1>0, <1>8 DEF StageInv, CounterInv, HeapInv, Return, inVars, Quiet, vars
<1>9. CASE TlbChase
  BY <1>0, <1>9
     DEF StageInv, CounterInv, HeapInv, TlbChase, Overruns, inVars, Quiet, vars
<1>10. CASE NoPattern
  BY <1>0, <1>10
     DEF StageInv, CounterInv, HeapInv, NoPattern, PrintLine, MallocFails,
         inVars, Quiet, vars
<1>11. CASE NoPointerArray
  BY <1>0, <1>11
     DEF StageInv, CounterInv, HeapInv, NoPointerArray, MallocFails, inVars,
         Quiet, vars
<1>12. CASE Reference
  <2>1. /\ stage = "reference" /\ stage' = "tlb" /\ i' = i + 1 /\ p' = p
        /\ pc' = pc /\ buffer' = buffer /\ heap' = heap
    BY <1>12 DEF Reference, PrintLine, inVars, Quiet, vars
  <2>2. failures' \in 0..MaxFailures /\ overran' \in BOOLEAN
    <3>1. /\ overran \in BOOLEAN /\ failures \in 0..MaxFailures
          /\ MaxFailures \in Nat
      BY <1>0 DEF CounterInv
    <3>2. CASE failures' = failures /\ overran' = (overran \/ Overruns(4))
      BY <3>1, <3>2
    <3>3. CASE MallocFails /\ overran' = overran
      BY <3>1, <3>3 DEF MallocFails
    <3> QED
      BY <1>12, <3>2, <3>3 DEF Reference
  <2> QED
    BY <1>0, <2>1, <2>2 DEF StageInv, CounterInv, HeapInv
<1>13. CASE AllocTable
  BY <1>0, <1>13
     DEF StageInv, CounterInv, HeapInv, AllocTable, inVars, Quiet, vars
<1>14. CASE AllocTableFails
  BY <1>0, <1>14
     DEF StageInv, CounterInv, HeapInv, AllocTableFails, MallocFails, inVars,
         Quiet, vars
<1>15. CASE StartMlpTest
  BY <1>0, <1>15
     DEF StageInv, CounterInv, HeapInv, StartMlpTest, MlpTest, Freed, inVars
<1>16. CASE ChainStep
  BY <1>0, <1>16
     DEF StageInv, CounterInv, HeapInv, ChainStep, mainVars, inVars
<1>17. CASE EndMlpTest
  <2>1. PICK result : Record(result)
    BY <1>17 DEF EndMlpTest
  <2>2. i' \in Nat \ {0} /\ p' \in 1..Width
    BY <1>0, <2>1, RecordKeeps
  <2> QED
    BY <1>0, <1>17, <2>2
       DEF StageInv, CounterInv, HeapInv, EndMlpTest, Freed, inVars
<1>18. CASE RunMlpTest
  <2>1. PICK result : Record(result)
    BY <1>18 DEF RunMlpTest
  <2>2. i' \in Nat \ {0} /\ p' \in 1..Width
    BY <1>0, <2>1, RecordKeeps
  <2> QED
    BY <1>0, <1>18, <2>2
       DEF StageInv, CounterInv, HeapInv, RunMlpTest, inVars, Quiet, vars
<1>19. CASE RunMlpTestFails
  <2>1. PICK result : Record(result)
    BY <1>19 DEF RunMlpTestFails
  <2>2. i' \in Nat \ {0} /\ p' \in 1..Width
    BY <1>0, <2>1, RecordKeeps
  <2> QED
    BY <1>0, <1>19, <2>2
       DEF StageInv, CounterInv, HeapInv, RunMlpTestFails, MlpTest,
           MallocFails, inVars, Quiet, vars
<1>20. CASE StlfTest
  <2>1. PICK result : Record(result)
    BY <1>20 DEF StlfTest
  <2>2. i' \in Nat \ {0} /\ p' \in 1..Width
    BY <1>0, <2>1, RecordKeeps
  <2> QED
    BY <1>0, <1>20, <2>2
       DEF StageInv, CounterInv, HeapInv, StlfTest, inVars, Quiet, vars
<1>21. CASE PrintTable
  BY <1>0, <1>21
     DEF StageInv, CounterInv, HeapInv, PrintTable, inVars, Quiet, vars
<1> QED
  BY <1>1, <1>2, <1>3, <1>4, <1>5, <1>6, <1>7, <1>8, <1>9, <1>10, <1>11, <1>12,
     <1>13, <1>14, <1>15, <1>16, <1>17, <1>18, <1>19, <1>20, <1>21
     DEF SweepStep, MainNext, Ended

LEMMA InitSweepInv == SweepInit => SweepInv
<1> SUFFICES ASSUME SweepInit PROVE SweepInv
  OBVIOUS
<1>1. /\ 0 \in Elem /\ 1 \in 1..MaxParallelism
      /\ (CHOOSE r \in Rounds : TRUE) \in Rounds
  <2>1. 0 \in Rounds
    BY CountsAssumption
  <2> QED
    BY <2>1, CountAssumption, ParallelismAssumption DEF Elem
<1>2. MlpInv
  <2>1. ChainTypes
    <3>1. rounds \in Rounds /\ rounds \in Nat
      BY <1>1, RoundsAssumption DEF SweepInit
    <3> QED
      BY <1>1, <3>1 DEF SweepInit, ChainTypes
  <2> QED
    BY <2>1, FillShuffleInv
       DEF SweepInit, MlpInv, NotStarted, FollowsTheRing, NoSharedLine
<1>3. 1 \in 1..Width
  BY <1>1, CountsAssumption DEF Width
<1>4. StageInv /\ CounterInv /\ HeapInv
  <2>1. 0 \in 0..MaxFailures
    BY CountsAssumption
  <2>2. /\ args \in Args /\ stage = "start" /\ buffer = None /\ i = 1 /\ p = 1
        /\ heap = {} /\ overran = FALSE /\ failures = 0 /\ pc = "done"
    BY DEF SweepInit
  <2>3. StageInv
    BY <2>2 DEF StageInv
  <2>4. CounterInv
    <3>1. overran \in BOOLEAN
      BY <2>2
    <3>2. i \in Nat \ {0} /\ p \in 1..Width /\ failures \in 0..MaxFailures
      BY <1>3, <2>1, <2>2
    <3>3. buffer \in {None, Required}
      BY <2>2
    <3> QED
      BY <2>2, <3>1, <3>2, <3>3 DEF CounterInv
  <2>5. HeapInv
    BY <2>2 DEF HeapInv
  <2> QED
    BY <2>3, <2>4, <2>5
<1> QED
  BY <1>2, <1>4 DEF SweepInv

LEMMA StepSweepInv ==
    ASSUME SweepInv, SweepStep
    PROVE  SweepInv'
BY StepMlpInv, StepStageInv DEF SweepInv

\* Type correctness of main() with every command line, table and count.
THEOREM SweepTypeCorrect == SweepSpec => []SweepTypeOK
<1>1. ASSUME SweepInv PROVE SweepTypeOK
  <2>1. TypeOK
    BY <1>1 DEF SweepInv, MlpInv, TypeOK, ChainTypes, ShuffleInv
  <2>2. buffer \in Nat \cup {None}
    BY <1>1, RequiredIs DEF SweepInv, StageInv, CounterInv
  <2> QED
    BY <1>1, <2>1, <2>2
       DEF SweepInv, StageInv, CounterInv, HeapInv, Freed, SweepTypeOK
<1>2. SweepSpec => []SweepInv
  BY InitSweepInv, StepSweepInv, PTL DEF SweepSpec, SweepStep
<1> QED
  BY <1>1, <1>2, PTL

\* While main() runs the chains of the smallest array, no two share a line.
THEOREM SweepSharesNoLine == SweepSpec => []NoSharedLine
<1>1. SweepInv => NoSharedLine
  BY DEF SweepInv, MlpInv
<1> QED
  BY <1>1, InitSweepInv, StepSweepInv, PTL DEF SweepSpec, SweepStep
-----------------------------------------------------------------------------
(***************************************************************************)
(* The huge page buffer.                                                   *)
(***************************************************************************)
Excused == IF buffer = None THEN args.single >= WordKb
           ELSE \/ args.mode = "plain" /\ args.single > buffer
                \/ args.mode = "tlb" /\ args.max \in 1..31
                \/ args.max * KB >= WordKb

BufferInv ==
    /\ overran => Excused
    /\ stage = "start" => out = <<>> /\ ~ overran
    /\ args.mode = "plain" /\ buffer # None /\ out # <<>> =>
         (args.single \in (buffer + 1)..(WordKb - 1) => overran)

\* Unless it wraps, the maximum makes room for the sizes up to it.
LEMMA BufferHasRoom ==
    ASSUME args \in Args, args.max * KB < WordKb,
           NEW size \in 1..LargestKb, args.max # 0 => size <= args.max * KB
    PROVE  size <= Required
<1> DEFINE wanted == args.max * KB
           cap == wanted % WordKb
           kb == IF args.max > 0 /\ LargestKb > cap THEN cap ELSE LargestKb
<1>1. /\ args.max \in Nat /\ wanted \in Nat /\ WordKb \in Nat \ {0}
      /\ LargestKb \in Nat /\ size \in Nat /\ size <= LargestKb
  BY ArgsAssumption, CountsAssumption, TableFacts
<1>2. cap = wanted
  <2> HIDE DEF wanted
  <2> QED
    BY <1>1, Remainder DEF wanted
<1>3. kb \in Nat /\ size <= kb
  BY <1>1, <1>2
<1>4. Required = ((kb + HugePageKb - 1) \div HugePageKb) * HugePageKb
  BY DEF Required
<1> HIDE DEF kb
<1> QED
  BY <1>1, <1>3, <1>4 DEF HugePageKb, KB

\* The array of the plain sweep is within the buffer.
LEMMA PlainFits ==
    ASSUME StageInv, CounterInv, args.mode = "plain", Wanted, Fits,
           Overruns(sizes[i] % WordKb)
    PROVE  Excused
<1>0. /\ args \in Args /\ args.single \in Nat /\ args.max \in Nat
      /\ WordKb \in Nat \ {0} /\ i \in Nat \ {0}
      /\ buffer \in {None, Required} /\ Required \in Nat /\ None \notin Nat
  BY ArgsAssumption, CountsAssumption, RequiredIs
     DEF StageInv, CounterInv, None
<1> DEFINE size == sizes[i]
           kb == size % WordKb
<1>1. CASE args.single # 0
  <2>1. size = args.single
    <3>1. sizes = <<args.single>>
      BY <1>1 DEF sizes
    <3> QED
      BY <1>0, <3>1 DEF Wanted
  <2>2. /\ size \in Nat \ {0} /\ kb \in Nat /\ kb <= size
        /\ (size < WordKb => kb = size)
    <3>1. size \in Nat \ {0}
      BY <1>0, <1>1, <2>1
    <3> HIDE DEF size
    <3> QED
      BY <1>0, <3>1, Remainder
  <2>3. Overruns(kb)
    OBVIOUS
  <2> HIDE DEF kb, size
  <2>4. CASE buffer = None
    <3>1. kb = 0
      BY <2>2, <2>3, <2>4 DEF Overruns
    <3> QED
      BY <1>0, <2>1, <2>2, <2>4, <3>1 DEF Excused
  <2>5. CASE buffer # None
    <3>1. buffer \in Nat /\ (kb > buffer \/ buffer = 0)
      BY <1>0, <2>3, <2>5 DEF Overruns
    <3> QED
      BY <1>0, <2>1, <2>2, <2>5, <3>1 DEF Excused
  <2> QED
    BY <2>4, <2>5
<1>2. CASE args.single = 0
  <2>1. size \in 1..LargestKb
    <3>1. sizes = TestSizes
      BY <1>2 DEF sizes
    <3> QED
      BY <1>0, <3>1, TableFacts DEF Wanted
  <2>2. /\ size \in Nat \ {0} /\ size < WordKb /\ kb = size
    <3>1. size \in Nat \ {0} /\ size < WordKb
      BY <1>0, <2>1, TableFacts
    <3> HIDE DEF size
    <3> QED
      BY <1>0, <3>1, Remainder
  <2>3. args.max # 0 => size <= args.max * KB
    BY <1>2 DEF Fits
  <2>4. Overruns(kb)
    OBVIOUS
  <2> HIDE DEF kb, size
  <2>5. buffer # None
    BY <2>2, <2>4 DEF Overruns
  <2>6. size > Required
    BY <1>0, <2>2, <2>4, <2>5 DEF Overruns
  <2>7. ~ (args.max * KB < WordKb)
    BY <1>0, <2>1, <2>2, <2>3, <2>6, BufferHasRoom
  <2>8. args.max * KB \in Nat
    BY <1>0, TableFacts
  <2> QED
    BY <1>0, <2>5, <2>7, <2>8 DEF Excused
<1> QED
  BY <1>1, <1>2

\* What the entries of the largest TLB size cover, in KB.
Pages == 32 * KB

LEMMA PagesTypes ==
    /\ KB = 1024 /\ LargestKb \in Nat
    /\ Pages \in Nat /\ Pages <= LargestKb
<1>1. KB = 1024 /\ LargestKb \in Nat
  BY TableFacts
<1>2. Pages \in Nat
  BY <1>1 DEF Pages
<1>3. Pages <= LargestKb
  BY TableFacts, Zenon DEF Pages
<1> QED
  BY <1>1, <1>2, <1>3

\* So are the pages of the TLB sweep and the array of its reference, if the
\* maximum is 32 MB or more.
LEMMA PagesFit ==
    ASSUME StageInv, CounterInv, args.mode = "tlb",
           NEW kb \in 1..Pages, Overruns(kb)
    PROVE  Excused
<1>0. /\ args \in Args /\ args.max \in Nat
      /\ WordKb \in Nat \ {0} /\ KB = 1024
      /\ buffer \in {None, Required} /\ Required \in Nat /\ None \notin Nat
      /\ LargestKb \in Nat /\ Pages \in Nat /\ Pages <= LargestKb
  <2>1. args \in Args /\ buffer \in {None, Required}
    BY DEF StageInv, CounterInv
  <2>2. args.max \in Nat
    BY <2>1, ArgsAssumption
  <2>3. WordKb \in Nat \ {0}
    BY CountsAssumption
  <2>4. /\ KB = 1024 /\ LargestKb \in Nat
        /\ Pages \in Nat /\ Pages <= LargestKb
    BY PagesTypes
  <2>5. Required \in Nat /\ None \notin Nat
    BY <2>1, RequiredIs DEF None
  <2> QED
    BY <2>1, <2>2, <2>3, <2>4, <2>5
<1>1. kb \in Nat \ {0} /\ kb <= Pages /\ kb \in 1..LargestKb
  BY <1>0
<1>2. buffer # None
  BY <1>1 DEF Overruns
<1>3. kb > Required
  BY <1>0, <1>1, <1>2 DEF Overruns
<1>4. CASE args.max \in 1..31
  BY <1>2, <1>4 DEF Excused
<1>5. CASE args.max \notin 1..31
  <2>1. args.max # 0 => kb <= args.max * KB
    <3>1. 32 \in Nat /\ KB \in Nat /\ KB <= KB
      BY <1>0
    <3>2. ASSUME args.max # 0 PROVE 32 <= args.max
      BY <1>0, <1>5, <3>2
    <3>3. ASSUME args.max # 0 PROVE 32 * KB <= args.max * KB
      BY <1>0, <3>1, <3>2, <3>3, ProductGrows
    <3>4. Pages \in Nat /\ Pages = 32 * KB
      BY <3>1 DEF Pages
    <3> DEFINE all == args.max * KB
    <3>5. args.max # 0 => Pages <= all
      BY <3>3, <3>4, Zenon
    <3>6. all \in Nat
      BY <1>0
    <3> HIDE DEF all
    <3>7. args.max # 0 => kb <= all
      BY <1>1, <3>4, <3>5, <3>6
    <3> QED
      BY <3>7 DEF all
  <2>2. ~ (args.max * KB < WordKb)
    BY <1>0, <1>1, <1>3, <2>1, BufferHasRoom
  <2>3. args.max * KB \in Nat
    BY <1>0
  <2> QED
    BY <1>0, <1>2, <2>2, <2>3 DEF Excused
<1> QED
  BY <1>4, <1>5

\* The table has no more columns than it has sizes.
LEMMA ColumnsFit ==
    ASSUME NEW beyond \in Beyond, args.mode = "mlp"
    PROVE  MlpColumns(beyond) = Height
<1>1. /\ Height = Len(TestSizes) /\ Height \in Nat /\ beyond <= Height
      /\ beyond \in Nat
  <2>1. Height = Len(TestSizes) /\ Len(TestSizes) \in Nat
    BY TableFacts DEF Height
  <2>2. beyond \in 0..Len(TestSizes)
    BY TablesAssumption
  <2> QED
    BY <2>1, <2>2
<1>2. {n \in 0..(Height - 1) : n >= TestSizes[n + 1]} = {}
  <2> SUFFICES ASSUME NEW n \in 0..(Height - 1), n >= TestSizes[n + 1]
               PROVE  FALSE
    OBVIOUS
  <2>1. n + 1 \in 1..Len(TestSizes) /\ n \in Nat
    BY <1>1
  <2>2. n + 1 <= TestSizes[n + 1] /\ TestSizes[n + 1] \in Nat
    BY <2>1, TableFacts
  <2> QED
    BY <2>1, <2>2
<1> QED
  BY <1>1, <1>2 DEF MlpColumns

LEMMA StepBufferInv ==
    ASSUME SweepInv, BufferInv, SweepStep
    PROVE  BufferInv'
<1>0. args' = args /\ StageInv /\ CounterInv
  BY ArgsStay DEF SweepInv
<1>1. CASE UNCHANGED <<buffer, overran, out>> /\ stage' # "start"
  BY <1>0, <1>1 DEF BufferInv, Excused
<1>2. CASE UNCHANGED allVars
  BY <1>0, <1>2 DEF BufferInv, Excused, allVars, mainVars, inVars, outVars
<1>3. CASE MapHugePages
  <2>1. out' = <<>> /\ ~ overran' /\ stage' = args.mode
    BY <1>3 DEF MapHugePages, Begin, outVars, BufferInv
  <2> QED
    BY <2>1 DEF BufferInv
<1>4. CASE RunTest
  <2>1. /\ stage = "plain" /\ stage' = "plain" /\ buffer' = buffer
        /\ args.mode = "plain" /\ Wanted /\ Fits
        /\ overran' = (overran \/ Overruns(sizes[i] % WordKb))
    BY <1>0, <1>4 DEF RunTest, inVars, StageInv
  <2>2. overran' => Excused'
    BY <1>0, <2>1, PlainFits DEF BufferInv, Excused
  <2>3. buffer # None /\ args.single \in (buffer + 1)..(WordKb - 1) => overran'
    <3> SUFFICES ASSUME buffer # None,
                        args.single \in (buffer + 1)..(WordKb - 1)
                 PROVE  Overruns(sizes[i] % WordKb)
      BY <2>1
    <3>1. buffer \in Nat /\ WordKb \in Nat \ {0} /\ args.single \in Nat
      BY <1>0, RequiredIs, ArgsAssumption, CountsAssumption
         DEF CounterInv, StageInv
    <3>2. args.single # 0 /\ args.single < WordKb /\ args.single > buffer
      BY <3>1
    <3>3. sizes[i] = args.single
      BY <1>0, <2>1, <3>2 DEF sizes, Wanted, CounterInv
    <3>4. sizes[i] % WordKb = args.single
      BY <3>1, <3>2, <3>3, Remainder
    <3> QED
      BY <3>1, <3>2, <3>4 DEF Overruns
  <2> QED
    BY <1>0, <2>1, <2>2, <2>3 DEF BufferInv
<1>5. CASE RunTestFails
  BY <1>0, <1>5 DEF RunTestFails, inVars, BufferInv, Excused
<1>6. CASE TlbChase
  <2>1. TlbKb \in 1..Pages
    <3>1. sizes = TlbSizes /\ i \in 1..Len(TlbSizes)
      BY <1>0, <1>6, TableFacts
         DEF TlbChase, Wanted, sizes, StageInv, CounterInv
    <3>2. KB = 1024
      BY TableFacts
    <3>3. PICK entries \in Nat \ {0} :
             entries = TlbSizes[i] /\ 4 * entries <= 32 * KB
      BY <3>1, TableFacts
    <3>4. entries * 4 \in 1..Pages
      <4>1. 4 * entries <= Pages /\ Pages \in Nat
        BY <3>2, <3>3 DEF Pages
      <4> QED
        BY <4>1
    <3> QED
      BY <3>1, <3>3, <3>4 DEF TlbKb
  <2>2. /\ overran' = (overran \/ Overruns(TlbKb)) /\ args.mode = "tlb"
        /\ stage' = "reference" /\ UNCHANGED <<buffer, out>>
    BY <1>0, <1>6 DEF TlbChase, inVars, outVars, StageInv
  <2>3. overran' => Excused'
    BY <1>0, <2>1, <2>2, PagesFit DEF BufferInv, Excused
  <2> QED
    BY <1>0, <2>2, <2>3 DEF BufferInv
<1>7. CASE NoPattern
  BY <1>0, <1>7 DEF NoPattern, inVars, BufferInv, Excused, StageInv
<1>8. CASE Reference
  <2>1. 4 \in 1..Pages
    BY TableFacts DEF Pages
  <2>2. /\ overran' = (overran \/ Overruns(4)) \/ overran' = overran
        /\ stage' = "tlb" /\ buffer' = buffer /\ args.mode = "tlb"
    BY <1>0, <1>8 DEF Reference, inVars, StageInv
  <2>3. overran' => Excused'
    BY <1>0, <2>1, <2>2, PagesFit DEF BufferInv, Excused
  <2> QED
    BY <1>0, <2>2, <2>3 DEF BufferInv
<1>9. CASE PrintTable
  <2>1. /\ stage' = "done" /\ buffer' = buffer /\ stage = args.mode
        /\ args.mode \in {"mlp", "stlf"}
    BY <1>0, <1>9 DEF PrintTable, inVars, StageInv
  <2>2. ~ overran'
    <3>1. Height \in Nat /\ (args.mode = "stlf" => Width = Height)
      BY TableFacts, CountsAssumption DEF Height, Width
    <3>2. PICK beyond \in Beyond :
             overran' = ((IF stage = "mlp" THEN MlpColumns(beyond) ELSE Width)
                           > Height)
      BY <1>9, Zenon DEF PrintTable
    <3>3. (IF stage = "mlp" THEN MlpColumns(beyond) ELSE Width) = Height
      BY <2>1, <3>1, ColumnsFit
    <3>4. ~ (Height > Height)
      BY <3>1
    <3> QED
      BY <3>2, <3>3, <3>4, Zenon
  <2> QED
    BY <1>0, <2>1, <2>2 DEF BufferInv
<1>10. CASE NoHugePages \/ NoMemory \/ RunAsmTestWraps \/ Crash \/ Return
            \/ NoPointerArray
  BY <1>0, <1>1, <1>10, ArgsAssumption
     DEF NoHugePages, NoMemory, RunAsmTestWraps, Crash, Return, NoPointerArray,
         Begin, inVars, outVars, StageInv
<1>11. CASE AllocTable \/ AllocTableFails \/ StartMlpTest \/ ChainStep
  BY <1>0, <1>1, <1>11
     DEF AllocTable, AllocTableFails, StartMlpTest, ChainStep, mainVars, inVars,
         outVars
<1>12. CASE EndMlpTest \/ RunMlpTest \/ RunMlpTestFails \/ StlfTest
  BY <1>0, <1>1, <1>12
     DEF EndMlpTest, RunMlpTest, RunMlpTestFails, StlfTest, Record, MlpTest,
         inVars
<1> QED
  BY <1>2, <1>3, <1>4, <1>5, <1>6, <1>7, <1>8, <1>9, <1>10, <1>11, <1>12
     DEF SweepStep, MainNext, Ended

\* The huge page buffer of main() holds what runs in it, with the exceptions
\* that HugeBufferHolds names, for all sizes, maxima and single sizes.
THEOREM BufferIsBigEnough == SweepSpec => []HugeBufferHolds
<1>1. SweepInit => BufferInv
  BY DEF SweepInit, BufferInv
<1>2. SweepInv /\ BufferInv => HugeBufferHolds
  BY DEF SweepInv, BufferInv, HeapInv, Excused, HugeBufferHolds
<1> QED
  BY <1>1, <1>2, InitSweepInv, StepSweepInv, StepBufferInv, PTL
     DEF SweepSpec, SweepStep
-----------------------------------------------------------------------------
(***************************************************************************)
(* What the plain and the TLB sweep print.                                 *)
(***************************************************************************)
Lines == [test : Nat, kb : Nat, loads : Nat, failed : BOOLEAN]

LineIs(r, size) ==
    /\ r.test = size /\ UpToMaximum(size)
    /\ args.mode = "plain" /\ ~ r.failed => r.kb = r.test \/ r.test >= WordKb
    /\ args.single = 0 /\ Enough(1) => r.loads > 0 \/ r.failed

\* The lines so far are those of the first sizes.
LinesSoFar ==
    /\ out \in Seq(Lines) /\ Len(out) = i - 1 /\ i <= Len(sizes) + 1
    /\ \A k \in 1..Len(out) : LineIs(out[k], sizes[k])

LinesInv ==
    InOrder =>
        /\ LinesSoFar
        /\ stage = "reference" => Wanted
        /\ stage = "done" =>
             out = <<>> \/ ~ Wanted \/ (args.mode = "plain" /\ ~ Fits)
        /\ stage = "wrapped" => args.single > LargestKb \/ ~ Enough(1)

LEMMA SizeFacts ==
    ASSUME args \in Args, InOrder
    PROVE  /\ Len(sizes) \in Nat /\ DOMAIN sizes = 1..Len(sizes)
           /\ \A k \in 1..Len(sizes) :
                /\ sizes[k] \in Nat \ {0}
                /\ args.mode = "plain" /\ args.single = 0 =>
                     sizes[k] \in 1..LargestKb
                /\ args.mode = "plain" /\ args.single # 0 =>
                     sizes[k] = args.single
                /\ args.mode = "tlb" => sizes[k] * 4 \in 1..LargestKb
<1>0. args.mode \in {"plain", "tlb"} /\ args.single \in Nat
  BY ArgsAssumption DEF InOrder
<1>1. CASE args.mode = "tlb"
  <2>1. sizes = TlbSizes /\ TlbSizes \in Seq(Nat \ {0})
    BY <1>1, TablesAssumption DEF sizes
  <2>2. ASSUME NEW k \in 1..Len(TlbSizes) PROVE TlbSizes[k] * 4 \in 1..LargestKb
    <3>1. PICK entries \in Nat \ {0} :
             entries = TlbSizes[k] /\ 4 * entries <= 32 * KB
      BY TableFacts
    <3>2. 4 * entries <= LargestKb
      BY <3>1, TableFacts
    <3>3. entries * 4 \in 1..LargestKb
      BY <3>2, TableFacts
    <3> QED
      BY <3>1, <3>3
  <2> QED
    BY <1>1, <2>1, <2>2, TableFacts
<1>2. CASE args.mode = "plain" /\ args.single # 0
  BY <1>0, <1>2 DEF sizes
<1>3. CASE args.mode = "plain" /\ args.single = 0
  <2>1. sizes = TestSizes /\ TestSizes \in Seq(Nat \ {0})
    BY <1>3, TablesAssumption DEF sizes
  <2> QED
    BY <1>3, <2>1, TableFacts
<1> QED
  BY <1>0, <1>1, <1>2, <1>3

\* One more line.
LEMMA AppendLine ==
    ASSUME StageInv, CounterInv, InOrder, LinesSoFar, Wanted,
           NEW r \in Lines, LineIs(r, sizes[i]),
           PrintLine(r), args' = args, sizes' = sizes
    PROVE  LinesSoFar'
<1>1. /\ out \in Seq(Lines) /\ Len(out) = i - 1 /\ i \in Nat /\ i <= Len(sizes)
      /\ Len(sizes) \in Nat
  BY SizeFacts DEF LinesSoFar, Wanted, StageInv, CounterInv
<1>2. /\ out' \in Seq(Lines) /\ Len(out') = i /\ i' = i + 1 /\ out'[i] = r
      /\ \A k \in 1..(i - 1) : out'[k] = out[k]
  BY <1>1 DEF PrintLine
<1>3. ASSUME NEW k \in 1..Len(out') PROVE LineIs(out'[k], sizes[k])
  <2>1. k \in 1..(i - 1) \/ k = i
    BY <1>1, <1>2
  <2> QED
    BY <1>1, <1>2, <2>1 DEF LinesSoFar
<1>4. ASSUME NEW k \in 1..Len(out') PROVE LineIs(out[k], sizes[k])'
  BY <1>3 DEF LineIs, UpToMaximum, Enough
<1> QED
  BY <1>1, <1>2, <1>4 DEF LinesSoFar

\* A size the sweep comes to is up to the maximum.
LEMMA WantedFits ==
    ASSUME InOrder, args.mode = "plain" => Fits
    PROVE  UpToMaximum(sizes[i])
BY DEF InOrder, UpToMaximum, Fits

LEMMA StepLinesInv ==
    ASSUME SweepInv, BufferInv, LinesInv, SweepStep
    PROVE  LinesInv'
<1> SUFFICES ASSUME InOrder PROVE LinesInv'
  BY ArgsStay DEF LinesInv
<1>0. /\ args' = args /\ sizes' = sizes /\ InOrder' /\ args \in Args
      /\ StageInv /\ CounterInv /\ LinesSoFar
      /\ args.mode \in {"plain", "tlb"}
      /\ stage \notin {"mlp", "stlf", "chains"}
  BY ArgsStay DEF SweepInv, LinesInv, StageInv, InOrder
<1>1. ASSUME UNCHANGED <<out, i>> PROVE LinesSoFar' /\ Wanted' = Wanted /\ Fits' = Fits
  BY <1>0, <1>1 DEF LinesSoFar, LineIs, UpToMaximum, Enough, Wanted, Fits
<1>2. CASE UNCHANGED allVars
  BY <1>0, <1>1, <1>2
     DEF LinesInv, allVars, mainVars, outVars, inVars, Enough
<1>3. CASE NoHugePages \/ MapHugePages \/ NoMemory
  <2>1. out' = <<>> /\ out' = out /\ i' = i /\ stage' \notin {"reference", "wrapped"}
    BY <1>0, <1>3 DEF NoHugePages, MapHugePages, NoMemory, Begin, outVars,
                      BufferInv
  <2> QED
    BY <1>1, <2>1 DEF LinesInv
<1>4. CASE RunTest \/ RunTestFails
  <2>1. /\ stage = "plain" /\ stage' = "plain" /\ args.mode = "plain"
        /\ Wanted /\ Fits
    BY <1>0, <1>4 DEF RunTest, RunTestFails, inVars, StageInv
  <2>2. i \in 1..Len(sizes) /\ sizes[i] \in Nat \ {0}
    BY <1>0, <2>1, SizeFacts DEF Wanted, CounterInv
  <2>3. Scaled(sizes[i]) \in Nat
    <3>1. Scaled(sizes[i]) \in 0..(Word - 1)
      BY <1>0, <2>2, ScaledIs
    <3> QED
      BY <3>1, CountsAssumption
  <2>4. PICK r : PrintLine(r) /\ r \in Lines /\ LineIs(r, sizes[i])
    <3>1. CASE RunTest
      <4> DEFINE s == sizes[i]
                 r == Result(s, s % WordKb, Scaled(s), FALSE)
      <4>1. /\ s % WordKb \in Nat
            /\ (s < WordKb => s % WordKb = s)
        <5>1. s \in Nat \ {0} /\ WordKb \in Nat \ {0}
          BY <2>2, CountsAssumption
        <5> HIDE DEF s
        <5> QED
          BY <5>1, Remainder
      <4>2. args.single = 0 /\ Enough(1) => Scaled(s) > 0
        BY <1>0, <2>1, <2>2, <2>3, SizeFacts, EnoughIsEnough
      <4>3. UpToMaximum(s)
        BY <2>1, WantedFits
      <4>4. s \in Nat /\ Scaled(s) \in Nat /\ WordKb \in Nat
        BY <2>2, <2>3, CountsAssumption
      <4>5. PrintLine(r)
        BY <3>1 DEF RunTest
      <4> HIDE DEF s
      <4>6. r \in Lines
        BY <4>1, <4>4 DEF Lines, Result
      <4>7. LineIs(r, s)
        BY <4>1, <4>2, <4>3, <4>4 DEF LineIs, Result
      <4> QED
        BY <4>5, <4>6, <4>7 DEF s
    <3>2. CASE RunTestFails
      <4> DEFINE s == sizes[i]
                 r == Result(s, 0, 0, TRUE)
      <4>1. UpToMaximum(s) /\ s \in Nat /\ PrintLine(r)
        BY <2>1, <2>2, <3>2, WantedFits DEF RunTestFails
      <4> HIDE DEF s
      <4>2. r \in Lines /\ LineIs(r, s)
        BY <4>1 DEF Lines, LineIs, Result
      <4> QED
        BY <4>1, <4>2 DEF s
    <3> QED
      BY <1>4, <3>1, <3>2
  <2>5. LinesSoFar'
    BY <1>0, <2>1, <2>4, AppendLine
  <2> QED
    BY <2>1, <2>5 DEF LinesInv
<1>5. CASE NoPattern \/ Reference
  <2>1. /\ Wanted /\ stage' = "tlb" /\ args.mode = "tlb"
    BY <1>0, <1>5 DEF NoPattern, Reference, StageInv, LinesInv
  <2>2. i \in 1..Len(sizes) /\ sizes[i] \in Nat \ {0} /\ TlbKb \in 1..LargestKb
    BY <1>0, <2>1, SizeFacts DEF Wanted, CounterInv, TlbKb
  <2>3. /\ TlbKb \in Nat \ {0} /\ Scaled(TlbKb) \in Nat
        /\ (Enough(1) => Scaled(TlbKb) > 0)
    <3>1. TlbKb \in Nat \ {0}
      BY <2>2, TableFacts
    <3>2. Scaled(TlbKb) \in 0..(Word - 1)
      BY <1>0, <3>1, ScaledIs
    <3>3. Scaled(TlbKb) \in Nat
      BY <3>2, CountsAssumption
    <3> QED
      BY <1>0, <2>2, <3>1, <3>3, EnoughIsEnough
  <2>4. UpToMaximum(sizes[i])
    BY <2>1 DEF UpToMaximum
  <2>5. PICK r : PrintLine(r) /\ r \in Lines /\ LineIs(r, sizes[i])
    <3>1. CASE NoPattern
      <4> DEFINE s == sizes[i]
                 r == Result(s, 0, 0, TRUE)
      <4>1. UpToMaximum(s) /\ s \in Nat /\ PrintLine(r)
        BY <2>2, <2>4, <3>1 DEF NoPattern
      <4> HIDE DEF s
      <4>2. r \in Lines /\ LineIs(r, s)
        BY <4>1 DEF Lines, LineIs, Result
      <4> QED
        BY <4>1, <4>2 DEF s
    <3>2. CASE Reference
      <4> DEFINE s == sizes[i]
                 r == Result(s, TlbKb, Scaled(TlbKb), failures' # failures)
      <4>1. UpToMaximum(s) /\ s \in Nat /\ PrintLine(r)
        BY <2>2, <2>4, <3>2 DEF Reference
      <4> HIDE DEF s
      <4>2. r \in Lines
        BY <2>3, <4>1 DEF Lines, Result
      <4>3. LineIs(r, s)
        BY <2>1, <2>3, <4>1 DEF LineIs, Result
      <4> QED
        BY <4>1, <4>2, <4>3 DEF s
    <3> QED
      BY <1>5, <3>1, <3>2
  <2>6. LinesSoFar'
    BY <1>0, <2>1, <2>5, AppendLine
  <2> QED
    BY <2>1, <2>6 DEF LinesInv
<1>6. CASE RunAsmTestWraps
  <2>1. /\ stage' = "wrapped" /\ UNCHANGED <<out, i>> /\ Wanted
        /\ args.mode = "plain" /\ Scaled(sizes[i]) = 0
    BY <1>0, <1>6 DEF RunAsmTestWraps, outVars, StageInv
  <2>2. args.single > LargestKb \/ ~ Enough(1)
    <3> SUFFICES ASSUME ~ (args.single > LargestKb) PROVE ~ Enough(1)
      OBVIOUS
    <3>1. /\ i \in 1..Len(sizes) /\ sizes[i] \in Nat \ {0}
          /\ args.single \in Nat /\ LargestKb \in Nat
      BY <1>0, <2>1, SizeFacts, ArgsAssumption, TableFacts
         DEF Wanted, CounterInv
    <3>2. sizes[i] \in 1..LargestKb
      BY <1>0, <2>1, <3>1, SizeFacts
    <3> QED
      BY <1>0, <2>1, <3>2, EnoughIsEnough
  <2> QED
    BY <1>0, <1>1, <2>1, <2>2 DEF LinesInv, Enough
<1>7. CASE TlbChase \/ Crash \/ NoPointerArray
  <2>1. /\ UNCHANGED <<out, i>> /\ stage' \in {"reference", "crashed"}
        /\ (stage' = "reference" => Wanted)
    BY <1>7 DEF TlbChase, Crash, NoPointerArray, outVars
  <2> QED
    BY <1>1, <2>1 DEF LinesInv
<1>8. CASE Return
  <2>1. /\ UNCHANGED <<out, i>> /\ stage' = "done"
        /\ ~ Wanted \/ (args.mode = "plain" /\ ~ Fits)
    BY <1>0, <1>8 DEF Return, outVars, StageInv
  <2> QED
    BY <1>0, <1>1, <2>1 DEF LinesInv
<1>9. CASE AllocTable \/ AllocTableFails \/ StartMlpTest \/ ChainStep
           \/ EndMlpTest \/ RunMlpTest \/ RunMlpTestFails \/ StlfTest
           \/ PrintTable
  BY <1>0, <1>9 DEF AllocTable, AllocTableFails, StartMlpTest, ChainStep,
       EndMlpTest, RunMlpTest, RunMlpTestFails, StlfTest, PrintTable, MlpTest
<1> QED
  BY <1>2, <1>3, <1>4, <1>5, <1>6, <1>7, <1>8, <1>9
     DEF SweepStep, MainNext, Ended

\* The lines of a sweep that has ended are those of all sizes it was asked for.
LEMMA LinesAreComplete ==
    ASSUME SweepInv, LinesInv, InOrder, stage = "done", out # <<>>
    PROVE  /\ [k \in 1..Len(out) |-> out[k].test] = SubSeq(sizes, 1, Len(out))
           /\ 1..Len(out) = {k \in DOMAIN sizes : UpToMaximum(sizes[k])}
<1>0. /\ args \in Args /\ LinesSoFar /\ i \in Nat \ {0}
      /\ ~ Wanted \/ (args.mode = "plain" /\ ~ Fits)
  BY DEF SweepInv, StageInv, CounterInv, LinesInv
<1>1. /\ Len(sizes) \in Nat /\ DOMAIN sizes = 1..Len(sizes)
      /\ Len(out) \in Nat /\ Len(out) = i - 1 /\ Len(out) <= Len(sizes)
      /\ \A k \in 1..Len(out) :
            out[k].test = sizes[k] /\ UpToMaximum(sizes[k])
  BY <1>0, SizeFacts DEF LinesSoFar, LineIs
<1>2. ASSUME NEW k \in 1..Len(sizes), UpToMaximum(sizes[k])
      PROVE  k \in 1..Len(out)
  <2>1. CASE ~ Wanted
    BY <1>0, <1>1, <2>1 DEF Wanted
  <2>2. CASE Wanted /\ args.mode = "plain" /\ ~ Fits
    <3>1. /\ args.single = 0 /\ args.max # 0 /\ sizes = TestSizes
          /\ ~ (sizes[i] <= args.max * KB)
      BY <2>2 DEF Fits, sizes
    <3>2. sizes[k] <= args.max * KB
      BY <1>2, <2>2, <3>1 DEF UpToMaximum
    <3>3. args.max * KB \in Nat /\ i \in 1..Len(sizes)
      BY <1>0, <1>1, <2>2, ArgsAssumption, TableFacts DEF Wanted
    <3>4. sizes[i] \in Nat /\ sizes[k] \in Nat
      BY <1>0, <3>3, SizeFacts
    <3>5. ~ (i < k) /\ i # k
      BY <3>1, <3>2, <3>3, <3>4, TableFacts
    <3> QED
      BY <1>1, <3>3, <3>5
  <2> QED
    BY <1>0, <2>1, <2>2
<1>3. 1..Len(out) = {k \in DOMAIN sizes : UpToMaximum(sizes[k])}
  <2>1. ASSUME NEW k \in 1..Len(out)
        PROVE  k \in {n \in DOMAIN sizes : UpToMaximum(sizes[n])}
    BY <1>1
  <2> QED
    BY <1>1, <1>2, <2>1
<1>4. SubSeq(sizes, 1, Len(out)) = [k \in 1..Len(out) |-> sizes[k]]
  BY <1>1, Len(out) \in Nat DEF SubSeq
<1> QED
  BY <1>1, <1>3, <1>4
-----------------------------------------------------------------------------
(***************************************************************************)
(* The tables of the MLP test and of the store forwarding test.            *)
(***************************************************************************)
IsResult(r) == r = Result(r.test, r.kb, r.loads, r.failed)

CellIs(r, j, q) ==
    /\ IsResult(r)
    /\ args.mode = "mlp" => /\ r.test = <<TestSizes[j], q>>
                            /\ Enough(q) => r.loads > 0 \/ r.failed
    /\ args.mode = "stlf" => r.test = <<j - 1, q - 1>>

CellOf(j, q) == (j - 1) * Width + q - 1

Passed(j, q) == j < i \/ (j = i /\ q < p)

CellsSoFar ==
    /\ DOMAIN results = 0..(Height * Width - 1)
    /\ \A j \in 1..Height, q \in 1..Width :
          Passed(j, q) => CellIs(results[CellOf(j, q)], j, q)

\* The chains of the smallest array make the loads that main() asked for.
ChainsInv ==
    stage = "chains" => /\ i = 1 /\ parallelism = p /\ rounds = MlpRounds
                        /\ pc = "done" => round = rounds

\* The printed MLP table is transposed.
TableIs ==
    /\ args.mode = "mlp" =>
         /\ out = [q \in 1..Width |-> [j \in 1..Height |-> out[q][j]]]
         /\ \A q \in 1..Width, j \in 1..Height : CellIs(out[q][j], j, q)
    /\ args.mode = "stlf" =>
         /\ out = [j \in 1..Height |-> [q \in 1..Width |-> out[j][q]]]
         /\ \A q \in 1..Width, j \in 1..Height : CellIs(out[j][q], j, q)

TableInv ==
    ~ InOrder => /\ CellsSoFar /\ ChainsInv
                 /\ IF stage = "done" THEN out = <<>> \/ TableIs ELSE out = <<>>

LEMMA TableSize ==
    /\ Height \in Nat \ {0} /\ Width \in Nat \ {0}
    /\ args.mode = "mlp" => /\ Height = Len(TestSizes)
                            /\ Width = MaxParallelism /\ sizes = TestSizes
    /\ args.mode = "stlf" => Height = Offsets /\ Width = Offsets
BY TableFacts, CountsAssumption, ParallelismAssumption, CountAssumption
   DEF Height, Width, sizes

\* Every cell has a place of its own in the table.
LEMMA CellsAreDistinct ==
    ASSUME NEW j \in 1..Height, NEW q \in 1..Width
    PROVE  /\ CellOf(j, q) \in 0..(Height * Width - 1)
           /\ \A k \in 1..Height, c \in 1..Width :
                 CellOf(j, q) = CellOf(k, c) => j = k /\ q = c
<1>0. Height \in Nat \ {0} /\ Width \in Nat \ {0}
  BY TableSize
<1>1. PICK h \in Nat \ {0} : h = Height
  BY <1>0
<1>2. PICK w \in Nat \ {0} : w = Width
  BY <1>0
<1>3. j \in 1..h /\ q \in 1..w
  BY <1>1, <1>2
<1>4. (j - 1) * w + (q - 1) \in 0..(h * w - 1)
  <2>1. (j - 1) * w + w = j * w /\ (j - 1) * w \in Nat /\ j * w \in Nat
    BY <1>3
  <2>2. j * w <= h * w
    BY <1>3, ProductGrows, w <= w, j \in Nat
  <2>3. h * w \in Nat
    OBVIOUS
  <2> QED
    BY <1>3, <2>1, <2>2, <2>3
<1>5. ASSUME NEW k \in 1..h, NEW c \in 1..w,
             (j - 1) * w + (q - 1) = (k - 1) * w + (c - 1)
      PROVE  j = k /\ q = c
  <2>1. /\ j - 1 \in Nat /\ k - 1 \in Nat
        /\ q - 1 \in 0..(w - 1) /\ c - 1 \in 0..(w - 1)
    BY <1>3
  <2>2. j - 1 = k - 1
    BY <1>5, <2>1, QuotientUnique
  <2>3. j = k
    BY <1>3, <2>2
  <2>4. (j - 1) * w \in Nat
    BY <2>1
  <2> QED
    BY <1>3, <1>5, <2>3, <2>4
<1>6. \A k \in 1..h, c \in 1..w : CellOf(k, c) = (k - 1) * w + (c - 1)
  <2> SUFFICES ASSUME NEW k \in 1..h, NEW c \in 1..w
               PROVE  CellOf(k, c) = (k - 1) * w + (c - 1)
    OBVIOUS
  <2>1. (k - 1) * w \in Nat
    OBVIOUS
  <2> QED
    BY <1>2, <2>1 DEF CellOf
<1>7. CellOf(j, q) \in 0..(Height * Width - 1)
  <2>1. CellOf(j, q) = (j - 1) * w + (q - 1)
    BY <1>3, <1>6
  <2> QED
    BY <1>1, <1>2, <1>4, <2>1, Zenon
<1>8. ASSUME NEW k \in 1..Height, NEW c \in 1..Width, CellOf(j, q) = CellOf(k, c)
      PROVE  j = k /\ q = c
  <2>1. k \in 1..h /\ c \in 1..w
    BY <1>1, <1>2
  <2>2. (j - 1) * w + (q - 1) = (k - 1) * w + (c - 1)
    BY <1>3, <1>6, <1>8, <2>1, Zenon
  <2> QED
    BY <1>5, <2>1, <2>2, Zenon
<1> QED
  BY <1>7, <1>8

\* One more cell.
LEMMA RecordCell ==
    ASSUME StageInv, CounterInv, CellsSoFar, i <= Height,
           NEW r, Record(r), CellIs(r, i, p),
           args' = args, Height' = Height, Width' = Width
    PROVE  CellsSoFar'
<1>0. /\ Height \in Nat \ {0} /\ Width \in Nat \ {0}
      /\ i \in 1..Height /\ p \in 1..Width /\ Cell = CellOf(i, p)
      /\ DOMAIN results = 0..(Height * Width - 1)
  BY TableSize DEF CounterInv, Cell, CellOf, CellsSoFar
<1>1. /\ CellOf(i, p) \in DOMAIN results
      /\ results' = [results EXCEPT ![CellOf(i, p)] = r]
  BY <1>0, CellsAreDistinct DEF Record
<1>2. DOMAIN results' = DOMAIN results
  BY <1>1
<1>3. ASSUME NEW j \in 1..Height, NEW q \in 1..Width, Passed(j, q)'
      PROVE  Passed(j, q) \/ (j = i /\ q = p)
  BY <1>0, <1>3 DEF Record, Passed
<1>4. ASSUME NEW j \in 1..Height, NEW q \in 1..Width, Passed(j, q)'
      PROVE  CellIs(results'[CellOf(j, q)], j, q)
  <2>1. CASE j = i /\ q = p
    <3>1. results'[CellOf(j, q)] = r
      BY <1>1, <2>1
    <3> QED
      BY <2>1, <3>1
  <2>2. CASE Passed(j, q) /\ ~ (j = i /\ q = p)
    <3>1. CellOf(j, q) # CellOf(i, p) /\ CellOf(j, q) \in DOMAIN results
      BY <1>0, <2>2, CellsAreDistinct
    <3>2. results'[CellOf(j, q)] = results[CellOf(j, q)]
      BY <1>1, <3>1
    <3> QED
      BY <2>2, <3>2 DEF CellsSoFar
  <2> QED
    BY <1>3, <1>4, <2>1, <2>2
<1>5. ASSUME NEW j \in 1..Height, NEW q \in 1..Width, Passed(j, q)'
      PROVE  CellIs(results[CellOf(j, q)], j, q)'
  BY <1>4, <1>5 DEF CellIs, CellOf, Enough
<1> QED
  BY <1>0, <1>2, <1>5 DEF CellsSoFar

\* What a run of chains records for its size and number.
LEMMA MlpCellIs ==
    ASSUME StageInv, CounterInv, args.mode = "mlp", i <= Height
    PROVE  /\ CellIs(Result(<<sizes[i], p>>, sizes[i], MlpRounds * p, FALSE), i, p)
           /\ CellIs(Result(<<sizes[i], p>>, 0, 0, TRUE), i, p)
<1>1. /\ sizes = TestSizes /\ sizes[i] \in 1..LargestKb /\ p \in Nat \ {0}
      /\ MlpRounds \in Nat /\ (p <= Scaled(sizes[i]) => MlpRounds # 0)
      /\ args \in Args
  BY MlpRoundsIs, TableSize, ParallelismAssumption, CountAssumption
     DEF StageInv
<1>2. ASSUME Enough(p) PROVE MlpRounds * p > 0
  <2>1. MlpRounds # 0
    BY <1>1, <1>2, EnoughIsEnough
  <2>2. PICK n \in Nat \ {0} : n = MlpRounds
    BY <1>1, <2>1
  <2>3. PICK c \in Nat \ {0} : c = p
    BY <1>1
  <2>4. n * c > 0
    <3>1. 1 * 1 <= n * c
      BY ProductGrows, 1 <= n, 1 <= c, n \in Nat, c \in Nat, 1 \in Nat
    <3>2. n * c \in Nat
      OBVIOUS
    <3> QED
      BY <3>1, <3>2
  <2> QED
    BY <2>2, <2>3, <2>4
<1> QED
  BY <1>1, <1>2 DEF CellIs, IsResult, Result

\* The cells of a step that touches none.
LEMMA CellsStay ==
    ASSUME CellsSoFar, args' = args, Height' = Height, Width' = Width,
           UNCHANGED <<results, i, p>>
    PROVE  CellsSoFar'
<1>1. \A j, q : CellOf(j, q)' = CellOf(j, q)
  BY DEF CellOf
<1>2. \A j, q : Passed(j, q)' <=> Passed(j, q)
  BY DEF Passed
<1>3. ASSUME NEW j \in 1..Height, NEW q \in 1..Width, Passed(j, q)'
      PROVE  CellIs(results[CellOf(j, q)], j, q)'
  <2>1. CellIs(results[CellOf(j, q)], j, q)
    BY <1>2, <1>3 DEF CellsSoFar
  <2> QED
    BY <1>1, <2>1 DEF CellIs, Enough
<1>4. DOMAIN results' = 0..(Height' * Width' - 1)
  BY DEF CellsSoFar
<1> QED
  BY <1>3, <1>4 DEF CellsSoFar

\* The cells and the chains of a step that touches neither.
LEMMA TableStays ==
    ASSUME CellsSoFar, ChainsInv, args' = args, Height' = Height, Width' = Width,
           UNCHANGED <<results, i, p>>, stage' # "chains"
    PROVE  CellsSoFar' /\ ChainsInv'
BY CellsStay DEF ChainsInv

\* A table whose cells have all been measured.
LEMMA PrintedIsTable ==
    ASSUME StageInv, CounterInv, CellsSoFar, PrintTable,
           args' = args, Height' = Height, Width' = Width
    PROVE  TableIs'
<1>1. /\ stage = args.mode /\ args.mode \in {"mlp", "stlf"} /\ ~ (i <= Height)
      /\ i \in Nat /\ Height \in Nat /\ Width \in Nat \ {0}
  BY TableSize DEF StageInv, CounterInv, PrintTable
<1>2. ASSUME NEW j \in 1..Height, NEW q \in 1..Width
      PROVE  /\ CellIs(results[CellOf(j, q)], j, q)
             /\ CellOf(j, q) \in DOMAIN results
  <2>1. Passed(j, q)
    BY <1>1 DEF Passed
  <2> QED
    BY <2>1, CellsAreDistinct DEF CellsSoFar
<1>3. CASE args.mode = "mlp"
  <2>1. PICK beyond \in Beyond :
           out' = [r \in 1..Width |-> [c \in 1..MlpColumns(beyond) |->
                     IF (c - 1) * Width + r - 1 \in DOMAIN results
                     THEN results[(c - 1) * Width + r - 1] ELSE Unset]]
    BY <1>1, <1>3 DEF PrintTable
  <2>2. MlpColumns(beyond) = Height
    BY <1>3, ColumnsFit
  <2>3. ASSUME NEW q \in 1..Width, NEW j \in 1..Height
        PROVE  out'[q][j] = results[CellOf(j, q)]
    BY <1>2, <2>1, <2>2 DEF CellOf
  <2>4. out' = [q \in 1..Width |-> [j \in 1..Height |-> out'[q][j]]]
    BY <2>1, <2>2
  <2>5. ASSUME NEW q \in 1..Width, NEW j \in 1..Height
        PROVE  CellIs(out[q][j], j, q)'
    BY <1>2, <2>3 DEF CellIs, Enough
  <2> QED
    BY <1>3, <2>4, <2>5 DEF TableIs
<1>4. CASE args.mode = "stlf"
  <2>1. out' = [r \in 1..Height |-> [c \in 1..Width |->
                  IF (r - 1) * Width + c - 1 \in DOMAIN results
                  THEN results[(r - 1) * Width + c - 1] ELSE Unset]]
    BY <1>1, <1>4 DEF PrintTable
  <2>3. ASSUME NEW q \in 1..Width, NEW j \in 1..Height
        PROVE  out'[j][q] = results[CellOf(j, q)]
    BY <1>2, <2>1 DEF CellOf
  <2>4. out' = [j \in 1..Height |-> [q \in 1..Width |-> out'[j][q]]]
    BY <2>1
  <2>5. ASSUME NEW q \in 1..Width, NEW j \in 1..Height
        PROVE  CellIs(out[j][q], j, q)'
    BY <1>2, <2>3 DEF CellIs, Enough
  <2> QED
    BY <1>4, <2>4, <2>5 DEF TableIs
<1> QED
  BY <1>1, <1>3, <1>4

LEMMA StepTableInv ==
    ASSUME SweepInv, BufferInv, TableInv, SweepStep
    PROVE  TableInv'
<1> SUFFICES ASSUME ~ InOrder PROVE TableInv'
  BY ArgsStay DEF TableInv
<1>0. /\ args' = args /\ sizes' = sizes /\ ~ InOrder'
      /\ Height' = Height /\ Width' = Width
      /\ StageInv /\ CounterInv /\ CellsSoFar /\ ChainsInv
      /\ args.mode \in {"mlp", "stlf"}
      /\ stage \notin {"plain", "tlb", "reference", "wrapped"}
      /\ (stage # "done" => out = <<>>)
      /\ Height \in Nat \ {0}
  BY ArgsStay, ArgsAssumption, TableSize
     DEF SweepInv, TableInv, StageInv, InOrder
<1>1. CASE UNCHANGED allVars
  <2>1. /\ UNCHANGED <<results, i, p, out, stage, parallelism, rounds, round, pc>>
    BY <1>1 DEF allVars, mainVars, outVars, vars, testVars, chainVars
  <2>2. CellsSoFar'
    BY <1>0, <2>1, CellsStay
  <2>3. ChainsInv'
    BY <1>0, <2>1 DEF ChainsInv, MlpRounds, Scaled
  <2>4. TableIs => TableIs'
    BY <1>0, <2>1 DEF TableIs, CellIs, Enough
  <2> QED
    BY <2>1, <2>2, <2>3, <2>4 DEF TableInv
<1>2. CASE NoHugePages \/ MapHugePages \/ NoMemory \/ AllocTable
           \/ AllocTableFails \/ NoPointerArray
  <2>1. /\ UNCHANGED <<results, i, p, out>> /\ stage' # "chains" /\ out = <<>>
    BY <1>0, <1>2 DEF NoHugePages, MapHugePages, NoMemory, Begin, AllocTable,
         AllocTableFails, NoPointerArray, outVars
  <2> QED
    BY <1>0, <2>1, TableStays DEF TableInv
<1>3. CASE StartMlpTest
  <2>1. /\ UNCHANGED <<results, i, p, out>> /\ stage' = "chains" /\ out = <<>>
        /\ i = 1 /\ parallelism' = p /\ rounds' = MlpRounds /\ pc' = "shuffle"
    BY <1>0, <1>3 DEF StartMlpTest, MlpTest, Locals, outVars
  <2>2. CellsSoFar'
    BY <1>0, <2>1, CellsStay
  <2>3. MlpRounds' = MlpRounds
    BY <1>0, <2>1 DEF MlpRounds, Scaled
  <2>4. ChainsInv'
    BY <2>1, <2>3 DEF ChainsInv
  <2> QED
    BY <2>1, <2>2, <2>4 DEF TableInv
<1>4. CASE ChainStep
  <2>1. /\ UNCHANGED <<results, i, p, out, stage>> /\ stage = "chains"
        /\ out = <<>>
    BY <1>0, <1>4 DEF ChainStep, mainVars, outVars
  <2>2. CellsSoFar'
    BY <1>0, <2>1, CellsStay
  <2>3. MlpRounds' = MlpRounds
    BY <1>0, <2>1 DEF MlpRounds, Scaled
  <2>4. UNCHANGED <<parallelism, rounds>>
    BY <1>4 DEF ChainStep, ShuffleRound, PlaceChains, Advance, NextRound, Report,
         testVars
  <2>5. pc' = "done" => round' = rounds'
    <3>1. round \in 0..rounds /\ rounds \in Nat
      BY RoundsAssumption DEF SweepInv, MlpInv, ChainTypes
    <3>2. CASE Report
      BY <3>1, <3>2 DEF Report, testVars, chainVars
    <3>3. CASE PlaceChains \/ Advance \/ NextRound
      BY <3>3 DEF PlaceChains, Advance, NextRound
    <3>4. CASE ShuffleRound
      BY <3>4 DEF ShuffleRound
    <3> QED
      BY <1>4, <3>2, <3>3, <3>4 DEF ChainStep
  <2>6. ChainsInv'
    BY <1>0, <2>1, <2>3, <2>4, <2>5 DEF ChainsInv
  <2> QED
    BY <2>1, <2>2, <2>6 DEF TableInv
<1>5. CASE EndMlpTest \/ RunMlpTest \/ RunMlpTestFails
  <2>1. /\ args.mode = "mlp" /\ i <= Height /\ stage' = "mlp"
    <3>1. CASE EndMlpTest
      <4>1. args.mode = "mlp" /\ i = 1 /\ stage' = "mlp"
        BY <1>0, <3>1 DEF EndMlpTest, StageInv, ChainsInv
      <4> QED
        BY <1>0, <4>1
    <3>2. CASE RunMlpTest \/ RunMlpTestFails
      BY <1>0, <3>2 DEF RunMlpTest, RunMlpTestFails, MlpTest, StageInv
    <3> QED
      BY <1>5, <3>1, <3>2
  <2>2. PICK r : Record(r) /\ CellIs(r, i, p)
    <3>1. CASE EndMlpTest
      <4>1. round * parallelism = MlpRounds * p
        BY <1>0, <3>1 DEF EndMlpTest, ChainsInv
      <4> QED
        BY <1>0, <2>1, <3>1, <4>1, MlpCellIs DEF EndMlpTest
    <3>2. CASE RunMlpTest \/ RunMlpTestFails
      BY <1>0, <2>1, <3>2, MlpCellIs DEF RunMlpTest, RunMlpTestFails
    <3> QED
      BY <1>5, <3>1, <3>2
  <2>3. CellsSoFar'
    BY <1>0, <2>1, <2>2, RecordCell
  <2>4. out' = <<>>
    BY <1>0, <1>5, <2>2
       DEF Record, EndMlpTest, RunMlpTest, RunMlpTestFails, MlpTest
  <2> QED
    BY <2>1, <2>3, <2>4 DEF TableInv, ChainsInv
<1>6. CASE StlfTest
  <2>1. /\ args.mode = "stlf" /\ i <= Height /\ stage' = "stlf" /\ out = <<>>
    BY <1>0, <1>6 DEF StlfTest, StageInv
  <2>2. PICK r : Record(r) /\ CellIs(r, i, p)
    <3>1. CellIs(Result(StoredWords, 0, args.iter, FALSE), i, p)
      BY <2>1 DEF CellIs, IsResult, Result, StoredWords
    <3> QED
      BY <1>6, <3>1 DEF StlfTest
  <2>3. CellsSoFar'
    BY <1>0, <2>1, <2>2, RecordCell
  <2> QED
    BY <2>1, <2>2, <2>3 DEF TableInv, ChainsInv, Record
<1>7. CASE PrintTable
  <2>1. UNCHANGED <<results, i, p>> /\ stage' = "done"
    BY <1>7 DEF PrintTable
  <2> QED
    BY <1>0, <1>7, <2>1, TableStays, PrintedIsTable DEF TableInv
<1>8. CASE RunTest \/ RunTestFails \/ RunAsmTestWraps \/ Crash \/ Return
           \/ TlbChase \/ NoPattern \/ Reference
  BY <1>0, <1>8 DEF RunTest, RunTestFails, RunAsmTestWraps, Crash, Return,
       TlbChase, NoPattern, Reference
<1> QED
  BY <1>1, <1>2, <1>3, <1>4, <1>5, <1>6, <1>7, <1>8
     DEF SweepStep, MainNext, Ended

LEMMA InitLinesAndTable == SweepInit => LinesInv /\ TableInv
<1> SUFFICES ASSUME SweepInit PROVE LinesInv /\ TableInv
  OBVIOUS
<1>1. args \in Args /\ stage = "start" /\ out = <<>> /\ i = 1 /\ p = 1
  BY DEF SweepInit
<1>2. LinesInv
  BY <1>1, SizeFacts DEF LinesInv, LinesSoFar
<1>3. DOMAIN results = 0..(Height * Width - 1)
  BY DEF SweepInit
<1>4. CellsSoFar /\ ChainsInv
  BY <1>1, <1>3 DEF CellsSoFar, Passed, ChainsInv
<1> QED
  BY <1>1, <1>2, <1>4 DEF TableInv

\* A run that prints results prints one for every size or cell it was asked
\* for, each measured with its own parameters; and none without a load behind
\* it while -iter is large enough.
THEOREM PrintsItsMeasurements == SweepSpec => []PrintsWhatItMeasures
<1>1. ASSUME SweepInv, LinesInv, TableInv PROVE PrintsOwnTests
  <2> SUFFICES ASSUME stage = "done", out # <<>>
               PROVE  /\ InOrder =>
                           /\ [k \in 1..Len(out) |-> out[k].test] =
                                SubSeq(sizes, 1, Len(out))
                           /\ 1..Len(out) =
                                {k \in DOMAIN sizes : UpToMaximum(sizes[k])}
                      /\ args.mode = "mlp" =>
                           out = [q \in 1..MaxParallelism |->
                                   [k \in 1..Len(TestSizes) |->
                                     [out[q][k] EXCEPT
                                        !.test = <<TestSizes[k], q>>]]]
                      /\ args.mode = "stlf" =>
                           out = [s \in 1..Offsets |-> [l \in 1..Offsets |->
                                   [out[s][l] EXCEPT
                                      !.test = <<s - 1, l - 1>>]]]
    BY DEF PrintsOwnTests
  <2>1. CASE InOrder
    BY <1>1, <2>1, LinesAreComplete DEF InOrder
  <2>2. CASE ~ InOrder
    <3>1. TableIs
      BY <1>1, <2>2 DEF TableInv
    <3>2. ASSUME NEW r, IsResult(r) PROVE [r EXCEPT !.test = r.test] = r
      BY <3>2 DEF IsResult, Result
    <3>3. ASSUME args.mode = "mlp"
          PROVE  out = [q \in 1..MaxParallelism |-> [k \in 1..Len(TestSizes) |->
                          [out[q][k] EXCEPT !.test = <<TestSizes[k], q>>]]]
      <4>1. /\ out = [q \in 1..MaxParallelism |->
                        [k \in 1..Len(TestSizes) |-> out[q][k]]]
            /\ \A q \in 1..MaxParallelism, k \in 1..Len(TestSizes) :
                  CellIs(out[q][k], k, q)
        BY <3>1, <3>3, TableSize DEF TableIs
      <4>2. \A q \in 1..MaxParallelism, k \in 1..Len(TestSizes) :
               [out[q][k] EXCEPT !.test = <<TestSizes[k], q>>] = out[q][k]
        <5> TAKE q \in 1..MaxParallelism, k \in 1..Len(TestSizes)
        <5> DEFINE r == out[q][k]
        <5>1. IsResult(r) /\ r.test = <<TestSizes[k], q>>
          BY <3>3, <4>1 DEF CellIs
        <5> HIDE DEF r
        <5>2. [r EXCEPT !.test = <<TestSizes[k], q>>] = r
          BY <3>2, <5>1
        <5> QED
          BY <5>2 DEF r
      <4> QED
        BY <4>1, <4>2, Zenon
    <3>4. ASSUME args.mode = "stlf"
          PROVE  out = [s \in 1..Offsets |-> [l \in 1..Offsets |->
                          [out[s][l] EXCEPT !.test = <<s - 1, l - 1>>]]]
      <4>1. /\ out = [s \in 1..Offsets |-> [l \in 1..Offsets |-> out[s][l]]]
            /\ \A s \in 1..Offsets, l \in 1..Offsets : CellIs(out[s][l], s, l)
        BY <3>1, <3>4, TableSize DEF TableIs
      <4>2. \A s \in 1..Offsets, l \in 1..Offsets :
               [out[s][l] EXCEPT !.test = <<s - 1, l - 1>>] = out[s][l]
        <5> TAKE s \in 1..Offsets, l \in 1..Offsets
        <5> DEFINE r == out[s][l]
        <5>1. IsResult(r) /\ r.test = <<s - 1, l - 1>>
          BY <3>4, <4>1 DEF CellIs
        <5> HIDE DEF r
        <5>2. [r EXCEPT !.test = <<s - 1, l - 1>>] = r
          BY <3>2, <5>1
        <5> QED
          BY <5>2 DEF r
      <4> QED
        BY <4>1, <4>2, Zenon
    <3> QED
      BY <2>2, <3>3, <3>4
  <2> QED
    BY <2>1, <2>2
<1>2. ASSUME SweepInv, LinesInv, TableInv PROVE MeasuresItsSize
  <2>1. stage = "wrapped" => args.single > LargestKb \/ ~ Enough(1)
    BY <1>2 DEF LinesInv, SweepInv, StageInv, InOrder
  <2>2. CASE InOrder
    <3>1. ASSUME NEW r \in Printed
          PROVE  /\ args.mode = "plain" /\ ~ r.failed =>
                      r.kb = r.test \/ r.test >= WordKb
                 /\ args.single = 0 /\ Enough(1) => r.loads > 0 \/ r.failed
      <4>1. PICK k \in 1..Len(out) : r = out[k]
        BY <2>2 DEF Printed
      <4> QED
        BY <1>2, <2>2, <4>1 DEF LinesInv, LinesSoFar, LineIs
    <3>2. \A r : Chains(r) = 1
      BY <2>2 DEF Chains, InOrder
    <3> QED
      BY <2>1, <3>1, <3>2 DEF MeasuresItsSize
  <2>3. CASE ~ InOrder
    <3>1. ASSUME NEW r \in Printed, args.mode = "mlp", Enough(Chains(r))
          PROVE  r.loads > 0 \/ r.failed
      <4>1. PICK q \in DOMAIN out : r \in {out[q][c] : c \in DOMAIN out[q]}
        BY <2>3 DEF Printed
      <4>2. out # <<>>
        BY <4>1
      <4>3. TableIs
        BY <1>2, <2>3, <4>2 DEF TableInv
      <4>4. /\ out = [q1 \in 1..Width |-> [j \in 1..Height |-> out[q1][j]]]
            /\ \A q1 \in 1..Width, j \in 1..Height : CellIs(out[q1][j], j, q1)
        BY <3>1, <4>3 DEF TableIs
      <4>5. PICK j \in 1..Height : r = out[q][j] /\ q \in 1..Width
        <5>1. DOMAIN out = 1..Width
          BY <4>4
        <5>2. DOMAIN out[q] = 1..Height
          BY <4>1, <4>4, <5>1
        <5> QED
          BY <4>1, <5>1, <5>2
      <4>6. CellIs(r, j, q)
        BY <4>4, <4>5
      <4>7. Chains(r) = q
        BY <3>1, <4>6 DEF CellIs, Chains
      <4> QED
        BY <3>1, <4>6, <4>7 DEF CellIs
    <3>2. args.mode # "plain" /\ args.mode # "tlb"
      BY <2>3 DEF InOrder
    <3>3. args.mode = "mlp" \/ args.mode = "stlf"
      BY <1>2, <3>2, ArgsAssumption DEF SweepInv, StageInv
    <3> QED
      BY <2>1, <3>1, <3>2, <3>3 DEF MeasuresItsSize
  <2> QED
    BY <2>2, <2>3
<1>3. SweepInit => SweepInv /\ BufferInv /\ LinesInv /\ TableInv
  BY InitSweepInv, InitLinesAndTable DEF SweepInit, BufferInv
<1>4. SweepInv /\ BufferInv /\ LinesInv /\ TableInv /\ SweepStep
      => (SweepInv /\ BufferInv /\ LinesInv /\ TableInv)'
  BY StepSweepInv, StepBufferInv, StepLinesInv, StepTableInv
<1>5. SweepInv /\ LinesInv /\ TableInv => PrintsWhatItMeasures
  BY <1>1, <1>2 DEF PrintsWhatItMeasures
<1> QED
  BY <1>3, <1>4, <1>5, PTL DEF SweepSpec, SweepStep
=============================================================================
