----------------------------- MODULE TuningProofs -----------------------------
(***************************************************************************)
(* Theorems about Tuning, for every number of cards, every band, list of   *)
(* caps and memory clocks, and whatever a card measures.                   *)
(*                                                                         *)
(* First the pure half of --tune, PowerCurve: the caps it chooses are      *)
(* among those it was given, and its advice rests on measured points.      *)
(* Then the sweeps themselves.                                             *)
(***************************************************************************)
EXTENDS Tuning, FiniteSetTheorems, WellFoundedInduction, SequenceTheorems, TLAPS

(***************************************************************************)
(* A finite set of integers has a lowest and a highest member.  The order  *)
(* of T is carried over to the sets of its lower (upper) members, which    *)
(* strict inclusion orders well.                                           *)
(***************************************************************************)
LEMMA LowestIsThere ==
  ASSUME NEW T \in SUBSET Int, T # {}, IsFiniteSet(T)
  PROVE  /\ Lowest(T) \in T
         /\ \A y \in T : Lowest(T) <= y
<1> DEFINE Under(x) == {z \in T : z < x}
           Orders == StrictSubsetOrdering(T)
<1>1. IsWellFoundedOn(Orders, SUBSET T)
  BY FS_StrictSubsetOrderingWellFounded, FS_FiniteSubsetsOfFinite
<1>2. \E D \in {Under(x) : x \in T} : \A E \in {Under(x) : x \in T} : <<E, D>> \notin Orders
  <2> DEFINE Family == {Under(x) : x \in T}
  <2>1. Family \subseteq SUBSET T /\ Family # {}
    OBVIOUS
  <2> HIDE DEF Family, Orders
  <2> QED BY <1>1, <2>1, WFMin DEF Family
<1>3. PICK x \in T : \A y \in T : <<Under(y), Under(x)>> \notin Orders
  BY <1>2
<1>4. \A y \in T : x <= y
  <2> SUFFICES ASSUME NEW y \in T, y < x PROVE FALSE
    BY <1>3
  <2>1. /\ Under(y) \subseteq Under(x)
        /\ y \in Under(x) \ Under(y)
    <3>1. x \in Int /\ y \in Int /\ \A z \in T : z < y => z < x
      BY <1>3
    <3>2. Under(y) \subseteq Under(x)
      BY <3>1
    <3>3. y \in Under(x)
      OBVIOUS
    <3>4. y \notin Under(y)
      BY <3>1
    <3> QED BY <3>2, <3>3, <3>4
  <2>2. <<Under(y), Under(x)>> \in Orders
    BY <2>1 DEF StrictSubsetOrdering
  <2> QED BY <1>3, <2>2
<1> QED BY <1>3, <1>4 DEF Lowest

LEMMA HighestIsThere ==
  ASSUME NEW T \in SUBSET Int, T # {}, IsFiniteSet(T)
  PROVE  /\ Highest(T) \in T
         /\ \A y \in T : y <= Highest(T)
<1> DEFINE Over(x) == {z \in T : z > x}
           Orders == StrictSubsetOrdering(T)
<1>1. IsWellFoundedOn(Orders, SUBSET T)
  BY FS_StrictSubsetOrderingWellFounded, FS_FiniteSubsetsOfFinite
<1>2. \E D \in {Over(x) : x \in T} : \A E \in {Over(x) : x \in T} : <<E, D>> \notin Orders
  <2> DEFINE Family == {Over(x) : x \in T}
  <2>1. Family \subseteq SUBSET T /\ Family # {}
    OBVIOUS
  <2> HIDE DEF Family, Orders
  <2> QED BY <1>1, <2>1, WFMin DEF Family
<1>3. PICK x \in T : \A y \in T : <<Over(y), Over(x)>> \notin Orders
  BY <1>2
<1>4. \A y \in T : y <= x
  <2> SUFFICES ASSUME NEW y \in T, x < y PROVE FALSE
    BY <1>3
  <2>1. /\ Over(y) \subseteq Over(x)
        /\ y \in Over(x) \ Over(y)
    <3>1. x \in Int /\ y \in Int /\ \A z \in T : z > y => z > x
      BY <1>3
    <3>2. Over(y) \subseteq Over(x)
      BY <3>1
    <3>3. y \in Over(x)
      BY <3>1
    <3>4. y \notin Over(y)
      BY <3>1
    <3> QED BY <3>2, <3>3, <3>4
  <2>2. <<Over(y), Over(x)>> \in Orders
    BY <2>1 DEF StrictSubsetOrdering
  <2> QED BY <1>3, <2>2
<1> QED BY <1>3, <1>4 DEF Highest

(***************************************************************************)
(* Curves.  All that is used of a point is that its cap and rate are       *)
(* integers.                                                               *)
(***************************************************************************)
LEMMA ImageIsFinite ==
  ASSUME NEW D, IsFiniteSet(D), NEW f, f = [x \in D |-> f[x]]
  PROVE  IsFiniteSet({f[x] : x \in D})
<1>1. f \in Surjection(D, {f[x] : x \in D})
  BY DEF Surjection
<1> QED BY <1>1, FS_Surjection

LEMMA CapsAreFinite ==
  ASSUME NEW S, NEW curve \in Seq(S), \A p \in S : p.cap \in Int
  PROVE  /\ PointsOf(curve) \subseteq S /\ IsFiniteSet(PointsOf(curve))
         /\ CapsOf(curve) \subseteq Int /\ IsFiniteSet(CapsOf(curve))
<1>1. Len(curve) \in Nat /\ DOMAIN curve = 1 .. Len(curve) /\ curve \in [1 .. Len(curve) -> S]
  BY LenProperties
<1>2. PointsOf(curve) \subseteq S
  BY <1>1 DEF PointsOf
<1>3. IsFiniteSet(DOMAIN curve)
  BY <1>1, FS_Interval
<1>4. IsFiniteSet(PointsOf(curve))
  BY <1>1, <1>3, ImageIsFinite DEF PointsOf
<1>5. IsFiniteSet(CapsOf(curve))
  <2> DEFINE f == [p \in PointsOf(curve) |-> p.cap]
  <2>1. IsFiniteSet({f[p] : p \in PointsOf(curve)})
    <3>1. f = [p \in PointsOf(curve) |-> f[p]]
      OBVIOUS
    <3> HIDE DEF f
    <3> QED BY <1>4, <3>1, ImageIsFinite
  <2>2. {f[p] : p \in PointsOf(curve)} = CapsOf(curve)
    BY DEF CapsOf
  <2> QED BY <2>1, <2>2
<1> QED BY <1>2, <1>4, <1>5 DEF CapsOf

\* The cap recommended is one of a point with a rate, unless there is none.
LEMMA RecommendedIsRated ==
  ASSUME NEW S, NEW curve \in Seq(S), \A p \in S : p.cap \in Int
  PROVE  \/ Recommended(curve) \in {p.cap : p \in Rated(curve)}
         \/ Recommended(curve) = 0 /\ Rated(curve) = {}
<1> DEFINE good == Rated(curve)
           caps == {p.cap : p \in good}
<1>1. CASE good = {}
  BY <1>1 DEF Recommended
<1>2. CASE good # {}
  <2> DEFINE Rate(c) == (CHOOSE p \in good : p.cap = c).rate
             Below(c) == Highest({b \in caps : b < c})
             Pays(c) == (Rate(c) - Rate(Below(c))) * Gain[2] >= Gain[1] * (c - Below(c))
             paid == {c \in caps : \A b \in caps : b <= c => b = Lowest(caps) \/ Pays(b)}
  <2>1. caps \subseteq Int /\ caps # {} /\ IsFiniteSet(caps)
    <3>1. caps \subseteq CapsOf(curve)
      BY DEF CapsOf, Rated
    <3> QED BY <1>2, <3>1, CapsAreFinite, FS_Subset
  <2>2. Recommended(curve) = Highest(paid)
    BY <1>2 DEF Recommended
  <2> HIDE DEF Pays, caps
  <2>3. Lowest(caps) \in caps /\ \A b \in caps : Lowest(caps) <= b
    BY <2>1, LowestIsThere
  <2>4. Lowest(caps) \in paid
    <3>1. ASSUME NEW b \in caps, b <= Lowest(caps) PROVE b = Lowest(caps)
      <4> DEFINE l == Lowest(caps)
      <4>1. l \in Int /\ b \in Int /\ l <= b /\ b <= l
        BY <2>1, <2>3, <3>1
      <4> HIDE DEF l
      <4>2. b = l
        BY <4>1
      <4> QED BY <4>2 DEF l
    <3> QED BY <2>3, <3>1
  <2>5. paid \subseteq Int /\ IsFiniteSet(paid)
    BY <2>1, FS_Subset
  <2>6. Highest(paid) \in paid
    BY <2>4, <2>5, HighestIsThere
  <2> QED BY <2>2, <2>6 DEF caps
<1> QED BY <1>1, <1>2

\* The caps of a refining pass are watts between two that were measured.
LEMMA RefinedCapsAreWatts ==
  ASSUME NEW S, NEW curve \in Seq(S), \A p \in S : p.cap \in Int, NEW around, NEW most
  PROVE  /\ RefineCaps(curve, around, most) \subseteq Int
         /\ IsFiniteSet(RefineCaps(curve, around, most))
<1> DEFINE caps == CapsOf(curve)
           below == {c \in caps : c < around}
           above == {c \in caps : c > around}
           low == IF below = {} THEN around ELSE Highest(below)
           high == IF above = {} THEN around ELSE Lowest(above)
<1>1. CASE around \notin caps
  BY <1>1, FS_EmptySet DEF RefineCaps
<1>2. CASE around \in caps
  <2>1. caps \subseteq Int /\ IsFiniteSet(caps)
    BY CapsAreFinite
  <2>2. below \in SUBSET Int /\ IsFiniteSet(below) /\ above \in SUBSET Int /\ IsFiniteSet(above)
    BY <2>1, FS_Subset
  <2>3. low \in Int /\ high \in Int
    <3> HIDE DEF below, above
    <3>1. below # {} => Highest(below) \in Int
      BY <2>2, HighestIsThere
    <3>2. above # {} => Lowest(above) \in Int
      BY <2>2, LowestIsThere
    <3> QED BY <1>2, <2>1, <3>1, <3>2
  <2>4. RefineCaps(curve, around, most) \subseteq low + 1 .. high - 1
    BY <1>2 DEF RefineCaps
  <2> HIDE DEF low, high
  <2>5. IsFiniteSet(low + 1 .. high - 1)
    BY <2>3, FS_Interval
  <2> QED BY <2>3, <2>4, <2>5, FS_Subset
<1> QED BY <1>1, <1>2

LEMMA RoundedIsAnInteger ==
  ASSUME NEW a \in Int, NEW b \in Nat \ {0}
  PROVE  Rounded(a, b) \in Int /\ (a >= 0 => Rounded(a, b) >= 0)
<1> DEFINE n == 2 * a + b
           d == 2 * b
<1>1. n \in Int /\ d \in Int /\ d > 0 /\ (a >= 0 => n >= 0)
  OBVIOUS
<1>2. Rounded(a, b) = n \div d
  BY DEF Rounded
<1> HIDE DEF n, d
<1> QED BY <1>1, <1>2

\* At a cap they have in common the two curves have a pair, and what the rung wins
\* there is the difference of its rates.
LEMMA PairAtCap ==
  ASSUME NEW S, \A p \in S : p.cap \in Int /\ p.rate \in Int,
         NEW stock \in Seq(S), NEW rung \in Seq(S), NEW c \in PairedCaps(stock, rung)
  PROVE  \E s \in Rated(stock), r \in Rated(rung) :
            /\ s.rate \in Int /\ r.rate \in Int
            /\ s.cap = c /\ r.cap = c /\ Won(stock, rung, c) = r.rate - s.rate
<1> DEFINE pr == CHOOSE pr \in Pairs(stock, rung) : pr[1].cap = c
<1>1. \E q \in Pairs(stock, rung) : q[1].cap = c
  BY DEF PairedCaps
<1>2. pr \in Pairs(stock, rung) /\ pr[1].cap = c
  BY <1>1
<1>3. Won(stock, rung, c) = pr[2].rate - pr[1].rate
  BY DEF Won
<1> HIDE DEF pr
<1>4. pr[1] \in Rated(stock) /\ pr[2] \in Rated(rung) /\ pr[1].cap = pr[2].cap
  BY <1>2 DEF Pairs
<1>5. pr[1] \in S /\ pr[2] \in S
  <2>1. PointsOf(stock) \subseteq S /\ PointsOf(rung) \subseteq S
    BY CapsAreFinite
  <2> QED BY <1>4, <2>1 DEF Rated
<1>6. pr[1].rate \in Int /\ pr[2].rate \in Int
  BY <1>5
<1> QED BY <1>2, <1>3, <1>4, <1>6

\* What is added to the cap before the crossing is not negative.
LEMMA NotBefore ==
  ASSUME NEW b \in Int, NEW a \in Int, b < a, NEW g \in Int, g > 0, NEW l \in Int, l <= 0
  PROVE  Rounded(g * (a - b), g - l) \in Int /\ Rounded(g * (a - b), g - l) >= 0
<1> DEFINE n == g * (a - b)
           d == g - l
<1>1. a - b \in Nat /\ g \in Nat /\ d \in Nat \ {0}
  OBVIOUS
<1>2. n \in Nat
  <2> DEFINE m == a - b
  <2>1. m \in Nat
    BY <1>1
  <2> HIDE DEF m
  <2>2. g * m \in Nat
    BY <1>1, <2>1
  <2> QED BY <2>2 DEF m
<1> HIDE DEF n, d
<1>3. Rounded(n, d) \in Int /\ Rounded(n, d) >= 0
  BY <1>1, <1>2, RoundedIsAnInteger
<1> QED BY <1>3 DEF n, d

\* The rung is advised up to a cap no lower than one at which its measured rate was
\* above the one measured at stock memory.
LEMMA RungBelowIsBacked ==
  ASSUME NEW S, \A p \in S : p.cap \in Int /\ p.rate \in Int,
         NEW stock \in Seq(S), NEW rung \in Seq(S), RungBelow(stock, rung) # 0
  PROVE  \E s \in Rated(stock), r \in Rated(rung) :
            s.cap = r.cap /\ s.cap <= RungBelow(stock, rung) /\ r.rate > s.rate
<1> DEFINE caps == PairedCaps(stock, rung)
           W(c) == Won(stock, rung, c)
           lost == {c \in caps : W(c) <= 0}
           at == Lowest(lost)
           early == {c \in caps : c < at}
           before == Highest(early)
           first == Lowest(caps)
           more == Rounded(W(before) * (at - before), W(before) - W(at))
<1>1. RungBelow(stock, rung) = IF caps = {} \/ W(first) <= 0
                               THEN 0
                               ELSE IF lost = {} THEN Highest(caps) ELSE before + more
  BY Zenon DEF RungBelow
<1>2. caps \in SUBSET Int /\ IsFiniteSet(caps)
  <2>1. caps \subseteq CapsOf(stock)
    BY DEF PairedCaps, Pairs, CapsOf, Rated
  <2>2. CapsOf(stock) \subseteq Int /\ IsFiniteSet(CapsOf(stock))
    BY CapsAreFinite
  <2> HIDE DEF caps
  <2> QED BY <2>1, <2>2, FS_Subset
<1>3. \A c \in caps : \E s \in Rated(stock), r \in Rated(rung) :
         /\ s.rate \in Int /\ r.rate \in Int /\ s.cap = c /\ r.cap = c /\ W(c) = r.rate - s.rate
  BY PairAtCap
<1>4. \A c \in caps : W(c) \in Int
  <2> HIDE DEF W, caps
  <2> QED BY <1>3
<1> HIDE DEF W, caps, more
<1>5. caps # {} /\ ~(W(first) <= 0)
  <2> HIDE DEF lost, before, first
  <2> QED BY <1>1
<1>6. RungBelow(stock, rung) = IF lost = {} THEN Highest(caps) ELSE before + more
  <2> HIDE DEF lost, before, first
  <2> QED BY <1>1, <1>5
<1>7. first \in caps /\ \A c \in caps : first <= c
  BY <1>2, <1>5, LowestIsThere
<1> HIDE DEF first
<1>8. first \in Int /\ W(first) \in Int /\ W(first) > 0
  BY <1>2, <1>4, <1>5, <1>7
<1>9. first <= RungBelow(stock, rung)
  <2>1. CASE lost = {}
    <3>1. Highest(caps) \in caps
      BY <1>2, <1>5, HighestIsThere
    <3> HIDE DEF lost, before
    <3> QED BY <1>6, <1>7, <2>1, <3>1
  <2>2. CASE lost # {}
    <3>1. lost \in SUBSET Int /\ IsFiniteSet(lost)
      BY <1>2, FS_Subset
    <3>2. at \in lost /\ \A c \in lost : at <= c
      <4> HIDE DEF lost
      <4> QED BY <2>2, <3>1, LowestIsThere
    <3> HIDE DEF at
    <3>3. at \in caps /\ at \in Int /\ W(at) \in Int /\ W(at) <= 0
      BY <1>2, <1>4, <3>2
    <3>4. first < at
      BY <1>7, <1>8, <3>3
    <3>5. first \in early /\ early \in SUBSET Int /\ IsFiniteSet(early)
      BY <1>2, <1>7, <3>4, FS_Subset
    <3>6. before \in early
      <4> HIDE DEF early
      <4> QED BY <3>5, HighestIsThere
    <3> HIDE DEF before
    <3>7. before \in caps /\ before < at /\ before \in Int /\ W(before) \in Int
      BY <1>2, <1>4, <3>6
    <3>8. before \notin lost
      <4> HIDE DEF lost
      <4> QED BY <3>2, <3>3, <3>7
    <3>9. W(before) > 0
      BY <3>7, <3>8
    <3> HIDE DEF lost, early
    <3>10. more \in Int /\ more >= 0
      BY <3>3, <3>7, <3>9, NotBefore DEF more
    <3>11. first <= before
      BY <1>7, <3>7
    <3>12. RungBelow(stock, rung) = before + more
      BY <1>6, <2>2
    <3> QED BY <1>8, <3>7, <3>10, <3>11, <3>12
  <2> QED BY <2>1, <2>2
<1>10. PICK s \in Rated(stock), r \in Rated(rung) :
         /\ s.rate \in Int /\ r.rate \in Int /\ s.cap = first /\ r.cap = first
         /\ W(first) = r.rate - s.rate
  BY <1>3, <1>7
<1>11. r.rate > s.rate
  BY <1>8, <1>10
<1> QED BY <1>9, <1>10, <1>11

(***************************************************************************)
(* The card at hand is a card wherever a sweep or a report works on one.   *)
(***************************************************************************)
WalkPCs == {"pick", "drop", "unpublish", "make", "report", "block", "next"}
IdlePCs == {"pick", "done", "terminated"}

CardInv ==
  /\ card \in 0 .. Cards
  /\ pc \in SweepPCs \cup EndPCs \cup WalkPCs \cup {"probe"}
  /\ pc \notin IdlePCs => card # 0

LEMMA InitCard == Init => CardInv
<1> SUFFICES ASSUME Init PROVE CardInv
  OBVIOUS
<1>1. pos \in 0 .. Cards
  BY TuningAssumption DEF Init, TuningAssumption
<1> QED BY <1>1, TuningAssumption DEF Init, CardInv, WalkPCs, EndPCs, IdlePCs, TuningAssumption

LEMMA NextCardInv == CardInv /\ [Next]_vars => CardInv'
<1> SUFFICES ASSUME CardInv, [Next]_vars PROVE CardInv'
  OBVIOUS
<1> USE TuningAssumption DEF TuningAssumption, CardInv, WalkPCs, EndPCs, IdlePCs, SweepPCs,
        mainVars, Goto
<1>1. CASE UNCHANGED vars
  BY <1>1 DEF vars
<1>2. CASE Walk
  BY <1>2 DEF Walk, PickCard, DropOld, Unpublish, MakeSolver, Benchmark, Block, NextCard
<1>3. CASE Probe
  BY <1>3 DEF Probe, Leave
<1>4. CASE NextArm
  BY <1>4 DEF NextArm
<1>5. CASE PassOver
  BY <1>5 DEF PassOver, NextPass, Begin
<1>6. CASE Measure
  BY <1>6 DEF Measure, SetLimit, LockMemory, Settle, HideSolver, FreeSolver, Rebuild,
              ShowSolver, Window, Result, Fail
<1>7. CASE Conclude \/ Restore
  BY <1>7 DEF Conclude, Restore
<1>8. CASE Interrupt
  BY <1>8 DEF Interrupt
<1> QED BY <1>1, <1>2, <1>3, <1>4, <1>5, <1>6, <1>7, <1>8 DEF Next, Sweep

(***************************************************************************)
(* A swap hides the solver it frees: SwapIsHidden needs that the solver is *)
(* unpublished from before it is freed until its successor is published,   *)
(* and that a sweep begins with a solver.                                  *)
(***************************************************************************)
SwapInv ==
  /\ SwapIsHidden
  /\ pc \in {"probe", "show"} => solver # NoSolver
  /\ pc \in {"free", "build", "show"} => ~live

LEMMA InitSwap == Init => SwapInv
<1> SUFFICES ASSUME Init PROVE SwapInv
  OBVIOUS
<1>1. pc \notin SweepPCs /\ pc # "show"
  BY DEF Init, SweepPCs
<1>2. CASE pc = "probe"
  <2>1. pos # 0 /\ solver = BuiltNow(pos)
    BY <1>2 DEF Init
  <2>2. solver # NoSolver
    BY <2>1 DEF BuiltNow, NoSolver
  <2> QED BY <1>1, <1>2, <2>2 DEF SwapInv, SwapIsHidden, SweepPCs
<1> QED BY <1>1, <1>2 DEF SwapInv, SwapIsHidden, SweepPCs

LEMMA NextSwap == CardInv /\ SwapInv /\ [Next]_vars => SwapInv'
<1> SUFFICES ASSUME CardInv, SwapInv, [Next]_vars PROVE SwapInv'
  OBVIOUS
<1> USE DEF SwapInv, SwapIsHidden, SweepPCs, solverVars, Goto
<1>1. CASE UNCHANGED vars
  BY <1>1 DEF vars
<1>2. CASE Walk
  BY <1>2 DEF Walk, PickCard, DropOld, Unpublish, MakeSolver, Benchmark, Block, NextCard
<1>3. CASE Probe
  BY <1>3 DEF Probe, Leave
<1>4. CASE NextArm
  BY <1>4 DEF NextArm
<1>5. CASE PassOver
  BY <1>5 DEF PassOver, NextPass, Begin
<1>6. CASE Measure
  <2>1. CASE SetLimit \/ LockMemory \/ Settle \/ Window \/ Result
    BY <2>1 DEF SetLimit, LockMemory, Settle, Window, Result, Fail
  <2>2. CASE HideSolver \/ FreeSolver \/ ShowSolver
    BY <2>2 DEF HideSolver, FreeSolver, ShowSolver
  <2>3. CASE Rebuild
    <3>1. card # 0
      BY <2>3 DEF Rebuild, CardInv, IdlePCs
    <3>2. BuiltNow(card) # NoSolver
      BY <3>1 DEF BuiltNow, NoSolver
    <3> QED BY <2>3, <3>2 DEF Rebuild, Fail
  <2> QED BY <1>6, <2>1, <2>2, <2>3 DEF Measure
<1>7. CASE Conclude \/ Restore
  BY <1>7 DEF Conclude, Restore
<1>8. CASE Interrupt
  BY <1>8 DEF Interrupt
<1> QED BY <1>1, <1>2, <1>3, <1>4, <1>5, <1>6, <1>7, <1>8 DEF Next, Sweep

\* Ctrl+C never aborts a solver that is gone: while run_tune swaps solvers, what
\* s_live publishes is there (tune.cpp:201-209, on_measure_signal).
THEOREM SolverOutlivesItsName == Spec => []SwapIsHidden
<1>1. Init => CardInv /\ SwapInv
  BY InitCard, InitSwap
<1>2. CardInv /\ SwapInv /\ [Next]_vars => (CardInv /\ SwapInv)'
  BY NextCardInv, NextSwap
<1>3. SwapInv => SwapIsHidden
  BY DEF SwapInv
<1> QED BY <1>1, <1>2, <1>3, PTL DEF Spec

(***************************************************************************)
(* What is off stock during a sweep: nothing of another card, and of this  *)
(* one the limit, and the memory clock exactly as restore.mem says.  The   *)
(* lock is taken only where the user set none, so taking it off is right.  *)
(***************************************************************************)
LocksRung == mclk # 0 /\ (pc # "arm" \/ todo # {})

StockInv ==
  /\ DOMAIN limit = Card /\ DOMAIN lock = Card
  /\ mem \in BOOLEAN
  /\ pass \notin {"rung", "efficiency"} => mclk = 0
  /\ pc = "lock" => mclk # 0
  /\ CardPutBack
  /\ \A c \in Card : Sweeping(c) /\ ~mem => lock[c] = in.userLock
  /\ pc \notin SweepPCs /\ pc # "terminated" => ~mem
  /\ pc \in SweepPCs /\ (mem \/ LocksRung \/ rungPoints # <<>>) => in.userLock = 0

LEMMA InitStock == Init => StockInv
BY DEF Init, StockInv, CardPutBack, Sweeping, SweepPCs

LEMMA NextStock == StockInv /\ [Next]_vars => StockInv'
<1> SUFFICES ASSUME StockInv, [Next]_vars PROVE StockInv'
  OBVIOUS
<1> USE DEF StockInv, CardPutBack, Sweeping, LocksRung, SweepPCs, cardVars, curveVars,
            passVars, mainVars, Goto
<1>1. CASE UNCHANGED vars
  BY <1>1 DEF vars
<1>2. CASE Walk
  BY <1>2 DEF Walk, PickCard, DropOld, Unpublish, MakeSolver, Benchmark, Block, NextCard
<1>3. CASE Probe
  BY <1>3 DEF Probe, Leave
<1>4. CASE NextArm
  BY <1>4 DEF NextArm
<1>5. CASE PassOver
  <2>1. /\ pc = "arm" /\ ~mem' /\ mem' \in BOOLEAN
        /\ UNCHANGED <<in, card, limit, rungPoints>>
        /\ DOMAIN lock' = Card
        /\ pc' \in {"arm", "conclude"}
        /\ pass' \notin {"rung", "efficiency"} => mclk' = 0
    BY <1>5 DEF PassOver, Unlock, NextPass, Begin
  <2>2. \A c \in Card : lock'[c] = in.userLock
    <3>1. CASE mem
      <4>1. in.userLock = 0 /\ lock' = [lock EXCEPT ![card] = 0]
        BY <1>5, <2>1, <3>1 DEF PassOver, Unlock
      <4> QED BY <2>1, <4>1
    <3>2. CASE ~mem
      <4>1. lock' = lock
        BY <1>5, <3>2 DEF PassOver, Unlock
      <4> QED BY <2>1, <3>2, <4>1
    <3> QED BY <2>1, <3>1, <3>2
  <2>3. LocksRung' => in.userLock = 0
    <3>1. CASE pass \in {"warmup", "coarse", "efficiency"}
      BY <1>5, <3>1 DEF PassOver, NextPass, Begin
    <3>2. CASE pass = "fine"
      BY <1>5, <3>2 DEF PassOver, NextPass, Begin, RungPass
    <3>3. CASE pass = "rung"
      <4>1. CASE OnRung
        <5>1. rungPoints # <<>>
          BY <4>1 DEF OnRung, Rated, PointsOf
        <5> QED BY <2>1, <5>1
      <4>2. CASE ~OnRung
        BY <1>5, <3>3, <4>2 DEF PassOver, NextPass, Begin
      <4> QED BY <4>1, <4>2
    <3>4. CASE pass = "drift"
      BY <1>5, <3>4 DEF PassOver, NextPass
    <3> QED BY <1>5, <3>1, <3>2, <3>3, <3>4 DEF PassOver, NextPass
  <2> QED BY <2>1, <2>2, <2>3
<1>6. CASE Measure
  <2>1. CASE SetLimit
    <3>1. /\ pc \in SweepPCs /\ pc' \in SweepPCs /\ (LocksRung' => LocksRung)
          /\ pc' = "lock" => mclk # 0
          /\ UNCHANGED <<in, card, lock, mem, pass, mclk, rungPoints>>
      BY <2>1 DEF SetLimit, Fail
    <3>2. /\ DOMAIN limit' = Card
          /\ \A c \in Card : c # card => limit'[c] = limit[c]
      BY <2>1 DEF SetLimit
    <3> QED BY <3>1, <3>2
  <2>2. CASE LockMemory
    <3>1. /\ pc \in SweepPCs /\ pc' \in SweepPCs \ {"lock"} /\ LocksRung
          /\ UNCHANGED <<in, card, limit, pass, mclk, rungPoints>>
      BY <2>2 DEF LockMemory
    <3>2. CASE UNCHANGED <<lock, mem>>
      BY <3>1, <3>2
    <3>3. CASE mem' = TRUE /\ lock' = [lock EXCEPT ![card] = mclk]
      BY <3>1, <3>3
    <3> QED BY <2>2, <3>2, <3>3 DEF LockMemory
  <2>3. CASE Settle \/ HideSolver \/ FreeSolver \/ Rebuild \/ ShowSolver \/ Window
    BY <2>3 DEF Settle, HideSolver, FreeSolver, Rebuild, ShowSolver, Window, Fail
  <2>4. CASE Result
    BY <2>4 DEF Result, Fail
  <2> QED BY <1>6, <2>1, <2>2, <2>3, <2>4 DEF Measure
<1>7. CASE Conclude
  BY <1>7 DEF Conclude
<1>8. CASE Restore
  BY <1>8 DEF Restore, Unlock
<1>9. CASE Interrupt
  BY <1>9 DEF Interrupt
<1> QED BY <1>1, <1>2, <1>3, <1>4, <1>5, <1>6, <1>7, <1>8, <1>9 DEF Next, Sweep

\* However a sweep returns, the card has the limit it came with and the memory clock
\* is locked exactly if the user locked it (struct Restore, tune.cpp:165-175, and the
\* resets after the passes).
THEOREM SweepsPutTheCardBack == Spec => []CardPutBack
<1>1. StockInv => CardPutBack
  BY DEF StockInv
<1> QED BY InitStock, NextStock, <1>1, PTL DEF Spec

(***************************************************************************)
(* The caps a sweep visits are finitely many watts.                        *)
(***************************************************************************)
InvocationInv ==
  /\ in.grid \subseteq Nat \ {0} /\ IsFiniteSet(in.grid)
  /\ in.userLock \in Nat
  /\ in.stock \in StockCurves /\ in.rung \in RungCurves

LEMMA RungIsAClock == Rung \in Nat
<1> DEFINE top == Highest(Clocks)
           slow == {c \in Clocks : c < (top * 7) \div 10}
<1>1. slow \subseteq Nat /\ slow \in SUBSET Int /\ IsFiniteSet(slow)
  <2>1. slow \subseteq Clocks /\ Clocks \subseteq Nat /\ IsFiniteSet(Clocks)
    BY TuningAssumption DEF TuningAssumption
  <2> HIDE DEF slow
  <2>2. IsFiniteSet(slow)
    BY <2>1, FS_Subset
  <2>3. slow \subseteq Nat /\ slow \in SUBSET Int
    BY <2>1
  <2> QED BY <2>2, <2>3
<1>2. slow # {} => Highest(slow) \in slow
  BY <1>1, HighestIsThere
<1>3. Rung = IF Clocks = {} \/ slow = {}
             THEN 0
             ELSE IF Highest(slow) >= top \div 5 THEN Highest(slow) ELSE 0
  BY DEF Rung, RungPick
<1> HIDE DEF top, slow
<1> QED BY <1>1, <1>2, <1>3

LEMMA InitInvocation == Init => InvocationInv
BY RungIsAClock, TuningAssumption DEF Init, InvocationInv, TuningAssumption

LEMMA InvocationIsKept == [Next]_vars => UNCHANGED in
BY DEF Next, Walk, Sweep, Measure, PickCard, DropOld, Unpublish, MakeSolver, Benchmark, Block,
       NextCard, Probe, NextArm, PassOver, SetLimit, LockMemory, Settle, HideSolver, FreeSolver,
       Rebuild, ShowSolver, Window, Result, Conclude, Restore, Interrupt, vars

\* A sweep has a grid to visit.
GridInv == pc \in SweepPCs => Grid # {}

LEMMA InitGrid == Init => GridInv
BY DEF Init, GridInv, SweepPCs

LEMMA NextGrid == GridInv /\ [Next]_vars => GridInv'
<1> SUFFICES ASSUME GridInv, [Next]_vars PROVE GridInv'
  OBVIOUS
<1>1. in' = in
  BY InvocationIsKept
<1>2. Grid' = Grid
  BY <1>1 DEF Grid
<1>3. CASE Probe
  <2>1. CASE Cardinality(Grid) < 2
    <3>1. pc' \in {"done", "block"}
      BY <1>3, <2>1 DEF Probe, Leave, Goto
    <3> QED BY <3>1 DEF GridInv, SweepPCs
  <2>2. CASE ~(Cardinality(Grid) < 2)
    <3>1. Grid # {}
      BY <2>2, FS_EmptySet
    <3> QED BY <1>2, <3>1 DEF GridInv
  <2> QED BY <2>1, <2>2
<1>4. CASE ~Probe
  <2>1. pc' \in SweepPCs => pc \in SweepPCs
    BY <1>4 DEF Next, Walk, Sweep, Measure, PickCard, DropOld, Unpublish, MakeSolver,
                Benchmark, Block, NextCard, NextArm, PassOver, NextPass, Begin, SetLimit,
                LockMemory, Settle, HideSolver, FreeSolver, Rebuild, ShowSolver, Window,
                Result, Fail, Conclude, Restore, Interrupt, vars, SweepPCs, Goto
  <2> QED BY <1>2, <2>1 DEF GridInv
<1> QED BY <1>3, <1>4

LEMMA GridIsWatts == InvocationInv => Grid \subseteq Int /\ IsFiniteSet(Grid)
<1> SUFFICES ASSUME InvocationInv PROVE Grid \subseteq Int /\ IsFiniteSet(Grid)
  OBVIOUS
<1> USE TuningAssumption, PowerCurveAssumption DEF TuningAssumption, PowerCurveAssumption
<1> DEFINE top == IF Band.default # 0 THEN Band.default ELSE Band.high
           caps == IF in.grid # {} THEN in.grid ELSE DefaultCaps(Band.low, top)
           f == [c \in caps |-> Clamped(c, Band.low, Band.high)]
<1>1. Band.low \in Nat /\ Band.high \in Nat /\ top \in Nat
  OBVIOUS
<1>2. DefaultCaps(Band.low, top) \subseteq Int /\ IsFiniteSet(DefaultCaps(Band.low, top))
  <2> DEFINE I == 0 .. CoarsePoints - 1
             g == [i \in I |-> Band.low + Rounded((top - Band.low) * i, CoarsePoints - 1)]
  <2> HIDE DEF top
  <2>1. CASE Band.low = 0 \/ top <= Band.low
    BY <2>1, FS_EmptySet DEF DefaultCaps
  <2>2. CASE ~(Band.low = 0 \/ top <= Band.low)
    <3>1. DefaultCaps(Band.low, top) = {g[i] : i \in I}
      BY <2>2 DEF DefaultCaps
    <3>2. \A i \in I : g[i] \in Int
      <4> SUFFICES ASSUME NEW i \in I PROVE g[i] \in Int
        OBVIOUS
      <4>1. (top - Band.low) * i \in Int /\ CoarsePoints - 1 \in Nat \ {0}
        <5>1. i \in Int /\ top - Band.low \in Int
          BY <1>1
        <5> QED BY <5>1
      <4>2. Rounded((top - Band.low) * i, CoarsePoints - 1) \in Int
        BY <4>1, RoundedIsAnInteger
      <4> QED BY <1>1, <4>2
    <3>3. IsFiniteSet(I)
      <4>1. CoarsePoints - 1 \in Int
        OBVIOUS
      <4> QED BY <4>1, FS_Interval
    <3>4. g = [i \in I |-> g[i]]
      OBVIOUS
    <3> HIDE DEF g, I
    <3> QED BY <3>1, <3>2, <3>3, <3>4, ImageIsFinite
  <2> QED BY <2>1, <2>2
<1>3. caps \subseteq Int /\ IsFiniteSet(caps)
  BY <1>2 DEF InvocationInv
<1>4. \A c \in caps : f[c] \in Int
  <2> SUFFICES ASSUME NEW c \in caps PROVE Clamped(c, Band.low, Band.high) \in Int
    OBVIOUS
  <2>1. c \in Int
    BY <1>3
  <2> HIDE DEF caps
  <2> QED BY <1>1, <2>1 DEF Clamped
<1>5. Grid = {f[c] : c \in caps}
  <2>1. {f[c] : c \in caps} = {Clamped(c, Band.low, Band.high) : c \in caps}
    <3> HIDE DEF caps
    <3> QED OBVIOUS
  <2> QED BY <2>1, Zenon DEF Grid
<1>6. f = [c \in caps |-> f[c]]
  OBVIOUS
<1> HIDE DEF f, caps
<1> QED BY <1>3, <1>4, <1>5, <1>6, ImageIsFinite

(***************************************************************************)
(* Types.                                                                  *)
(***************************************************************************)
LEMMA InitType == Init => TypeOK
<1> SUFFICES ASSUME Init PROVE TypeOK
  OBVIOUS
<1> USE TuningAssumption DEF TuningAssumption
<1>1. pos \in 0 .. Cards
  BY DEF Init
<1>2. limit \in [Card -> Int] /\ lock \in [Card -> Nat]
  BY InitInvocation DEF Init, InvocationInv
<1>3. solver \in Built
  <2>1. CASE pos = 0
    BY <2>1 DEF Init, Built, NoSolver
  <2>2. CASE pos # 0
    BY <1>1, <1>2, <2>2 DEF Init, Built, BuiltNow, Card
  <2> QED BY <2>1, <2>2
<1>4. taken \in Point
  BY DEF Init, NoPoint, NoSolver, Point, Built
<1>5. points \in Seq(Point) /\ rungPoints \in Seq(Point) /\ IsFiniteSet(todo) /\ todo \subseteq Int
  BY FS_EmptySet, EmptySeq DEF Init
<1>6. DOMAIN store = Card
  BY DEF Init
<1>7. {live, stop, mem} \subseteq BOOLEAN /\ rc \in {0, 1} /\ reported \subseteq Card
  BY DEF Init
<1>8. CardInv
  BY InitCard
<1>9. mclk \in Nat /\ cap \in Int /\ pass \in Passes
  BY DEF Init, Passes
<1> QED BY <1>1, <1>2, <1>3, <1>4, <1>5, <1>6, <1>7, <1>8, <1>9 DEF TypeOK, CardInv, WalkPCs

LEMMA ChosenCapIsWatts ==
  ASSUME TypeOK, todo # {}
  PROVE  Lowest(todo) \in Int /\ Highest(todo) \in Int
BY LowestIsThere, HighestIsThere DEF TypeOK

LEMMA EfficiencyCapsAreWatts ==
  ASSUME NEW series \in Seq(Point)
  PROVE  EfficiencyCaps(series) \subseteq Int /\ IsFiniteSet(EfficiencyCaps(series))
<1> DEFINE rated == SelectSeq(series, LAMBDA p : p.rate > 0)
           around == MostEfficient(rated).cap
           caps == RefineCaps(series, around, EffBudget)
<1>1. caps \subseteq Int /\ IsFiniteSet(caps)
  <2>1. \A p \in Point : p.cap \in Int
    BY DEF Point
  <2> HIDE DEF around
  <2> QED BY <2>1, RefinedCapsAreWatts
<1>2. EfficiencyCaps(series) \subseteq caps
  BY DEF EfficiencyCaps
<1> HIDE DEF caps
<1> QED BY <1>1, <1>2, FS_Subset

LEMMA UpdateType ==
  ASSUME NEW D, NEW T, NEW f \in [D -> T], NEW x, NEW v \in T
  PROVE  [f EXCEPT ![x] = v] \in [D -> T]
OBVIOUS

LEMMA UnlockType == TypeOK /\ Unlock => lock' \in [Card -> Nat] /\ mem' \in BOOLEAN
<1> SUFFICES ASSUME TypeOK, Unlock PROVE lock' \in [Card -> Nat] /\ mem' \in BOOLEAN
  OBVIOUS
<1>1. mem' \in BOOLEAN
  BY DEF Unlock
<1>2. lock \in [Card -> Nat]
  BY DEF TypeOK
<1>3. lock' = [lock EXCEPT ![card] = 0] \/ lock' = lock
  BY DEF Unlock
<1> QED BY <1>1, <1>2, <1>3

LEMMA NextType ==
  TypeOK /\ CardInv /\ InvocationInv /\ GridInv /\ [Next]_vars => TypeOK'
<1> SUFFICES ASSUME TypeOK, CardInv, InvocationInv, GridInv, [Next]_vars PROVE TypeOK'
  OBVIOUS
<1>a. Unlock => lock' \in [Card -> Nat] /\ mem' \in BOOLEAN
  BY UnlockType
<1>b. limit \in [Card -> Int] /\ lock \in [Card -> Nat]
  BY DEF TypeOK
<1>c. \A c \in Card : BuiltNow(c) \in Built
  BY <1>b DEF BuiltNow, Built, Card
<1>d. NoSolver \in Built /\ NoPoint \in Point
  BY DEF NoSolver, NoPoint, Built, Point
<1> USE TuningAssumption DEF TuningAssumption, TypeOK, mainVars, passVars, curveVars, cardVars,
        solverVars, Goto, SweepPCs, EndPCs
<1>1. CASE UNCHANGED vars
  BY <1>1 DEF vars
<1>4. CASE Walk
  <2>1. CASE MakeSolver
    <3>1. card \in Card
      BY <2>1 DEF MakeSolver, CardInv, IdlePCs, Card
    <3>2. BuiltNow(card) \in Built /\ card \in 0 .. Cards
      BY <1>c, <3>1
    <3>3. solver' \in Built /\ pos' \in 0 .. Cards
      BY <2>1, <3>2 DEF MakeSolver
    <3>4. live' \in BOOLEAN /\ rc' \in {0, 1} /\ pc' \in {"report", "pick"}
      BY <2>1 DEF MakeSolver
    <3> QED BY <2>1, <3>3, <3>4 DEF MakeSolver
  <2>2. CASE Block
    <3>1. card \in Card
      BY <2>2 DEF Block, CardInv, IdlePCs, Card
    <3> QED BY <2>2, <3>1 DEF Block
  <2>3. CASE PickCard
    <3>1. card' \in 0 .. Cards
      BY <2>3 DEF PickCard
    <3> QED BY <2>3, <3>1 DEF PickCard
  <2>4. CASE DropOld \/ Unpublish \/ Benchmark \/ NextCard
    BY <1>d, <2>4 DEF DropOld, Unpublish, Benchmark, NextCard
  <2> QED BY <1>4, <2>1, <2>2, <2>3, <2>4 DEF Walk
<1>5. CASE Probe
  <2>1. CASE UNCHANGED <<passVars, curveVars>>
    BY <1>5, <2>1 DEF Probe, Leave
  <2>2. CASE ~(~in.canWrite \/ Cardinality(Grid) < 2)
    <3>1. todo' \subseteq Int /\ IsFiniteSet(todo')
      <4>1. Grid \in SUBSET Int /\ IsFiniteSet(Grid) /\ Grid # {}
        BY <2>2, GridIsWatts, FS_EmptySet
      <4>2. Highest(Grid) \in Int
        BY <4>1, HighestIsThere
      <4>3. todo' = {Highest(Grid)}
        BY <1>5, <2>2 DEF Probe
      <4> QED BY <4>2, <4>3, FS_Singleton
    <3>2. points' = <<>> /\ rungPoints' = <<>>
      BY <1>5, <2>2 DEF Probe
    <3>3. points' \in Seq(Point) /\ rungPoints' \in Seq(Point)
      BY <3>2, EmptySeq
    <3> QED BY <1>5, <2>2, <3>1, <3>3 DEF Probe, Passes
  <2> QED BY <1>5, <2>1, <2>2 DEF Probe
<1>6. CASE NextArm
  <2>1. cap' \in Int /\ todo' \subseteq todo
    BY <1>6, ChosenCapIsWatts DEF NextArm
  <2>2. IsFiniteSet(todo')
    BY <2>1, FS_Subset
  <2> QED BY <1>6, <2>1, <2>2 DEF NextArm
<1>7. CASE PassOver
  <2>1. todo' \subseteq Int /\ IsFiniteSet(todo')
    <3>1. Grid \in SUBSET Int /\ IsFiniteSet(Grid)
      BY GridIsWatts
    <3>2. CASE pass = "warmup"
      BY <1>7, <3>1, <3>2 DEF PassOver, NextPass, Begin
    <3>3. CASE pass = "coarse"
      <4>1. \A p \in Point : p.cap \in Int
        BY DEF Point
      <4>2. /\ RefineCaps(points, Recommended(points), FineBudget) \subseteq Int
            /\ IsFiniteSet(RefineCaps(points, Recommended(points), FineBudget))
        BY <4>1, RefinedCapsAreWatts
      <4> QED BY <1>7, <3>3, <4>2, FS_EmptySet DEF PassOver, NextPass, Begin
    <3>4. CASE pass = "fine"
      <4>1. todo' \subseteq Grid
        BY <1>7, <3>4 DEF PassOver, NextPass, Begin
      <4> QED BY <3>1, <4>1, FS_Subset
    <3>5. CASE pass = "rung"
      BY <1>7, <3>5, EfficiencyCapsAreWatts DEF PassOver, NextPass, Begin
    <3>6. CASE pass = "efficiency"
      <4>1. todo' = {Highest(Grid)}
        BY <1>7, <3>6 DEF PassOver, NextPass, Begin
      <4>2. Grid # {}
        BY <1>7 DEF PassOver, GridInv
      <4>3. Highest(Grid) \in Int
        BY <3>1, <4>2, HighestIsThere
      <4> QED BY <4>1, <4>3, FS_Singleton
    <3>7. CASE pass = "drift"
      BY <1>7, <3>7 DEF PassOver, NextPass
    <3> QED BY <3>2, <3>3, <3>4, <3>5, <3>6, <3>7 DEF Passes
  <2>2. mclk' \in Nat /\ pass' \in Passes /\ pc' \in {"arm", "conclude"}
    BY <1>7, RungIsAClock DEF PassOver, NextPass, Begin, Passes
  <2>3. lock' \in [Card -> Nat] /\ mem' \in BOOLEAN
    <3>1. Unlock
      BY <1>7 DEF PassOver
    <3> QED BY <1>a, <3>1, Zenon
  <2> QED BY <1>7, <2>1, <2>2, <2>3 DEF PassOver
<1>8. CASE Measure
  <2>0. card \in Card \/ pc \in IdlePCs
    BY DEF CardInv, Card
  <2>1. CASE SetLimit
    BY <2>1 DEF SetLimit, Fail
  <2>2. CASE LockMemory
    <3>1. lock' \in [Card -> Nat]
      <4>1. lock' = lock \/ lock' = [lock EXCEPT ![card] = mclk]
        BY <2>2 DEF LockMemory
      <4>2. lock \in [Card -> Nat] /\ mclk \in Nat
        OBVIOUS
      <4>3. [lock EXCEPT ![card] = mclk] \in [Card -> Nat]
        BY <4>2, UpdateType, Zenon
      <4> QED BY <4>1, <4>2, <4>3, Zenon
    <3>2. mem' \in BOOLEAN /\ taken' \in Point /\ pc' \in {"result", "settle"}
      BY <1>d, <2>2 DEF LockMemory
    <3> QED BY <2>2, <3>1, <3>2 DEF LockMemory
  <2>3. CASE Settle \/ HideSolver \/ FreeSolver \/ ShowSolver
    BY <1>d, <2>3 DEF Settle, HideSolver, FreeSolver, ShowSolver, Fail
  <2>4. CASE Rebuild
    <3>1. pc = "build" /\ card \in Card
      BY <2>0, <2>4 DEF Rebuild, IdlePCs
    <3>2. solver' \in Built
      BY <1>c, <2>4, <3>1 DEF Rebuild
    <3> QED BY <2>4, <3>2 DEF Rebuild, Fail
  <2>5. CASE Window
    <3>1. card \in Card
      BY <2>0, <2>5 DEF Window, IdlePCs
    <3>2. \A curve \in StockCurves \cup RungCurves : Measured(curve) \in [draw : Nat, rate : Nat]
      BY DEF Measured
    <3>3. Reading \in Point
      BY <3>1, <3>2 DEF Reading, Point, WholeWindow, InvocationInv
    <3> QED BY <1>d, <2>5, <3>3 DEF Window
  <2>6. CASE Result
    <3>1. points' \in Seq(Point) /\ rungPoints' \in Seq(Point)
      <4>1. Append(points, taken) \in Seq(Point) /\ Append(rungPoints, taken) \in Seq(Point)
        BY AppendProperties
      <4>2. points' \in {points, Append(points, taken)}
        BY <2>6 DEF Result
      <4>3. rungPoints' \in {rungPoints, Append(rungPoints, taken)}
        BY <2>6 DEF Result
      <4> QED BY <4>1, <4>2, <4>3
    <3>2. todo' \subseteq Int /\ IsFiniteSet(todo')
      <4>1. todo' \in {{}, todo}
        BY <2>6 DEF Result
      <4> QED BY <4>1, FS_EmptySet
    <3> QED BY <2>6, <3>1, <3>2 DEF Result, Fail
  <2> QED BY <1>8, <2>1, <2>2, <2>3, <2>4, <2>5, <2>6 DEF Measure
<1>9. CASE Conclude
  BY <1>9 DEF Conclude
<1>10. CASE Restore
  <2>1. lock' \in [Card -> Nat] /\ mem' \in BOOLEAN
    <3>1. Unlock
      BY <1>10 DEF Restore
    <3> QED BY <1>a, <3>1, Zenon
  <2>2. limit' \in [Card -> Int]
    <3>1. limit' = [limit EXCEPT ![card] = Home] /\ limit \in [Card -> Int] /\ Home \in Int
      BY <1>10 DEF Restore
    <3> QED BY <3>1, Zenon
  <2> QED BY <1>10, <2>1, <2>2 DEF Restore
<1>11. CASE Interrupt
  BY <1>11 DEF Interrupt
<1> QED BY <1>1, <1>4, <1>5, <1>6, <1>7, <1>8, <1>9, <1>10, <1>11 DEF Next, Sweep

(***************************************************************************)
(* Where main() gives no remake the solver of a sweep is the one built for *)
(* its card before the sweep, while the card had its own limit and clock.  *)
(***************************************************************************)
FoundInv ==
  ~Remakes =>
    /\ pc \notin {"hide", "free", "build", "show"}
    /\ solver \in {NoSolver, FoundFor(pos)}
    /\ pc = "report" => pos = card
    /\ pc \in SweepPCs \cup {"probe"} => pos = card /\ solver = FoundFor(card)

LEMMA InitFound == Init => FoundInv
<1> SUFFICES ASSUME Init PROVE FoundInv
  OBVIOUS
<1>1. pos \in {0} \cup Card
  BY TuningAssumption DEF Init, Card, TuningAssumption
<1>2. pos # 0 => BuiltNow(pos) = FoundFor(pos)
  BY <1>1 DEF Init, BuiltNow, FoundFor
<1> QED BY <1>2 DEF Init, FoundInv, SweepPCs

LEMMA NextFound == CardInv /\ StockInv /\ FoundInv /\ [Next]_vars => FoundInv'
<1> SUFFICES ASSUME CardInv, StockInv, FoundInv, [Next]_vars, ~Remakes'
             PROVE  FoundInv'
  BY DEF FoundInv
<1>in. in' = in /\ ~Remakes
  BY InvocationIsKept DEF Remakes
<1>f. \A c : FoundFor(c)' = FoundFor(c)
  BY <1>in DEF FoundFor
<1> USE <1>in, <1>f DEF FoundInv, SweepPCs, mainVars, solverVars, Goto
<1>1. CASE UNCHANGED vars
  BY <1>1 DEF vars
<1>2. CASE PickCard \/ DropOld \/ Unpublish \/ Block \/ NextCard
  BY <1>2 DEF PickCard, DropOld, Unpublish, Block, NextCard
<1>3. CASE MakeSolver
  <2>1. pc = "make" /\ card \in Card
    BY <1>3 DEF MakeSolver, CardInv, IdlePCs, Card
  <2>2. BuiltNow(card) = FoundFor(card)
    BY <2>1 DEF StockInv, CardPutBack, Sweeping, BuiltNow, FoundFor
  <2> QED BY <1>3, <2>2 DEF MakeSolver
<1>4. CASE Benchmark
  BY <1>4 DEF Benchmark
<1>5. CASE Probe
  BY <1>5 DEF Probe, Leave
<1>6. CASE NextArm
  BY <1>6 DEF NextArm
<1>7. CASE PassOver
  BY <1>7 DEF PassOver, NextPass, Begin
<1>8. CASE Measure
  BY <1>8 DEF Measure, SetLimit, LockMemory, Settle, HideSolver, FreeSolver, Rebuild,
              ShowSolver, Window, Result, Fail
<1>9. CASE Conclude \/ Restore
  BY <1>9 DEF Conclude, Restore
<1>10. CASE Interrupt
  BY <1>10 DEF Interrupt
<1> QED BY <1>1, <1>2, <1>3, <1>4, <1>5, <1>6, <1>7, <1>8, <1>9, <1>10 DEF Next, Walk, Sweep

(***************************************************************************)
(* Every point is of the setting it is filed under: what the arm in hand   *)
(* has set so far, and the point it took.                                  *)
(***************************************************************************)
AfterSet == {"lock", "settle", "hide", "free", "build", "show", "window"}
Series == IF mclk = 0 THEN in.userLock ELSE Rung

HonestInv ==
  /\ mclk \in {0, Rung}
  /\ pc \in SweepPCs /\ mclk = 0 => ~mem
  /\ pc \in AfterSet => limit[card] = cap
  /\ pc \in AfterSet \ {"lock"} => lock[card] = Series
  /\ pc \in {"show", "window"} /\ Remakes => solver = BuiltNow(card)
  /\ pc = "result" /\ ~stop /\ mclk = 0 => taken # NoPoint
  /\ pc = "result" /\ ~stop /\ taken # NoPoint => Honest(taken, Series) /\ taken.cap = cap
  /\ PointsAreHonest

LEMMA AppendedPoints ==
  ASSUME NEW curve \in Seq(Point), NEW p \in Point
  PROVE  /\ PointsOf(Append(curve, p)) = PointsOf(curve) \cup {p}
         /\ CapsOf(Append(curve, p)) = CapsOf(curve) \cup {p.cap}
<1>1. Len(curve) \in Nat /\ DOMAIN curve = 1 .. Len(curve)
  BY LenProperties
<1>2. DOMAIN Append(curve, p) = 1 .. Len(curve) + 1
  BY AppendProperties, LenProperties
<1>3. /\ \A i \in 1 .. Len(curve) : Append(curve, p)[i] = curve[i]
      /\ Append(curve, p)[Len(curve) + 1] = p
  BY AppendProperties
<1>4. 1 .. Len(curve) + 1 = (1 .. Len(curve)) \cup {Len(curve) + 1}
  BY <1>1
<1>5. PointsOf(Append(curve, p)) = PointsOf(curve) \cup {p}
  BY <1>1, <1>2, <1>3, <1>4 DEF PointsOf
<1> QED BY <1>5 DEF CapsOf

LEMMA InitHonest == Init => HonestInv
BY DEF Init, HonestInv, PointsAreHonest, SweepPCs, AfterSet

LEMMA NextHonest ==
  TypeOK /\ CardInv /\ StockInv /\ FoundInv /\ HonestInv /\ [Next]_vars => HonestInv'
<1> SUFFICES ASSUME TypeOK, CardInv, StockInv, FoundInv, HonestInv, [Next]_vars
             PROVE  HonestInv'
  OBVIOUS
<1>in. in' = in
  BY InvocationIsKept
<1>c. pc \in SweepPCs => card \in Card /\ card \in DOMAIN limit /\ card \in DOMAIN lock
  BY DEF CardInv, IdlePCs, SweepPCs, Card, StockInv
<1>s. pc \in SweepPCs /\ ~mem => lock[card] = in.userLock
  BY <1>c DEF StockInv, Sweeping
<1> USE <1>in DEF HonestInv, PointsAreHonest, Honest, FoundFor, Remakes, Series, AfterSet, SweepPCs,
        mainVars, passVars, curveVars, cardVars, solverVars, Goto
<1>1. CASE UNCHANGED vars
  BY <1>1 DEF vars, BuiltNow
<1>2. CASE Walk
  BY <1>2 DEF Walk, PickCard, DropOld, Unpublish, MakeSolver, Benchmark, Block, NextCard
<1>3. CASE Probe
  <2>1. CASE ~in.canWrite \/ Cardinality(Grid) < 2
    BY <1>3, <2>1 DEF Probe, Leave
  <2>2. CASE ~(~in.canWrite \/ Cardinality(Grid) < 2)
    <3>1. mclk' = 0 /\ points' = <<>> /\ rungPoints' = <<>> /\ pc' = "arm" /\ ~mem'
      BY <1>3, <2>2 DEF Probe, StockInv
    <3>2. PointsOf(points)' = {} /\ PointsOf(rungPoints)' = {}
      BY <3>1 DEF PointsOf
    <3> QED BY <3>1, <3>2
  <2> QED BY <2>1, <2>2
<1>4. CASE NextArm
  BY <1>4 DEF NextArm
<1>5. CASE PassOver
  <2>1. mclk' \in {0, Rung} /\ ~mem' /\ pc' \in {"arm", "conclude"} /\ pc = "arm"
    BY <1>5 DEF PassOver, Unlock, NextPass, Begin
  <2>2. UNCHANGED <<card, points, rungPoints>>
    BY <1>5 DEF PassOver
  <2> QED BY <2>1, <2>2
<1>6. CASE Measure
  <2>1. CASE SetLimit
    <3>1. CASE cap \in in.refused
      BY <2>1, <3>1 DEF SetLimit, Fail
    <3>2. CASE cap \notin in.refused
      <4>1. /\ limit'[card] = cap /\ pc' = (IF mclk # 0 THEN "lock" ELSE "settle")
            /\ UNCHANGED <<card, lock, mem, mclk, cap, points, rungPoints>> /\ pc = "set"
        BY <1>c, <2>1, <3>2 DEF SetLimit
      <4>2. mclk = 0 => lock[card] = in.userLock
        BY <1>s, <4>1
      <4> QED BY <4>1, <4>2
    <3> QED BY <3>1, <3>2
  <2>2. CASE LockMemory
    <3>1. CASE in.lockRefused
      <4>1. mclk # 0
        BY <2>2 DEF LockMemory, StockInv
      <4> QED BY <2>2, <3>1, <4>1 DEF LockMemory
    <3>2. CASE ~in.lockRefused
      <4>1. /\ lock'[card] = mclk /\ pc' = "settle" /\ mclk # 0 /\ pc = "lock"
            /\ UNCHANGED <<card, limit, mclk, cap, points, rungPoints>>
        BY <1>c, <2>2, <3>2 DEF LockMemory, StockInv
      <4> QED BY <4>1
    <3> QED BY <3>1, <3>2
  <2>3. CASE Settle \/ HideSolver \/ FreeSolver
    BY <2>3 DEF Settle, HideSolver, FreeSolver, Fail
  <2>4. CASE Rebuild
    BY <2>4 DEF Rebuild, Fail, BuiltNow
  <2>5. CASE ShowSolver
    BY <2>5 DEF ShowSolver, BuiltNow
  <2>6. CASE Window
    <3>1. ~stop => Reading # NoPoint /\ Honest(Reading, Series) /\ Reading.cap = cap
      BY <2>6 DEF Window, Reading, WholeWindow, NoPoint, BuiltNow, FoundInv
    <3>2. pc = "window" /\ UNCHANGED <<card, lock, limit, mem, mclk, cap, points, rungPoints, stop>>
      BY <2>6 DEF Window
    <3>3. CASE taken' = Reading /\ pc' = "result"
      BY <3>1, <3>2, <3>3
    <3>4. CASE mclk # 0 /\ taken' = NoPoint /\ pc' = "result"
      BY <3>2, <3>4
    <3>5. CASE pc' = "terminated"
      BY <3>2, <3>5
    <3> QED BY <2>6, <3>3, <3>4, <3>5 DEF Window
  <2>7. CASE Result
    <3>1. /\ pc = "result" /\ pc' \in {"arm", "conclude", "restore"}
          /\ UNCHANGED <<card, mclk, mem>>
      BY <2>7 DEF Result, Fail
    <3>2. CASE stop \/ UNCHANGED curveVars
      BY <2>7, <3>1, <3>2 DEF Result, Fail
    <3>3. CASE ~stop /\ ~UNCHANGED curveVars
      <4>1. /\ taken # NoPoint
            /\ IF mclk = 0
               THEN points' = Append(points, taken) /\ UNCHANGED rungPoints
               ELSE rungPoints' = Append(rungPoints, taken) /\ UNCHANGED points
        BY <2>7, <3>3 DEF Result
      <4>2. Honest(taken, Series)
        BY <3>1, <3>3, <4>1
      <4>3. taken \in Point /\ points \in Seq(Point) /\ rungPoints \in Seq(Point)
        BY DEF TypeOK
      <4>4. CASE mclk = 0
        <5>1. PointsOf(points)' = PointsOf(points) \cup {taken}
          BY <4>1, <4>3, <4>4, AppendedPoints
        <5> QED BY <3>1, <4>1, <4>2, <4>4, <5>1
      <4>5. CASE mclk # 0
        <5>1. PointsOf(rungPoints)' = PointsOf(rungPoints) \cup {taken}
          BY <4>1, <4>3, <4>5, AppendedPoints
        <5> QED BY <3>1, <4>1, <4>2, <4>5, <5>1
      <4> QED BY <4>4, <4>5
    <3> QED BY <3>2, <3>3
  <2> QED BY <1>6, <2>1, <2>2, <2>3, <2>4, <2>5, <2>6, <2>7 DEF Measure
<1>7. CASE Conclude
  BY <1>7 DEF Conclude
<1>8. CASE Restore
  BY <1>8 DEF Restore, Unlock
<1>9. CASE Interrupt
  BY <1>9 DEF Interrupt, BuiltNow
<1> QED BY <1>1, <1>2, <1>3, <1>4, <1>5, <1>6, <1>7, <1>8, <1>9 DEF Next, Sweep

(***************************************************************************)
(* Advice is given after the last pass only, and by then every cap of the  *)
(* grid has its point: a cap of the coarse pass that is no longer to do is *)
(* the one in hand or was measured.                                        *)
(***************************************************************************)
Pending == IF pc = "arm" THEN todo ELSE todo \cup {cap}

BackedInv ==
  /\ pc = "conclude" => pass = "drift"
  /\ pc \in SweepPCs \ {"restore"} /\ pass = "coarse" => Grid \subseteq CapsOf(points) \cup Pending
  /\ pc \in SweepPCs \ {"restore"} /\ pass \notin {"warmup", "coarse"} =>
       Grid \subseteq CapsOf(points)
  /\ \A c \in Card : store[c].points # <<>> => Backed(store[c])

LEMMA VerdictIsBacked ==
  ASSUME TypeOK, Grid \subseteq CapsOf(points), NEW e, e.points = points, e.rung = rungPoints,
         e.recommended = Recommended(points),
         e.below = IF Len(rungPoints) >= 2 THEN RungBelow(points, rungPoints) ELSE 0
  PROVE  Backed(e)
<1>1. \A p \in Point : p.cap \in Int /\ p.rate \in Int
  BY DEF Point
<1>2. points \in Seq(Point) /\ rungPoints \in Seq(Point)
  BY DEF TypeOK
<1>3. \/ e.recommended \in {p.cap : p \in Rated(e.points)}
      \/ e.recommended = 0 /\ Rated(e.points) = {}
  BY <1>1, <1>2, RecommendedIsRated
<1>4. ASSUME e.below # 0
      PROVE  \E s \in Rated(e.points), r \in Rated(e.rung) :
               s.cap = r.cap /\ s.cap <= e.below /\ r.rate > s.rate
  <2>1. e.below = RungBelow(points, rungPoints)
    BY <1>4
  <2>2. \E s \in Rated(points), r \in Rated(rungPoints) :
           s.cap = r.cap /\ s.cap <= RungBelow(points, rungPoints) /\ r.rate > s.rate
    BY <1>1, <1>2, <1>4, <2>1, RungBelowIsBacked
  <2> QED BY <2>1, <2>2
<1> QED BY <1>3, <1>4 DEF Backed

LEMMA InitBacked == Init => BackedInv
<1> SUFFICES ASSUME Init PROVE BackedInv
  OBVIOUS
<1>1. pc \notin SweepPCs
  BY DEF Init, SweepPCs
<1>2. \A c \in Card : store[c].points = <<>>
  BY DEF Init, NoEntry
<1> QED BY <1>1, <1>2 DEF BackedInv, SweepPCs

LEMMA NextBacked ==
  TypeOK /\ CardInv /\ StockInv /\ HonestInv /\ BackedInv /\ [Next]_vars => BackedInv'
<1> SUFFICES ASSUME TypeOK, CardInv, StockInv, HonestInv, BackedInv, [Next]_vars
             PROVE  BackedInv'
  OBVIOUS
<1>g. Grid' = Grid
  BY InvocationIsKept DEF Grid
<1>b. \A e : Backed(e)' = Backed(e)
  BY <1>g DEF Backed
<1>p. pass \in Passes
  BY DEF TypeOK
<1> USE <1>g, <1>p DEF BackedInv, Pending, SweepPCs, Passes, mainVars, passVars, curveVars,
        cardVars, solverVars, Goto
<1>1. CASE UNCHANGED vars
  BY <1>1, <1>b DEF vars
<1>2. CASE Walk
  BY <1>2, <1>b DEF Walk, PickCard, DropOld, Unpublish, MakeSolver, Benchmark, Block, NextCard
<1>3. CASE Probe
  BY <1>3, <1>b DEF Probe, Leave
<1>4. CASE NextArm
  <2>1. Pending' = Pending \/ (cap' \in todo /\ Pending' = todo) \/ Pending' = todo \cup {cap'}
    BY <1>4 DEF NextArm
  <2>2. todo \subseteq Pending'
    BY <1>4 DEF NextArm
  <2> QED BY <1>4, <1>b, <2>2 DEF NextArm
<1>5. CASE PassOver
  <2>1. UNCHANGED <<points, store>> /\ pc = "arm" /\ todo = {}
    BY <1>5 DEF PassOver
  <2>2. \/ pass = "warmup" /\ pass' = "coarse" /\ todo' = Grid /\ pc' = "arm"
        \/ pass = "drift" /\ pass' = pass /\ pc' = "conclude"
        \/ pass \notin {"warmup", "drift"} /\ pass' \notin {"warmup", "coarse"} /\ pc' = "arm"
    BY <1>5 DEF PassOver, NextPass, Begin
  <2> QED BY <1>b, <2>1, <2>2
<1>6. CASE Measure
  <2>1. CASE SetLimit \/ LockMemory \/ Settle \/ HideSolver \/ FreeSolver \/ Rebuild
             \/ ShowSolver \/ Window
    <3>1. /\ UNCHANGED <<points, todo, cap, pass, store>>
          /\ pc \in SweepPCs \ {"arm", "restore"}
          /\ pc' \in (SweepPCs \ {"arm"}) \cup {"terminated"}
          /\ pc' = "conclude" => pass = "drift"
      BY <2>1 DEF SetLimit, LockMemory, Settle, HideSolver, FreeSolver, Rebuild, ShowSolver,
                  Window, Fail
    <3> QED BY <1>b, <3>1
  <2>2. CASE Result
    <3>1. UNCHANGED <<cap, pass, store>> /\ pc = "result"
      BY <2>2 DEF Result
    <3>2. CASE stop
      BY <1>b, <2>2, <3>1, <3>2 DEF Result, Fail
    <3>3. CASE ~stop
      <4>1. pc' = "arm"
        BY <2>2, <3>3 DEF Result
      <4>2. taken \in Point /\ points \in Seq(Point)
        BY DEF TypeOK
      <4>3. CapsOf(points)' = CapsOf(points) \/ CapsOf(points)' = CapsOf(points) \cup {taken.cap}
        <5>1. points' = points \/ points' = Append(points, taken)
          BY <2>2, <3>3 DEF Result
        <5> QED BY <4>2, <5>1, AppendedPoints
      <4>4. CASE pass = "coarse"
        <5>1. mclk = 0 /\ taken # NoPoint /\ taken.cap = cap
          BY <3>1, <3>3, <4>4 DEF StockInv, HonestInv
        <5>2. points' = Append(points, taken) /\ todo' = todo
          BY <2>2, <3>3, <4>4, <5>1 DEF Result
        <5>3. CapsOf(points)' = CapsOf(points) \cup {cap}
          BY <4>2, <5>1, <5>2, AppendedPoints
        <5> QED BY <1>b, <3>1, <4>1, <4>4, <5>2, <5>3
      <4>5. CASE pass # "coarse"
        BY <1>b, <3>1, <4>1, <4>3, <4>5
      <4> QED BY <4>4, <4>5
    <3> QED BY <3>2, <3>3
  <2> QED BY <1>6, <2>1, <2>2 DEF Measure
<1>7. CASE Conclude
  <2>1. Grid \subseteq CapsOf(points) /\ pc' = "restore"
    BY <1>7 DEF Conclude
  <2> DEFINE e == [by |-> "this", points |-> points, rung |-> rungPoints,
                   recommended |-> Recommended(points),
                   below |-> IF Len(rungPoints) >= 2 THEN RungBelow(points, rungPoints) ELSE 0]
  <2>2. store' = store \/ store' = [store EXCEPT ![card] = e]
    BY <1>7 DEF Conclude
  <2>3. Backed(e)
    BY <2>1, VerdictIsBacked
  <2>4. DOMAIN store = Card
    BY DEF TypeOK
  <2> HIDE DEF e
  <2>5. \A c \in Card : store'[c] = store[c] \/ store'[c] = e
    BY <2>2, <2>4
  <2>6. \A c \in Card : (store[c].points # <<>> => Backed(store[c]))'
    <3> SUFFICES ASSUME NEW c \in Card, store[c]'.points # <<>>
                 PROVE  Backed(store[c])'
      OBVIOUS
    <3>1. Backed(store'[c])
      BY <2>3, <2>5
    <3> QED BY <1>g, <3>1 DEF Backed
  <2> QED BY <2>1, <2>6
<1>8. CASE Restore
  BY <1>8, <1>b DEF Restore
<1>9. CASE Interrupt
  BY <1>9, <1>b DEF Interrupt
<1> QED BY <1>1, <1>2, <1>3, <1>4, <1>5, <1>6, <1>7, <1>8, <1>9 DEF Next, Sweep

TuningInv == /\ TypeOK /\ CardInv /\ InvocationInv /\ GridInv
             /\ StockInv /\ FoundInv /\ HonestInv /\ BackedInv

LEMMA InitTuning == Init => TuningInv
BY InitType, InitCard, InitInvocation, InitGrid, InitStock, InitFound, InitHonest,
   InitBacked DEF TuningInv

LEMMA NextTuning == TuningInv /\ [Next]_vars => TuningInv'
<1>1. InvocationInv /\ [Next]_vars => InvocationInv'
  BY InvocationIsKept DEF InvocationInv
<1> QED BY <1>1, NextType, NextCardInv, NextGrid, NextStock, NextFound, NextHonest,
   NextBacked DEF TuningInv

\* Every variable has its type; a solver is built for a card that exists.
THEOREM TypeCorrect == Spec => []TypeOK
<1>1. TuningInv => TypeOK
  BY DEF TuningInv
<1> QED BY InitTuning, NextTuning, <1>1, PTL DEF Spec

\* Whatever was refused, failed or was interrupted, the points of a sweep are of the
\* settings they are filed under, each taken by a solver rebuilt for its setting under
\* --report with CUDA and by the one solver built before the sweep otherwise, and a
\* verdict that reaches tune.json rests on a whole sweep of them (run_tune; "a refusal
\* must not masquerade as 'does not pay'").
THEOREM VerdictsAreMeasured == Spec => []AdviceIsBacked
<1>1. TuningInv => AdviceIsBacked
  BY DEF TuningInv, HonestInv, BackedInv, AdviceIsBacked
<1> QED BY InitTuning, NextTuning, <1>1, PTL DEF Spec
===============================================================================
