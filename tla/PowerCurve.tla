------------------------------ MODULE PowerCurve ------------------------------
(***************************************************************************)
(* The pure half of --tune, src/src/miner/tune.h: which caps a sweep       *)
(* visits and what it concludes from the points it took.  A point is a     *)
(* record with the cap it was taken at, the mean draw (0 when the card     *)
(* reports none), the rate and the median time; a curve is a sequence of   *)
(* points in the order they were taken.                                    *)
(***************************************************************************)
EXTENDS Integers, Sequences, FiniteSets

CONSTANTS
  CoarsePoints, \* kPoints: caps across the driver's band (6)
  FineStep,     \* watts between the caps of a refining pass (10)
  WidenBy,      \* watts that step grows by until the pass fits its budget (5)
  Gain          \* min_gain, as <<n, d>>: n units of rate for d watts

ASSUME PowerCurveAssumption ==
  /\ CoarsePoints \in Nat \ {0, 1}
  /\ FineStep \in Nat \ {0}
  /\ WidenBy \in Nat \ {0}
  /\ Gain \in Nat \X (Nat \ {0})

Highest(S) == CHOOSE x \in S : \A y \in S : y <= x
Lowest(S) == CHOOSE x \in S : \A y \in S : x <= y
PointsOf(curve) == {curve[i] : i \in DOMAIN curve}
CapsOf(curve) == {p.cap : p \in PointsOf(curve)}
Rated(curve) == {p \in PointsOf(curve) : p.rate > 0}

\* std::lround of a / b, for a >= 0 and b > 0.
Rounded(a, b) == (2 * a + b) \div (2 * b)

DefaultCaps(low, default) ==
  IF low = 0 \/ default <= low
  THEN {}
  ELSE {low + Rounded((default - low) * i, CoarsePoints - 1) : i \in 0 .. CoarsePoints - 1}

\* caps[i] after the driver's band; a bound of 0 is one the driver does not give.
Clamped(cap, low, high) ==
  LET raised == IF low # 0 /\ cap < low THEN low ELSE cap
  IN IF high # 0 /\ raised > high THEN high ELSE raised

Watts(p) == IF p.draw > 0 THEN p.draw ELSE p.cap

\* a's rate per watt is above b's.
Beats(a, b) == a.rate * Watts(b) > b.rate * Watts(a)

\* The cap up to which every step of the curve pays for its watts: 0 when no point
\* has a rate.
Recommended(curve) ==
  LET good == Rated(curve)
      caps == {p.cap : p \in good}
      Rate(c) == (CHOOSE p \in good : p.cap = c).rate
      Below(c) == Highest({b \in caps : b < c})
      Pays(c) == (Rate(c) - Rate(Below(c))) * Gain[2] >= Gain[1] * (c - Below(c))
  IN IF good = {}
     THEN 0
     ELSE Highest({c \in caps : \A b \in caps : b <= c => b = Lowest(caps) \/ Pays(b)})

\* At most `most` caps inside the two intervals that touch `around`.
RefineCaps(curve, around, most) ==
  LET caps == CapsOf(curve)
      below == {c \in caps : c < around}
      above == {c \in caps : c > around}
      low == IF below = {} THEN around ELSE Highest(below)
      high == IF above = {} THEN around ELSE Lowest(above)
      Inside(step) == {c \in low + 1 .. high - 1 : c # around /\ (c - low) % step = 0}
      steps == {FineStep + WidenBy * k : k \in 0 .. high - low}
  IN IF around \notin caps
     THEN {}
     ELSE Inside(Lowest({s \in steps : Cardinality(Inside(s)) <= most}))

\* The memory clock worth a pass: the fastest below 70% of the top one, unless it is
\* an idle clock; 0 when there is none.
RungPick(clocks) ==
  LET top == Highest(clocks)
      slow == {c \in clocks : c < (top * 7) \div 10}
  IN IF clocks = {} \/ slow = {}
     THEN 0
     ELSE IF Highest(slow) >= top \div 5 THEN Highest(slow) ELSE 0

RungBelow_FaultUnpaired(stock, rung) ==  \* the rung's rates are not held against stock's
  IF Rated(rung) = {} THEN 0 ELSE Highest({p.cap : p \in Rated(rung)})

\* The pairs of rated points at one cap, and what the rung wins at it.
Pairs(stock, rung) == {pr \in Rated(stock) \X Rated(rung) : pr[1].cap = pr[2].cap}
PairedCaps(stock, rung) == {pr[1].cap : pr \in Pairs(stock, rung)}
Won(stock, rung, c) ==
  LET pr == CHOOSE pr \in Pairs(stock, rung) : pr[1].cap = c IN pr[2].rate - pr[1].rate

\* The cap below which the rung beat stock memory, by interpolating the paired
\* points; 0 when it did not pay even at the lowest of them.
RungBelow(stock, rung) ==
  LET caps == PairedCaps(stock, rung)
      lost == {c \in caps : Won(stock, rung, c) <= 0}
      at == Lowest(lost)
      before == Highest({c \in caps : c < at})
      gain == Won(stock, rung, before)
  IN IF caps = {} \/ Won(stock, rung, Lowest(caps)) <= 0
     THEN 0
     ELSE IF lost = {}
          THEN Highest(caps)
          ELSE before + Rounded(gain * (at - before), gain - Won(stock, rung, at))

\* The earliest of the points with the best rate per watt (the sweep's own search,
\* in the order the points were taken); meant for a curve with a rate on it.
MostEfficient(curve) ==
  LET best == {i \in DOMAIN curve : \A k \in DOMAIN curve : ~Beats(curve[k], curve[i])}
  IN curve[Lowest(best)]
===============================================================================
