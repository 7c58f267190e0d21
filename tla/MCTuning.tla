------------------------------- MODULE MCTuning -------------------------------
(* Instances of Tuning for TLC: two cards, a 100-150 W band whose default is    *)
(* 140 W, cards the user capped at 130 W, and curves that make every pass run.  *)
EXTENDS Tuning, TLC

MCBand == [low |-> 100, high |-> 150, default |-> 140]
MCGain == <<1, 10>>
MCGrids == {{}, {110, 200}}
MCClocks == {105, 50, 4}

Curve(Rate(_), Draw(_)) == [c \in 100 .. 150 |-> [draw |-> Draw(c), rate |-> Rate(c)]]
Unknown(c) == 0
Concave(c) == IF c <= 120 THEN 20 + (c - 100) \div 5 ELSE 24
Steady(c) == 30 + ((c - 100) * 3) \div 20
FailsAbove(c) == IF c < 140 THEN 15 + (c - 100) \div 5 ELSE 0
UnderLimit(c) == IF c > 120 THEN 120 ELSE c
PaysLow(c) == IF c <= 110 THEN 26 ELSE 15
NeverPays(c) == 1

MCStockCurves ==
  {Curve(Concave, Unknown), Curve(Steady, Unknown), Curve(FailsAbove, UnderLimit)}
MCRungCurves == {Curve(PaysLow, Unknown), Curve(NeverPays, Unknown)}
===============================================================================
