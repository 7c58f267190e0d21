-------------------------------- MODULE Tuning --------------------------------
(***************************************************************************)
(* The modes that measure a card by changing it: --tune and --report.      *)
(* src/src/miner/tune.cpp (run_tune), report.cpp (run_report),             *)
(* benchmark.cpp (run_benchmark), and the part of src/src/main.cpp that    *)
(* walks the cards and answers Ctrl+C.                                     *)
(*                                                                         *)
(* The main thread sets a power limit, sometimes locks the memory clock,   *)
(* and measures; Ctrl+C runs its handler between any two of these steps,   *)
(* sets the stop flag and aborts the solver published in s_live.  The      *)
(* program puts the card back however the sweep returns.                   *)
(*                                                                         *)
(* main() gives run_tune a remake only under --report, for a CUDA solver:  *)
(* there the solver is rebuilt against what was just set.  Under --tune,   *)
(* and with OpenCL, the one solver built before measures every point.      *)
(* The CPU reference solver is left out.                                   *)
(*                                                                         *)
(* The driver accepts the limit a card already had (tune_can_write wrote   *)
(* it); any other limit, and the memory-clock lock, it may refuse.  Rates  *)
(* and draws come from example curves, and a point also keeps, as history, *)
(* the settings it was really taken under.                                 *)
(***************************************************************************)
EXTENDS PowerCurve

CONSTANTS
  Cards,       \* number of selected cards, walked in order 1 .. Cards
  Band,        \* the driver's [low, high, default] power limits
  Home,        \* the limit the cards had when the program started
  Clocks,      \* the memory clocks the driver supports
  FineBudget,  \* caps of pass 2, at most (8)
  EffBudget,   \* caps of pass 4, at most (4)
  Grids,       \* the --tune-caps lists to try; {} is the default grid
  StockCurves, \* what a card may measure at stock memory: cap -> [draw, rate]
  RungCurves   \* and with the memory clock locked to the rung

ASSUME TuningAssumption ==
  /\ Cards \in Nat \ {0}
  /\ Band \in [low : Nat, high : Nat, default : Nat]
  /\ Home \in Nat \ {0}
  /\ Clocks \subseteq Nat /\ IsFiniteSet(Clocks)
  /\ {FineBudget, EffBudget} \subseteq Nat \ {0}
  /\ \A grid \in Grids : grid \subseteq Nat \ {0} /\ IsFiniteSet(grid)
  /\ \A curve \in StockCurves \cup RungCurves : \A c \in DOMAIN curve :
       curve[c] \in [draw : Nat, rate : Nat]

Card == 1 .. Cards
NoSolver == [card |-> 0, limit |-> 0, clock |-> 0]
Rung == RungPick(Clocks)

VARIABLES
  in,     \* the invocation and what the machine will allow, fixed at the start
  \* The cards: the power limit, and the locked memory clock (0: not locked).
  limit,
  lock,
  \* main's locals.
  pc,
  card,   \* the card at hand
  pos,    \* solver_positions.front(), 0 when there is none
  solver, \* what the solver was built for and against, or NoSolver
  live,   \* s_live is not null
  stop,
  rc,
  \* run_tune's locals.
  pass,   \* which of its passes run_pass is in
  mclk,   \* the memory clock its arms lock, 0 for stock
  todo,   \* the caps it still has to visit
  cap,
  taken,  \* the point just measured; its cap is 0 when the arm was refused
  mem,    \* restore.mem
  points,
  rungPoints,
  \* What is left behind.
  store,    \* each card's entry in tune.json
  reported  \* the cards whose block was collected

mainVars == <<card, pos, rc, reported>>
passVars == <<pass, mclk, todo, cap>>
curveVars == <<points, rungPoints>>
cardVars == <<limit, lock, mem>>
solverVars == <<solver, live>>
vars == <<in, limit, lock, pc, card, pos, solver, live, stop, rc, pass, mclk, todo, cap,
          taken, mem, points, rungPoints, store, reported>>

SweepPCs == {"arm", "set", "lock", "settle", "hide", "free", "build", "show",
             "window", "result", "conclude", "restore"}
EndPCs == {"done", "terminated"}
Passes == {"warmup", "coarse", "fine", "rung", "efficiency", "drift"}

(***************************************************************************)
(* The choices that need no state: the grid, and which passes run.         *)
(***************************************************************************)
Grid ==
  {Clamped(c, Band.low, Band.high) :
     c \in IF in.grid # {}
           THEN in.grid
           ELSE DefaultCaps(Band.low, IF Band.default # 0 THEN Band.default ELSE Band.high)}
Refines == in.grid = {}
RungPass == in.grid = {} /\ in.userLock = 0
Remakes == in.mode = "report" /\ in.driver = "Cuda"

\* Pass 4 works on the series of the most efficient point, stock memory on a tie.
OnRung ==
  LET WithRate(curve) == SelectSeq(curve, LAMBDA p : p.rate > 0)
  IN /\ Rated(rungPoints) # {}
     /\ \/ Rated(points) = {}
        \/ Beats(MostEfficient(WithRate(rungPoints)), MostEfficient(WithRate(points)))
EfficiencyCaps(series) ==
  LET rated == SelectSeq(series, LAMBDA p : p.rate > 0)
  IN IF ~Refines \/ rated = <<>>
     THEN {}
     ELSE RefineCaps(series, MostEfficient(rated).cap, EffBudget) \ CapsOf(series)

NoPoint == [cap |-> 0, draw |-> 0, rate |-> 0,
            limit |-> 0, clock |-> 0, built |-> NoSolver, whole |-> FALSE]
NoEntry == [by |-> "none", points |-> <<>>, rung |-> <<>>, recommended |-> 0, below |-> 0]
BuiltNow(c) == [card |-> c, limit |-> limit[c], clock |-> lock[c]]

Init ==
  /\ in \in [mode : {"tune", "report"}, driver : {"Cuda", "OpenCL"}, canWrite : BOOLEAN,
             refused : SUBSET {Band.low, Band.high}, lockRefused : BOOLEAN,
             userLock : {0} \cup {c \in {Rung} : c # 0}, grid : Grids,
             stock : StockCurves, rung : RungCurves]
  /\ Home \notin in.refused
  /\ in.mode = "report" => in.grid = {}
  /\ limit = [c \in Card |-> Home]
  /\ lock = [c \in Card |-> in.userLock]
  \* A measuring mode builds for the first selected card alone, which may fail.
  /\ pos \in {0, 1}
  /\ solver = IF pos = 0 THEN NoSolver ELSE BuiltNow(pos)
  /\ live = (pos # 0)
  /\ IF in.mode = "report"
     THEN pc = "pick" /\ card = 0
     ELSE card = pos /\ pc = IF pos = 0 THEN "done" ELSE "probe"
  /\ rc = IF pc = "done" THEN 1 ELSE 0
  /\ stop = FALSE
  /\ pass = "warmup" /\ mclk = 0 /\ todo = {} /\ cap = 0 /\ taken = NoPoint /\ mem = FALSE
  /\ points = <<>> /\ rungPoints = <<>>
  /\ \E by \in {"none", "old", "this"} : store = [c \in Card |-> [NoEntry EXCEPT !.by = by]]
  /\ reported = {}

Goto(next) == pc' = next
Sweeping(c) == pc \in SweepPCs /\ c = card

\* MeasureSignals' handler: a step of its own between two of main's.
Interrupt ==
  /\ pc \notin EndPCs /\ ~stop
  /\ stop' = TRUE
  /\ UNCHANGED <<in, pc, mainVars, passVars, taken, curveVars, cardVars, solverVars, store>>

(***************************************************************************)
(* --report's walk over the cards, and run_report for one of them.         *)
(***************************************************************************)
PickCard ==
  /\ pc = "pick"
  /\ IF card = Cards
     THEN Goto("done") /\ UNCHANGED card
     ELSE /\ card' = card + 1
          /\ Goto(IF pos = card + 1 THEN "report" ELSE "drop")
  /\ UNCHANGED <<in, pos, rc, reported, passVars, taken, curveVars, cardVars, solverVars, stop, store>>

DropOld ==
  /\ pc = "drop"
  /\ solver' = NoSolver
  /\ Goto("unpublish")
  /\ UNCHANGED <<in, mainVars, passVars, taken, curveVars, cardVars, live, stop, store>>

Unpublish ==
  /\ pc = "unpublish"
  /\ live' = FALSE
  /\ Goto("make")
  /\ UNCHANGED <<in, mainVars, passVars, taken, curveVars, cardVars, solver, stop, store>>

MakeSolver ==
  /\ pc = "make"
  /\ \/ /\ solver' = BuiltNow(card)
        /\ pos' = card
        /\ live' = TRUE
        /\ Goto("report")
        /\ UNCHANGED rc
     \/ /\ rc' = 1
        /\ Goto("pick")
        /\ UNCHANGED <<pos, solverVars>>
  /\ UNCHANGED <<in, card, reported, passVars, taken, curveVars, cardVars, stop, store>>

\* The throughput block, which the OpenCL solver may throw out of.
Benchmark ==
  /\ pc = "report"
  /\ IF solver = NoSolver
     THEN rc' = 1 /\ Goto("next")
     ELSE \/ in.driver = "OpenCL" /\ rc' = 1 /\ Goto("next")
          \/ /\ Goto(IF store[card].by # "this" /\ in.canWrite /\ ~stop
                     THEN "probe" ELSE "block")
             /\ UNCHANGED rc
  /\ UNCHANGED <<in, card, pos, reported, passVars, taken, curveVars, cardVars, solverVars, stop, store>>

\* device_facts() is called through the solver whatever the sweep left of it.
Block ==
  /\ pc = "block"
  /\ IF solver = NoSolver
     THEN Goto("terminated") /\ UNCHANGED reported
     ELSE Goto("next") /\ reported' = reported \cup {card}
  /\ UNCHANGED <<in, card, pos, rc, passVars, taken, curveVars, cardVars, solverVars, stop, store>>

NextCard ==
  /\ pc = "next"
  /\ Goto(IF stop THEN "done" ELSE "pick")
  /\ UNCHANGED <<in, mainVars, passVars, taken, curveVars, cardVars, solverVars, stop, store>>

(***************************************************************************)
(* run_tune up to its first point.                                         *)
(***************************************************************************)
Leave(code) ==
  /\ rc' = IF in.mode = "tune" THEN code ELSE rc
  /\ Goto(IF in.mode = "tune" THEN "done" ELSE "block")

Probe ==
  /\ pc = "probe"
  /\ IF ~in.canWrite \/ Cardinality(Grid) < 2
     THEN Leave(1) /\ UNCHANGED <<passVars, curveVars>>
     ELSE /\ pass' = "warmup" /\ mclk' = 0 /\ todo' = {Highest(Grid)}
          /\ points' = <<>> /\ rungPoints' = <<>>
          /\ Goto("arm")
          /\ UNCHANGED <<rc, cap>>
  /\ UNCHANGED <<in, card, pos, reported, taken, cardVars, solverVars, stop, store>>

(***************************************************************************)
(* run_pass, and what follows each of the passes.                          *)
(***************************************************************************)
NextArm ==
  /\ pc = "arm" /\ todo # {}
  /\ cap' = IF pass = "efficiency" THEN Lowest(todo) ELSE Highest(todo)
  /\ todo' = todo \ {cap'}
  /\ Goto("set")
  /\ UNCHANGED <<in, mainVars, pass, mclk, taken, curveVars, cardVars, solverVars, stop, store>>

Unlock == mem' = FALSE /\ lock' = IF mem THEN [lock EXCEPT ![card] = 0] ELSE lock

Begin(next, clock, caps) ==
  /\ pass' = next /\ mclk' = clock /\ todo' = caps
  /\ Goto("arm")

\* The pass in hand has visited its caps: pick those of the one that follows.
NextPass ==
  \/ pass = "warmup" /\ Begin("coarse", 0, Grid)
  \/ /\ pass = "coarse"
     /\ Begin("fine", 0, IF Refines
                         THEN RefineCaps(points, Recommended(points), FineBudget) ELSE {})
  \/ /\ pass = "fine"
     /\ Begin("rung", Rung, IF RungPass /\ Rung # 0
                            THEN {c \in Grid : c <= Recommended(points)} ELSE {})
  \/ /\ pass = "rung"
     /\ IF OnRung
        THEN Begin("efficiency", Rung, EfficiencyCaps(rungPoints))
        ELSE Begin("efficiency", 0, EfficiencyCaps(points))
  \/ pass = "efficiency" /\ Begin("drift", 0, {Highest(Grid)})
  \/ pass = "drift" /\ Goto("conclude") /\ UNCHANGED <<pass, mclk, todo>>

PassOver_FaultStillLocked ==  \* the reset after the rung pass is missing
  /\ pc = "arm" /\ todo = {}
  /\ NextPass
  /\ UNCHANGED <<in, mainVars, cap, taken, curveVars, cardVars, solverVars, stop, store>>

PassOver ==
  /\ pc = "arm" /\ todo = {}
  /\ NextPass
  /\ Unlock
  /\ UNCHANGED <<in, mainVars, cap, taken, curveVars, limit, solverVars, stop, store>>

(***************************************************************************)
(* measure: one point.                                                     *)
(***************************************************************************)
\* measure returned false: the sweep is aborted, except that a drift gauge that
\* failed without Ctrl+C is left out.
Fail ==
  IF pass = "drift" /\ ~stop
  THEN Goto("conclude") /\ UNCHANGED rc
  ELSE Goto("restore") /\ rc' = IF in.mode = "tune" THEN 1 ELSE rc

SetLimit ==
  /\ pc = "set"
  /\ IF cap \in in.refused
     THEN Fail /\ UNCHANGED limit
     ELSE /\ limit' = [limit EXCEPT ![card] = cap]
          /\ Goto(IF mclk # 0 THEN "lock" ELSE "settle")
          /\ UNCHANGED rc
  /\ UNCHANGED <<in, card, pos, reported, passVars, taken, curveVars, lock, mem, solverVars, stop, store>>

LockMemory ==
  /\ pc = "lock"
  /\ IF in.lockRefused
     THEN taken' = NoPoint /\ Goto("result") /\ UNCHANGED <<lock, mem>>
     ELSE /\ lock' = [lock EXCEPT ![card] = mclk]
          /\ mem' = TRUE
          /\ Goto("settle")
          /\ UNCHANGED taken
  /\ UNCHANGED <<in, mainVars, passVars, curveVars, limit, solverVars, stop, store>>

Settle ==
  /\ pc = "settle"
  /\ IF stop
     THEN Fail
     ELSE Goto(IF Remakes THEN "hide" ELSE "window") /\ UNCHANGED rc
  /\ UNCHANGED <<in, card, pos, reported, passVars, taken, curveVars, cardVars, solverVars, stop, store>>

HideSolver_FaultLeftPublished ==  \* s_live still points to the solver being freed
  /\ pc = "hide"
  /\ Goto("free")
  /\ UNCHANGED <<in, mainVars, passVars, taken, curveVars, cardVars, solverVars, stop, store>>

HideSolver ==
  /\ pc = "hide"
  /\ live' = FALSE
  /\ Goto("free")
  /\ UNCHANGED <<in, mainVars, passVars, taken, curveVars, cardVars, solver, stop, store>>

FreeSolver ==
  /\ pc = "free"
  /\ solver' = NoSolver
  /\ Goto("build")
  /\ UNCHANGED <<in, mainVars, passVars, taken, curveVars, cardVars, live, stop, store>>

Rebuild ==
  /\ pc = "build"
  /\ \/ solver' = BuiltNow(card) /\ Goto("show") /\ UNCHANGED rc
     \/ Fail /\ UNCHANGED solver
  /\ UNCHANGED <<in, card, pos, reported, passVars, taken, curveVars, cardVars, live, stop, store>>

ShowSolver ==
  /\ pc = "show"
  /\ live' = TRUE
  /\ Goto("window")
  /\ UNCHANGED <<in, mainVars, passVars, taken, curveVars, cardVars, solver, stop, store>>

\* run_benchmark leaves its loop at the deadline, or early when the flag is up.
WholeWindow == ~stop
Measured(curve) == IF cap \in DOMAIN curve THEN curve[cap] ELSE [draw |-> 0, rate |-> 0]
Reading ==
  LET m == Measured(IF mclk = 0 THEN in.stock ELSE in.rung)
  IN [cap |-> cap, draw |-> m.draw, rate |-> m.rate,
      limit |-> limit[card], clock |-> lock[card], built |-> solver, whole |-> WholeWindow]

\* The clock of a locked arm may not have held; then the arm is refused.  The OpenCL
\* solver may throw, and nothing catches.
Window ==
  /\ pc = "window"
  /\ \/ taken' = Reading /\ Goto("result")
     \/ mclk # 0 /\ taken' = NoPoint /\ Goto("result")
     \/ in.driver = "OpenCL" /\ Goto("terminated") /\ UNCHANGED taken
  /\ UNCHANGED <<in, mainVars, passVars, curveVars, cardVars, solverVars, stop, store>>

\* What run_pass does with what measure returned.
Result ==
  /\ pc = "result"
  /\ IF stop
     THEN Fail /\ UNCHANGED <<todo, curveVars>>
     ELSE /\ Goto("arm")
          /\ todo' = IF taken = NoPoint /\ ~mem THEN {} ELSE todo
          /\ IF taken = NoPoint \/ pass \in {"warmup", "drift"}
             THEN UNCHANGED curveVars
             ELSE IF mclk = 0
                  THEN points' = Append(points, taken) /\ UNCHANGED rungPoints
                  ELSE rungPoints' = Append(rungPoints, taken) /\ UNCHANGED points
          /\ UNCHANGED rc
  /\ UNCHANGED <<in, card, pos, reported, pass, mclk, cap, taken, cardVars, solverVars, stop, store>>

(***************************************************************************)
(* The verdict, the store and the destructor that puts the card back.      *)
(***************************************************************************)
Conclude ==
  /\ pc = "conclude"
  /\ \/ store' = [store EXCEPT ![card] =
                    [by |-> "this", points |-> points, rung |-> rungPoints,
                     recommended |-> Recommended(points),
                     below |-> IF Len(rungPoints) >= 2
                               THEN RungBelow(points, rungPoints) ELSE 0]]
     \/ UNCHANGED store  \* the file could not be written
  /\ Goto("restore")
  /\ UNCHANGED <<in, mainVars, passVars, taken, curveVars, cardVars, solverVars, stop>>

Restore_FaultDefault ==  \* the card's default instead of the limit it had
  /\ pc = "restore"
  /\ Unlock
  /\ limit' = [limit EXCEPT ![card] = Band.default]
  /\ Goto(IF in.mode = "tune" THEN "done" ELSE "block")
  /\ UNCHANGED <<in, mainVars, passVars, taken, curveVars, solverVars, stop, store>>

Restore ==
  /\ pc = "restore"
  /\ Unlock
  /\ limit' = [limit EXCEPT ![card] = Home]
  /\ Goto(IF in.mode = "tune" THEN "done" ELSE "block")
  /\ UNCHANGED <<in, mainVars, passVars, taken, curveVars, solverVars, stop, store>>

Walk == PickCard \/ DropOld \/ Unpublish \/ MakeSolver \/ Benchmark \/ Block \/ NextCard
Measure == SetLimit \/ LockMemory \/ Settle \/ HideSolver \/ FreeSolver \/ Rebuild
           \/ ShowSolver \/ Window \/ Result
Sweep == Probe \/ NextArm \/ PassOver \/ Measure \/ Conclude \/ Restore
Next == Walk \/ Sweep \/ Interrupt
Spec == Init /\ [][Next]_vars

(***************************************************************************)
(* Properties.                                                             *)
(***************************************************************************)
Built == [card : Nat, limit : Int, clock : Nat]
Point == [cap : Int, draw : Nat, rate : Nat,
          limit : Int, clock : Nat, built : Built, whole : BOOLEAN]
TypeOK ==
  /\ limit \in [Card -> Int]
  /\ lock \in [Card -> Nat]
  /\ solver \in Built
  /\ mclk \in Nat /\ cap \in Int /\ taken \in Point
  /\ todo \subseteq Int /\ IsFiniteSet(todo)
  /\ points \in Seq(Point) /\ rungPoints \in Seq(Point)
  /\ DOMAIN store = Card
  /\ pc \in SweepPCs \cup EndPCs
            \cup {"pick", "drop", "unpublish", "make", "report", "probe", "block", "next"}
  /\ card \in 0 .. Cards /\ pos \in 0 .. Cards
  /\ {live, stop, mem} \subseteq BOOLEAN
  /\ rc \in {0, 1}
  /\ pass \in Passes
  /\ reported \subseteq Card

\* A card that no sweep is in has its own limit back, and its memory clock is locked
\* exactly if the user locked it, whichever step the sweep was left from (Restore's
\* destructor and the resets after the passes).  A process that is gone restores
\* nothing.
CardPutBack ==
  \A c \in Card :
    ~Sweeping(c) /\ pc # "terminated" => limit[c] = Home /\ lock[c] = in.userLock

\* A point is of the setting it is filed under: taken over a whole window, at that
\* limit, at stock memory or on the rung (measure, run_pass; "a refusal must not
\* masquerade as 'does not pay'").  The solver that took it was rebuilt against both
\* where main() gives a remake; under --tune, and with OpenCL, it is for every point
\* the one built before the sweep, sized for the limit and the clock the card had.
FoundFor(c) == [card |-> c, limit |-> Home, clock |-> in.userLock]
Honest(p, clock) ==
  /\ p.whole /\ p.limit = p.cap /\ p.clock = clock
  /\ p.built = IF Remakes THEN [card |-> card, limit |-> p.cap, clock |-> clock]
               ELSE FoundFor(card)
PointsAreHonest ==
  pc \in SweepPCs =>
    /\ \A p \in PointsOf(points) : Honest(p, in.userLock)
    /\ \A p \in PointsOf(rungPoints) : Honest(p, Rung)

\* What is stored for --pl auto rests on a complete sweep of such points: every cap of
\* the grid was measured, the recommended cap was, with a rate, and the rung is only
\* advised up to a cap no lower than one where it beat stock memory.  It does not say
\* that the miner would run each cap with the solver that measured it: under --tune
\* it would not.
Backed(e) ==
  /\ Grid \subseteq CapsOf(e.points)
  /\ \/ e.recommended \in {p.cap : p \in Rated(e.points)}
     \/ e.recommended = 0 /\ Rated(e.points) = {}
  /\ e.below # 0 =>
       \E s \in Rated(e.points), r \in Rated(e.rung) :
         s.cap = r.cap /\ s.cap <= e.below /\ r.rate > s.rate
AdviceIsBacked ==
  /\ PointsAreHonest
  /\ \A c \in Card : store[c].points # <<>> => Backed(store[c])

\* While a sweep of --report swaps solvers the one it frees is not published: Ctrl+C
\* never aborts a solver that is gone (TuneConfig::live, "null while a swap is in
\* flight").  Between two cards main() frees the solver first: that is not a sweep.
SwapIsHidden == pc \in SweepPCs /\ live => solver # NoSolver

===============================================================================
