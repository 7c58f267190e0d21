----------------------------- MODULE FeeAccount -----------------------------
(***************************************************************************)
(* What the developer fee promises, seen as an account: while no round is  *)
(* running, mined time adds debt at the stated rate; a round may begin     *)
(* only when a whole round is owed; ending it takes off the time it spent, *)
(* never leaving the debt negative.  Pools, sockets, engines and threads   *)
(* do not appear.  DevFee is shown to implement this specification.        *)
(***************************************************************************)
EXTENDS Integers

CONSTANTS
  Rate,       \* debt units per second mined
  Unit,       \* debt units per second of a round: rate = Rate / Unit
  SliceSecs,  \* length of a round in seconds: DevFeeSchedule::slice()
  MaxTick,    \* the longest tick that is credited as measured
  MaxOverrun  \* bound: seconds a round may run past its length

VARIABLES
  inRound,  \* a fee round is running
  debt,     \* owed to the developer, in units
  credit    \* Rate * seconds credited - Unit * seconds spent in rounds

account == <<inRound, debt, credit>>

Init ==
  /\ ~inRound
  /\ debt = 0
  /\ credit = 0

Earn ==
  /\ ~inRound
  /\ \E secs \in 1 .. MaxTick :
       /\ debt' = debt + Rate * secs
       /\ credit' = credit + Rate * secs
  /\ UNCHANGED inRound

BeginRound ==
  /\ ~inRound
  /\ debt >= SliceSecs * Unit
  /\ inRound' = TRUE
  /\ UNCHANGED <<debt, credit>>

EndRound ==
  /\ inRound
  /\ \E secs \in 0 .. SliceSecs + MaxOverrun :
       /\ debt' = IF secs * Unit < debt THEN debt - secs * Unit ELSE 0
       /\ credit' = credit - secs * Unit
  /\ inRound' = FALSE

Next == Earn \/ BeginRound \/ EndRound

Spec == Init /\ [][Next]_account
=============================================================================
