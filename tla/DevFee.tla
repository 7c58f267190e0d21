------------------------------- MODULE DevFee -------------------------------
(***************************************************************************)
(* The developer fee: src/src/miner/devfee.cpp, wired up in main.cpp.      *)
(*                                                                         *)
(* Two connections, the user's (Main) and the developer's (Dev), both keep *)
(* offering jobs to the JobRouter, which hands the engines only those of   *)
(* the active origin.  A scheduler thread accrues fee debt once a second   *)
(* while the user's pool has work and a device is solving, and switches    *)
(* the router to Dev for one round when a whole round is owed.             *)
(*                                                                         *)
(* The router's mutex is held across its dispatch loop, so a call that     *)
(* dispatches is modelled as taking the mutex (dispatch # Idle), one       *)
(* Deliver step per engine, and releasing it; a call that does not is one  *)
(* step.  The scheduler's reads of the router and of the statistics are    *)
(* steps of their own: everything else may run between them.               *)
(*                                                                         *)
(* Time is counted in seconds; debt in integer units, Rate of them per     *)
(* second mined and Unit per second of a round (1% : Rate = 1, Unit =      *)
(* 100).  A job stands for the job and the nonce prefix offered with it.   *)
(***************************************************************************)
EXTENDS Integers

CONSTANTS
  Jobs,        \* jobs a pool may send
  Engines,     \* number of engines in the dispatch loop
  Rate, Unit,  \* the fee: Rate / Unit of mining time
  SliceSecs,   \* DevFeeSchedule::slice()
  MaxAge,      \* kDevJobMaxAge
  Grace,       \* kSolveGrace
  MaxOverrun,  \* bound: seconds the scheduler may be late in ending a round
  MaxLate,     \* bound: seconds of lateness over all rounds
  MaxDebt      \* bound: debt past which no further time is credited

ASSUME DevFeeAssumption ==
  /\ Engines \in Nat \ {0}
  /\ Rate \in Nat \ {0}
  /\ Unit \in Nat \ {0}
  /\ SliceSecs \in Nat \ {0}
  /\ MaxAge \in Nat
  /\ Grace \in Nat
  /\ MaxOverrun \in Nat
  /\ MaxLate \in Nat
  /\ MaxDebt \in Nat

Main == "Main"
Dev == "Dev"
Origins == {Main, Dev}
Entry == [job : Jobs, origin : Origins]
NoEntry == [none |-> TRUE]
Idle == [none |-> TRUE]   \* no dispatch running: the router's mutex is free

\* scheduler_main's 2 * kTick: a longer tick counts as one second.
MaxTick == 2

VARIABLES
  slot,      \* main_, dev_: the cached entry, NoEntry when ~present
  devAge,    \* seconds since dev_.at, counted up to MaxAge + 1
  active,    \* active_
  dispatch,  \* Idle, or the call holding the mutex: who, the entry, the next engine
  holding,   \* what each engine was last given
  pc,        \* where the scheduler thread is
  sinceLast, \* seconds since scheduler_main's `last`, counted up to MaxTick + 1
  dt,        \* the tick being looked at, 1 when there is none
  quiet,     \* seconds since the last solve attempt, counted up to Grace + 1
  elapsed,   \* seconds since run_slice's t0, 0 outside a round
  debt,      \* FeeAccrual::debt_s_
  stop       \* stop_

\* History: what the rate entitles to less what rounds took, and how late they ended.
VARIABLES credit, late

\* History of the seconds that were charged, for ChargesEndWithTheWork.
VARIABLES
  idle,      \* seconds charged since the last solve attempt
  gap,       \* since `last` the engines have at some time not been the user's
  tickGap,   \* gap as the tick being looked at found it
  unserved   \* seconds of such ticks charged since they last ceased to be

routerVars == <<slot, devAge, active, dispatch, holding>>
clockVars == <<sinceLast, dt, quiet, elapsed>>
feeVars == <<debt, credit, late>>
chargeVars == <<idle, gap, tickGap, unserved>>
accountVars == <<debt, credit, late, idle, gap, tickGap, unserved>>
vars == <<slot, devAge, active, dispatch, holding, pc, sinceLast, dt, quiet, elapsed,
          debt, stop, credit, late, idle, gap, tickGap, unserved>>

PCs == {"wait", "hasMain", "attempted", "fresh", "toDev", "slice", "toMain",
        "settle", "again", "off"}

\* The stretch of run_slice() between its two readings of the clock.
RoundPCs == {"toDev", "slice", "toMain", "settle"}

ChargesTypeOK ==
  /\ idle \in Nat /\ unserved \in Nat
  /\ gap \in BOOLEAN /\ tickGap \in BOOLEAN

TypeOK ==
  /\ slot \in [Origins -> Entry \cup {NoEntry}]
  /\ devAge \in 0 .. MaxAge + 1
  /\ active \in Origins
  /\ dispatch \in [by : {"pool", "sched"}, entry : Entry, next : 1 .. Engines] \cup {Idle}
  /\ holding \in [1 .. Engines -> Entry \cup {NoEntry}]
  /\ pc \in PCs
  /\ sinceLast \in 0 .. MaxTick + 1
  /\ dt \in 1 .. MaxTick
  /\ quiet \in 0 .. Grace + 1
  /\ elapsed \in 0 .. SliceSecs + MaxOverrun
  /\ debt \in Nat
  /\ stop \in BOOLEAN
  /\ credit \in Int
  /\ late \in Nat
  /\ ChargesTypeOK

Init ==
  /\ slot = [o \in Origins |-> NoEntry]
  /\ devAge = MaxAge + 1
  /\ active = Main
  /\ dispatch = Idle
  /\ holding = [e \in 1 .. Engines |-> NoEntry]
  /\ pc = "wait"
  /\ sinceLast = 0
  /\ dt = 1
  /\ quiet = Grace + 1
  /\ elapsed = 0
  /\ debt = 0
  /\ stop = FALSE
  /\ credit = 0
  /\ late = 0
  /\ idle = 0
  /\ gap = TRUE
  /\ tickGap = FALSE
  /\ unserved = 0
-----------------------------------------------------------------------------
(* The router.  An operator whose name ends in _Fault and a word is the one   *)
(* below it with a plausible mistake; no action uses it.                   *)

RouterFree == dispatch = Idle

\* JobRouter::offer, from that connection's on_job callback: only the active
\* origin's offers are handed on.
Offer(o, job) ==
  LET entry == [job |-> job, origin |-> o] IN
  /\ RouterFree
  /\ slot' = [slot EXCEPT ![o] = entry]
  /\ devAge' = IF o = Dev THEN 0 ELSE devAge
  /\ dispatch' = IF o = active
                 THEN [by |-> "pool", entry |-> entry, next |-> 1] ELSE Idle
  /\ UNCHANGED <<active, holding, pc, clockVars, accountVars, stop>>

\* The engines cease to be the user's: the pool's slot is emptied or a round begins.
\* What is charged from here on is counted anew; a tick that ended before is not of it.
ServiceEnds ==
  /\ gap' = TRUE
  /\ tickGap' = FALSE
  /\ unserved' = 0
  /\ UNCHANGED idle

\* JobRouter::clear, from that connection's on_disconnect callback.
Clear(o) ==
  /\ RouterFree
  /\ slot[o] # NoEntry
  /\ slot' = [slot EXCEPT ![o] = NoEntry]
  /\ IF o = Main THEN ServiceEnds ELSE UNCHANGED chargeVars
  /\ UNCHANGED <<devAge, active, dispatch, holding, pc, clockVars, feeVars, stop>>

\* One turn of the dispatch loop: Engine::on_job; the last one frees the mutex.
Deliver ==
  /\ ~RouterFree
  /\ holding' = [holding EXCEPT ![dispatch.next] = dispatch.entry]
  /\ dispatch' = IF dispatch.next < Engines
                 THEN [dispatch EXCEPT !.next = @ + 1] ELSE Idle
  /\ UNCHANGED <<slot, devAge, active, pc, clockVars, accountVars, stop>>

Redispatch_FaultOnlyDev(o) ==
  IF o = Dev /\ slot[o] # NoEntry
  THEN [by |-> "sched", entry |-> slot[o], next |-> 1] ELSE Idle

\* set_active() hands the engines the cached entry of the new origin, if any.
Redispatch(o) ==
  IF slot[o] # NoEntry
  THEN [by |-> "sched", entry |-> slot[o], next |-> 1] ELSE Idle

\* JobRouter::set_active, called by the scheduler alone.
SetActive(o) ==
  /\ RouterFree
  /\ IF o = active THEN UNCHANGED <<active, dispatch>>
     ELSE /\ active' = o
          /\ dispatch' = Redispatch(o)
  /\ UNCHANGED <<slot, devAge, holding>>

HasJob_FaultAlways(o) == TRUE

HasJob(o) == slot[o] # NoEntry

Fresh_FaultStrict == slot[Dev] # NoEntry /\ devAge < MaxAge

Fresh == slot[Dev] # NoEntry /\ devAge <= MaxAge
-----------------------------------------------------------------------------
(* FeeAccrual.                                                             *)

SliceDue_FaultOneShort(owed) == owed + Rate >= SliceSecs * Unit

SliceDue(owed) == owed >= SliceSecs * Unit

\* Settles the round's nominal length whatever it took.
Settled_FaultNominal(owed, secs) ==
  IF owed > SliceSecs * Unit THEN owed - SliceSecs * Unit ELSE 0

Settled(owed, secs) == IF owed > secs * Unit THEN owed - secs * Unit ELSE 0
-----------------------------------------------------------------------------
(* The scheduler thread.                                                   *)

Goto(next) == pc' = next

\* The scheduler is still inside a router call that dispatches.
Calling == ~RouterFree /\ dispatch.by = "sched"

StopSeen_FaultNever == FALSE

StopSeen == stop

\* wait_or_stop() answers TRUE: scheduler_main returns.
Return ==
  /\ pc \in {"wait", "again"}
  /\ StopSeen
  /\ Goto("off")
  /\ UNCHANGED <<routerVars, clockVars, accountVars, stop>>

\* The one-second wait ends; `last` is advanced before the gates, and a tick
\* longer than two seconds, a suspended host's say, counts as one.
TickLength == IF sinceLast > MaxTick THEN 1 ELSE sinceLast

Tick ==
  /\ pc = "wait"
  /\ ~stop
  /\ sinceLast >= 1
  /\ dt' = TickLength
  /\ sinceLast' = 0
  /\ tickGap' = gap
  /\ gap' = (slot[Main] = NoEntry)
  /\ Goto("hasMain")
  /\ UNCHANGED <<routerVars, quiet, elapsed, feeVars, idle, unserved, stop>>

\* The tick is done with: dt goes out of scope.
DropTick == dt' = 1 /\ tickGap' = FALSE

\* What the gates and the accrual leave alone.
outsideTick == <<routerVars, sinceLast, quiet, elapsed, gap, stop>>

GateMain ==
  /\ pc = "hasMain"
  /\ RouterFree
  /\ IF HasJob(Main) THEN Goto("attempted") /\ UNCHANGED <<dt, tickGap>>
                     ELSE Goto("wait") /\ DropTick
  /\ UNCHANGED <<outsideTick, feeVars, idle, unserved>>

\* attempted_within(kSolveGrace) fails: the tick is not charged.
GateIdle ==
  /\ pc = "attempted"
  /\ quiet > Grace
  /\ Goto("wait")
  /\ DropTick
  /\ UNCHANGED <<outsideTick, feeVars, idle, unserved>>

\* add_mining_time() and slice_due(); past MaxDebt nothing more is credited.
Accrue ==
  /\ pc = "attempted"
  /\ quiet <= Grace
  /\ LET earned == IF debt + Rate * dt <= MaxDebt THEN Rate * dt ELSE 0 IN
       /\ debt' = debt + earned
       /\ credit' = credit + earned
  /\ DropTick
  /\ idle' = idle + dt
  /\ unserved' = unserved + (IF tickGap THEN dt ELSE 0)
  /\ Goto(IF SliceDue(debt') THEN "fresh" ELSE "wait")
  /\ UNCHANGED <<outsideTick, late>>

\* The fee pool has no current job: the round is deferred.
Defer ==
  /\ pc = "fresh"
  /\ RouterFree
  /\ ~Fresh
  /\ Goto("again")
  /\ UNCHANGED <<routerVars, clockVars, accountVars, stop>>

BeginRound ==
  /\ pc = "fresh"
  /\ RouterFree
  /\ Fresh
  /\ elapsed' = 0
  /\ Goto("toDev")
  /\ UNCHANGED <<routerVars, sinceLast, dt, quiet, accountVars, stop>>

SwitchToDev ==
  /\ pc = "toDev"
  /\ SetActive(Dev)
  /\ ServiceEnds
  /\ Goto("slice")
  /\ UNCHANGED <<clockVars, feeVars, stop>>

\* Where run_slice goes after its wait.
AfterWait == "toMain"

\* The round's wait ends by time or is cut short by stop(); either way the
\* user's pool is made active again.
EndWait ==
  /\ pc = "slice"
  /\ ~Calling
  /\ StopSeen \/ elapsed >= SliceSecs
  /\ Goto(AfterWait)
  /\ UNCHANGED <<routerVars, clockVars, accountVars, stop>>

SwitchToMain ==
  /\ pc = "toMain"
  /\ SetActive(Main)
  /\ Goto("settle")
  /\ UNCHANGED <<clockVars, accountVars, stop>>

Settle ==
  /\ pc = "settle"
  /\ ~Calling
  /\ debt' = Settled(debt, elapsed)
  /\ credit' = credit - elapsed * Unit
  /\ late' = late + (IF elapsed > SliceSecs THEN elapsed - SliceSecs ELSE 0)
  /\ elapsed' = 0
  /\ Goto("again")
  /\ UNCHANGED <<routerVars, sinceLast, dt, quiet, chargeVars, stop>>

NextTick ==
  /\ pc = "again"
  /\ ~stop
  /\ Goto("wait")
  /\ UNCHANGED <<routerVars, clockVars, accountVars, stop>>

Scheduler ==
  \/ Return \/ Tick \/ GateMain \/ GateIdle \/ Accrue \/ Defer \/ BeginRound
  \/ SwitchToDev \/ EndWait \/ SwitchToMain \/ Settle \/ NextTick
-----------------------------------------------------------------------------
(* The other threads, and time.                                            *)

\* Any engine with a job completes a solve attempt.
Attempt ==
  /\ \E e \in 1 .. Engines : holding[e] # NoEntry
  /\ quiet' = 0
  /\ idle' = 0
  /\ UNCHANGED <<routerVars, sinceLast, dt, elapsed, pc, feeVars, gap, tickGap, unserved,
                 stop>>

Stop ==
  /\ ~stop
  /\ stop' = TRUE
  /\ UNCHANGED <<routerVars, clockVars, pc, accountVars>>

\* A second passes.  A round is at most MaxOverrun seconds late, and all rounds
\* together at most MaxLate.
TimePasses ==
  /\ LET capped(n, cap) == IF n < cap THEN n + 1 ELSE cap IN
       /\ devAge' = capped(devAge, MaxAge + 1)
       /\ sinceLast' = capped(sinceLast, MaxTick + 1)
       /\ quiet' = capped(quiet, Grace + 1)
  /\ IF pc \in RoundPCs
     THEN /\ elapsed < SliceSecs + MaxOverrun
          /\ elapsed >= SliceSecs => late + elapsed - SliceSecs < MaxLate
          /\ elapsed' = elapsed + 1
     ELSE UNCHANGED elapsed
  /\ UNCHANGED <<slot, active, dispatch, holding, pc, dt, accountVars, stop>>

Pool(o) == Clear(o) \/ \E job \in Jobs : Offer(o, job)

Next ==
  \/ \E o \in Origins : Pool(o)
  \/ Deliver
  \/ Scheduler
  \/ Attempt
  \/ Stop
  \/ TimePasses

Spec == Init /\ [][Next]_vars

\* The scheduler thread is not starved, the dispatch loop runs on and time
\* passes.  The scheduler gets the router's mutex although the connections'
\* threads take it too: strong fairness.  No pool is assumed to do anything.
FairSpec ==
  /\ Spec
  /\ SF_vars(Scheduler)
  /\ WF_vars(Deliver)
  /\ WF_vars(TimePasses)
-----------------------------------------------------------------------------
(* Properties.                                                             *)

\* Router agreement: whenever no call is dispatching, every engine holds the job
\* the active pool sent last, whatever offers, drops and switches came before.
EnginesFollowRouter ==
  RouterFree /\ slot[active] # NoEntry =>
    \A e \in 1 .. Engines : holding[e] = slot[active]

\* The engines are turned to the fee pool only within a round; in particular a
\* scheduler that ended, whenever stop() came, leaves the user's pool active.
DevOnlyInRound == active = Dev => pc \in {"slice", "toMain"}

\* At the moment time is credited every engine is on a job of the user's pool.
UserJobsWhenCredited ==
  [][debt' > debt => \A e \in 1 .. Engines :
       holding[e] # NoEntry /\ holding[e].origin = Main]_vars

\* Charging ends with the work (devfee.h on FeeAccrual).  The gates are read some time
\* after the tick they admit ended, attempts count for kSolveGrace, and a tick is
\* charged whole.  So a stretch in which nothing is attempted (a pause, a back-off) is
\* charged up to the grace and two ticks, and one in which the engines are not the
\* user's (the pool has no job, a round) up to two ticks: the one that ends within it,
\* if the pool is back before the gate is read, and the one it ends in.  Both are
\* reached; devfee.h:70-73 names neither.
ChargesEndWithTheWork == idle <= Grace + 2 * MaxTick /\ unserved <= 2 * MaxTick

\* What the rounds took never exceeds the stated rate by more than the time they
\* ended late, and the debt never falls behind what is owed (FeeAccrual::settle).
FeeWithinRate == credit <= debt /\ debt <= credit + late * Unit

\* The scheduler is an account that earns outside rounds only, begins a round only
\* when a whole one is owed, and settles what it took.
Account == INSTANCE FeeAccount WITH inRound <- pc \in RoundPCs

ImplementsAccount == Account!Spec

\* stop() always ends the scheduler thread, with the user's pool active.
StopEndsScheduler == stop ~> (pc = "off" /\ active = Main)

\* Owed rounds are taken: while both pools have current work and a device is
\* solving, a whole round does not stay owed for good without one being run.
OwedRoundsAreTaken ==
  <>[](slot[Main] # NoEntry /\ slot[Dev] # NoEntry /\ devAge <= MaxAge
       /\ quiet <= Grace /\ ~stop)
    => []<>(debt < SliceSecs * Unit \/ pc \in RoundPCs)

=============================================================================
