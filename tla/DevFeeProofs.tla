---------------------------- MODULE DevFeeProofs ----------------------------
(***************************************************************************)
(* Theorems about DevFee, for every set of jobs, number of engines, rate   *)
(* and round length, and every value of the bounds.                        *)
(***************************************************************************)
EXTENDS DevFee, TLAPS

LEMMA EntryReal == \A x \in Entry : x # NoEntry
<1> SUFFICES ASSUME NEW x \in Entry, x = NoEntry PROVE FALSE
  OBVIOUS
<1>1. DOMAIN x = {"job", "origin"}
  BY DEF Entry
<1>2. DOMAIN NoEntry = {"none"}
  BY DEF NoEntry
<1> QED BY <1>1, <1>2

\* A dispatch in progress: the call holding the router's mutex.
Dispatches == [by : {"pool", "sched"}, entry : Entry, next : 1 .. Engines]

LEMMA DispatchReal == \A x \in Dispatches : x # Idle
<1> SUFFICES ASSUME NEW x \in Dispatches, x = Idle PROVE FALSE
  OBVIOUS
<1>1. DOMAIN x = {"by", "entry", "next"}
  BY DEF Dispatches
<1>2. DOMAIN Idle = {"none"}
  BY DEF Idle
<1> QED BY <1>1, <1>2

-----------------------------------------------------------------------------
(* The type invariant is inductive by itself. *)

LEMMA InitType == Init => TypeOK
<1> SUFFICES ASSUME Init PROVE TypeOK
  OBVIOUS
<1>1. slot \in [Origins -> Entry \cup {NoEntry}] /\ active \in Origins
  BY DEF Init, Origins
<1>2. holding \in [1 .. Engines -> Entry \cup {NoEntry}]
  BY DEF Init
<1>3. dispatch = Idle
  BY DEF Init
<1>4. /\ devAge \in 0 .. MaxAge + 1 /\ pc \in PCs /\ sinceLast \in 0 .. MaxTick + 1
      /\ dt \in 1 .. MaxTick /\ quiet \in 0 .. Grace + 1
      /\ elapsed \in 0 .. SliceSecs + MaxOverrun /\ debt \in Nat /\ credit \in Int
      /\ late \in Nat
  BY DevFeeAssumption DEF DevFeeAssumption, Init, PCs, MaxTick
<1>5. stop \in BOOLEAN /\ ChargesTypeOK
  BY DEF Init, ChargesTypeOK
<1> QED BY <1>1, <1>2, <1>3, <1>4, <1>5 DEF TypeOK

LEMMA NextChargesType ==
  TypeOK /\ [Next]_vars => ChargesTypeOK'
<1> SUFFICES ASSUME TypeOK, [Next]_vars PROVE ChargesTypeOK'
  OBVIOUS
<1>1. ChargesTypeOK /\ dt \in 1 .. MaxTick
  BY DEF TypeOK
<1>2. \/ UNCHANGED <<idle, unserved, gap, tickGap>>
      \/ Attempt \/ Tick \/ GateMain \/ GateIdle \/ Accrue \/ ServiceEnds
  <2> USE DEF accountVars, chargeVars
  <2>1. CASE UNCHANGED vars
    BY <2>1 DEF vars
  <2>2. ASSUME NEW o \in Origins, Pool(o)
        PROVE  UNCHANGED <<idle, unserved, gap, tickGap>> \/ ServiceEnds
    BY <2>2 DEF Pool, Offer, Clear
  <2>3. CASE Deliver \/ Stop \/ TimePasses
    BY <2>3 DEF Deliver, Stop, TimePasses
  <2>4. CASE Return \/ Defer \/ BeginRound \/ EndWait \/ SwitchToMain \/ Settle \/ NextTick
    BY <2>4 DEF Return, Defer, BeginRound, EndWait, SwitchToMain, Settle, NextTick
  <2>5. CASE SwitchToDev
    BY <2>5 DEF SwitchToDev
  <2> QED BY <2>1, <2>2, <2>3, <2>4, <2>5 DEF Next, Scheduler
<1>3. idle' \in Nat
  BY <1>1, <1>2 DEF ChargesTypeOK, Attempt, Tick, GateMain, GateIdle, Accrue, ServiceEnds,
                    MaxTick
<1>4. unserved' \in Nat
  <2>1. CASE Accrue
    BY <1>1, <2>1 DEF ChargesTypeOK, Accrue, MaxTick
  <2>2. CASE ~Accrue
    BY <1>1, <1>2, <2>2 DEF ChargesTypeOK, Attempt, Tick, GateMain, GateIdle, ServiceEnds
  <2> QED BY <2>1, <2>2
<1>5. gap' \in BOOLEAN /\ tickGap' \in BOOLEAN
  BY <1>1, <1>2, Zenon
     DEF ChargesTypeOK, Attempt, Tick, GateMain, GateIdle, Accrue, DropTick, outsideTick,
         ServiceEnds
<1> QED BY <1>3, <1>4, <1>5 DEF ChargesTypeOK

LEMMA NextType == TypeOK /\ [Next]_vars => TypeOK'
<1> SUFFICES ASSUME TypeOK, [Next]_vars PROVE TypeOK'
  OBVIOUS
<1> USE DevFeeAssumption, EntryReal, DispatchReal
    DEF DevFeeAssumption, TypeOK, routerVars, clockVars, accountVars, feeVars, chargeVars,
        ServiceEnds, DropTick, outsideTick, Goto, Dispatches, MaxTick
<1>0. ChargesTypeOK'
  BY NextChargesType
<1> USE <1>0
<1>1. CASE UNCHANGED vars
  BY <1>1 DEF vars
<1>2. ASSUME NEW o \in Origins, NEW job \in Jobs, Offer(o, job) PROVE TypeOK'
  BY <1>2 DEF Offer, Entry
<1>3. ASSUME NEW o \in Origins, Clear(o) PROVE TypeOK'
  BY <1>3 DEF Clear
<1>4. CASE Deliver
  <2>1. dispatch \in Dispatches
    BY <1>4 DEF Deliver, RouterFree
  <2>2. holding' \in [1 .. Engines -> Entry \cup {NoEntry}]
    BY <1>4, <2>1 DEF Deliver
  <2>3. ASSUME dispatch.next < Engines
        PROVE  [dispatch EXCEPT !.next = @ + 1] \in Dispatches
    <3>1. dispatch.next + 1 \in 1 .. Engines
      BY <2>1, <2>3
    <3> QED BY <2>1, <3>1
  <2>4. dispatch' \in Dispatches \cup {Idle}
    BY <1>4, <2>3 DEF Deliver
  <2> QED BY <1>4, <2>2, <2>4 DEF Deliver
<1>5. CASE Return \/ Defer \/ BeginRound \/ NextTick
  <2>1. CASE Return
    BY <2>1 DEF Return, PCs
  <2>2. CASE Defer
    BY <2>2 DEF Defer, PCs
  <2>3. CASE BeginRound
    BY <2>3 DEF BeginRound, PCs
  <2>4. CASE NextTick
    BY <2>4 DEF NextTick, PCs
  <2> QED BY <1>5, <2>1, <2>2, <2>3, <2>4
<1>6. CASE Tick
  BY <1>6 DEF Tick, TickLength, PCs
<1>7. CASE GateMain \/ GateIdle
  <2>1. CASE GateMain
    BY <2>1 DEF GateMain, PCs
  <2>2. CASE GateIdle
    BY <2>2 DEF GateIdle, PCs
  <2> QED BY <1>7, <2>1, <2>2
<1>8. CASE Accrue
  BY <1>8 DEF Accrue, PCs
<1>9. CASE SwitchToDev \/ SwitchToMain
  <2>1. Main \in Origins /\ Dev \in Origins
    BY DEF Origins
  <2>2. ASSUME NEW o \in Origins, SetActive(o)
        PROVE  active' \in Origins /\ dispatch' \in Dispatches \cup {Idle}
               /\ UNCHANGED <<slot, devAge, holding>>
    BY <2>2 DEF SetActive, Redispatch
  <2>3. CASE SwitchToDev
    BY <2>1, <2>2, <2>3 DEF SwitchToDev, PCs
  <2>4. CASE SwitchToMain
    BY <2>1, <2>2, <2>4 DEF SwitchToMain, PCs
  <2> QED BY <1>9, <2>3, <2>4
<1>10. CASE EndWait
  BY <1>10 DEF EndWait, AfterWait, PCs
<1>11. CASE Settle
  BY <1>11 DEF Settle, Settled, PCs
<1>12. CASE Attempt \/ Stop
  <2>1. CASE Attempt
    BY <2>1 DEF Attempt
  <2>2. CASE Stop
    BY <2>2 DEF Stop
  <2> QED BY <1>12, <2>1, <2>2
<1>13. CASE TimePasses
  BY <1>13 DEF TimePasses
<1> QED BY <1>1, <1>2, <1>3, <1>4, <1>5, <1>6, <1>7, <1>8, <1>9, <1>10, <1>11, <1>12,
           <1>13 DEF Next, Pool, Scheduler

\* Type correctness of the router, the scheduler and the account.
THEOREM TypeCorrect == Spec => []TypeOK
BY InitType, NextType, PTL DEF Spec

-----------------------------------------------------------------------------
(* The switch: the fee pool is active exactly while the round's wait and the *)
(* call that ends it run.                                                    *)

SwitchInv == active = Dev <=> pc \in {"slice", "toMain"}

LEMMA NextSwitch == TypeOK /\ SwitchInv /\ [Next]_vars => SwitchInv'
<1> SUFFICES ASSUME TypeOK, SwitchInv, [Next]_vars PROVE SwitchInv'
  OBVIOUS
<1> USE DEF SwitchInv, routerVars, outsideTick, Goto
<1>1. CASE UNCHANGED vars
  BY <1>1 DEF vars
<1>2. ASSUME NEW o \in Origins, NEW job \in Jobs, Offer(o, job) PROVE SwitchInv'
  BY <1>2 DEF Offer
<1>3. ASSUME NEW o \in Origins, Clear(o) PROVE SwitchInv'
  BY <1>3 DEF Clear
<1>4. CASE Deliver \/ Attempt \/ Stop \/ TimePasses
  BY <1>4 DEF Deliver, Attempt, Stop, TimePasses
<1>5. CASE Return \/ Tick \/ GateMain \/ GateIdle \/ Accrue
  BY <1>5 DEF Return, Tick, GateMain, GateIdle, Accrue
<1>6. CASE Defer \/ BeginRound \/ Settle \/ NextTick
  BY <1>6 DEF Defer, BeginRound, Settle, NextTick
<1>7. CASE SwitchToDev \/ SwitchToMain
  BY <1>7 DEF SwitchToDev, SwitchToMain, SetActive, TypeOK, Origins, Main, Dev
<1>8. CASE EndWait
  BY <1>8 DEF EndWait, AfterWait
<1> QED BY <1>1, <1>2, <1>3, <1>4, <1>5, <1>6, <1>7, <1>8 DEF Next, Pool, Scheduler

LEMMA SwitchHolds == Spec => []SwitchInv
<1>1. Init => SwitchInv
  BY DEF Init, SwitchInv, Main, Dev
<1> QED BY <1>1, NextSwitch, TypeCorrect, PTL DEF Spec

\* The engines are turned to the fee pool only inside a round (run_slice).
THEOREM FeePoolOnlyInRounds == Spec => []DevOnlyInRound
<1>1. SwitchInv => DevOnlyInRound
  BY DEF SwitchInv, DevOnlyInRound
<1> QED BY <1>1, SwitchHolds, PTL

-----------------------------------------------------------------------------
(* The router: what is being dispatched is the active slot, the engines the  *)
(* loop has passed hold it already, and slots hold jobs of their own origin. *)

RouterInv ==
  /\ \A o \in Origins : slot[o] # NoEntry => slot[o].origin = o
  /\ ~RouterFree =>
       /\ dispatch.entry = slot[active]
       /\ \A e \in 1 .. Engines : e < dispatch.next => holding[e] = dispatch.entry
  /\ EnginesFollowRouter

LEMMA NextRouter == TypeOK /\ RouterInv /\ [Next]_vars => RouterInv'
<1> SUFFICES ASSUME TypeOK, RouterInv, [Next]_vars PROVE RouterInv'
  OBVIOUS
<1> USE DevFeeAssumption, EntryReal, DispatchReal
    DEF DevFeeAssumption, RouterInv, EnginesFollowRouter, RouterFree, routerVars, outsideTick,
        Dispatches
<1>1. CASE UNCHANGED vars
  BY <1>1 DEF vars
<1>2. ASSUME NEW o \in Origins, NEW job \in Jobs, Offer(o, job) PROVE RouterInv'
  BY <1>2 DEF Offer, Entry, TypeOK
<1>3. ASSUME NEW o \in Origins, Clear(o) PROVE RouterInv'
  BY <1>3 DEF Clear, TypeOK
<1>4. CASE Deliver
  <2>1. dispatch \in Dispatches
    BY <1>4 DEF Deliver, TypeOK
  <2>2. holding' = [holding EXCEPT ![dispatch.next] = dispatch.entry]
    BY <1>4 DEF Deliver
  <2>3. holding \in [1 .. Engines -> Entry \cup {NoEntry}]
    BY DEF TypeOK
  <2>4. dispatch.next \in 1 .. Engines
    BY <2>1
  <2>5. \A e \in 1 .. Engines : e <= dispatch.next => holding'[e] = dispatch.entry
    BY <1>4, <2>2, <2>3, <2>4 DEF Deliver
  <2>6. CASE dispatch.next < Engines
    <3>1. dispatch' = [dispatch EXCEPT !.next = @ + 1]
      BY <1>4, <2>6 DEF Deliver
    <3>2. dispatch'.entry = dispatch.entry /\ dispatch'.next = dispatch.next + 1
          /\ dispatch' \in Dispatches
      BY <2>1, <2>4, <2>6, <3>1
    <3> QED BY <1>4, <2>4, <2>5, <3>2 DEF Deliver
  <2>7. CASE dispatch.next = Engines
    BY <1>4, <2>4, <2>5, <2>7 DEF Deliver
  <2> QED BY <2>4, <2>6, <2>7
<1>5. CASE Attempt \/ Stop
  BY <1>5 DEF Attempt, Stop
<1>6. CASE TimePasses
  BY <1>6 DEF TimePasses
<1>7. CASE Return \/ Tick \/ GateMain \/ GateIdle \/ Accrue
  BY <1>7 DEF Return, Tick, GateMain, GateIdle, Accrue
<1>8. CASE Defer \/ BeginRound \/ EndWait \/ Settle \/ NextTick
  BY <1>8 DEF Defer, BeginRound, EndWait, Settle, NextTick
<1>9. CASE SwitchToDev \/ SwitchToMain
  BY <1>9 DEF SwitchToDev, SwitchToMain, SetActive, Redispatch, TypeOK, Origins, Main, Dev
<1> QED BY <1>1, <1>2, <1>3, <1>4, <1>5, <1>6, <1>7, <1>8, <1>9 DEF Next, Pool, Scheduler

LEMMA RouterHolds == Spec => []RouterInv
<1>1. Init => RouterInv
  BY DEF Init, RouterInv, EnginesFollowRouter, RouterFree, Origins, Main, Dev
<1> QED BY <1>1, NextRouter, TypeCorrect, PTL DEF Spec

\* Whenever no call is dispatching, every engine holds the job the active pool
\* sent last (JobRouter::offer and set_active dispatching under the mutex).
THEOREM EnginesAgreeWithRouter == Spec => []EnginesFollowRouter
<1>1. RouterInv => EnginesFollowRouter
  BY DEF RouterInv
<1> QED BY <1>1, RouterHolds, PTL

-----------------------------------------------------------------------------
(* The charge: between the has(Main) gate and the accrual every engine stays *)
(* on a job of the user's pool, because the active origin is Main.           *)

OnUserJobs == \A e \in 1 .. Engines : holding[e] # NoEntry /\ holding[e].origin = Main

ChargeInv == pc = "attempted" => OnUserJobs

LEMMA NextCharge ==
  TypeOK /\ SwitchInv /\ RouterInv /\ ChargeInv /\ [Next]_vars => ChargeInv'
<1> SUFFICES ASSUME TypeOK, SwitchInv, RouterInv, ChargeInv, [Next]_vars,
                    pc' = "attempted"
             PROVE OnUserJobs'
  BY DEF ChargeInv
<1> USE DEF ChargeInv, OnUserJobs, routerVars, outsideTick, Goto
<1>1. CASE UNCHANGED vars
  BY <1>1 DEF vars
<1>2. ASSUME NEW o \in Origins, NEW job \in Jobs, Offer(o, job) PROVE OnUserJobs'
  BY <1>2 DEF Offer
<1>3. ASSUME NEW o \in Origins, Clear(o) PROVE OnUserJobs'
  BY <1>3 DEF Clear
<1>4. CASE Deliver
  <2>1. active = Main
    BY <1>4 DEF Deliver, SwitchInv, TypeOK, Origins
  <2>2. dispatch \in Dispatches /\ dispatch.entry = slot[Main]
    BY <1>4, <2>1 DEF Deliver, RouterInv, RouterFree, TypeOK, Dispatches
  <2>3. dispatch.entry # NoEntry /\ dispatch.entry.origin = Main
    BY <2>2, EntryReal DEF RouterInv, Origins, Dispatches
  <2> QED BY <1>4, <2>3 DEF Deliver, TypeOK
<1>5. CASE Attempt \/ Stop \/ TimePasses
  BY <1>5 DEF Attempt, Stop, TimePasses
<1>6. CASE GateMain
  <2>1. active = Main
    BY <1>6 DEF GateMain, SwitchInv, TypeOK, Origins
  <2>2. slot[Main] # NoEntry /\ RouterFree
    BY <1>6 DEF GateMain, HasJob
  <2> QED BY <1>6, <2>1, <2>2 DEF GateMain, RouterInv, EnginesFollowRouter, Origins
<1>7. CASE Scheduler /\ ~GateMain
  BY <1>7 DEF Scheduler, Return, Tick, GateIdle, Accrue, Defer, BeginRound, SwitchToDev,
              EndWait, AfterWait, SwitchToMain, Settle, NextTick
<1> QED BY <1>1, <1>2, <1>3, <1>4, <1>5, <1>6, <1>7 DEF Next, Pool

LEMMA ChargeHolds == Spec => []ChargeInv
<1>1. Init => ChargeInv
  BY DEF Init, ChargeInv
<1> QED BY <1>1, NextCharge, TypeCorrect, SwitchHolds, RouterHolds, PTL DEF Spec

LEMMA ChargeStep ==
  TypeOK /\ ChargeInv /\ [Next]_vars => [debt' > debt => OnUserJobs]_vars
<1> SUFFICES ASSUME TypeOK, ChargeInv, Next, debt' > debt PROVE OnUserJobs
  OBVIOUS
<1> USE DevFeeAssumption DEF DevFeeAssumption, TypeOK, accountVars, feeVars
<1>1. CASE Accrue
  BY <1>1 DEF Accrue, ChargeInv
<1>2. CASE Settle
  BY <1>2 DEF Settle, Settled
<1>3. CASE Scheduler /\ ~Accrue /\ ~Settle
  BY <1>3 DEF Scheduler, Return, Tick, GateMain, GateIdle, Defer, BeginRound, SwitchToDev,
              EndWait, SwitchToMain, NextTick
<1>4. CASE Deliver
  BY <1>4 DEF Deliver
<1>5. CASE Attempt \/ Stop \/ TimePasses
  BY <1>5 DEF Attempt, Stop, TimePasses
<1>6. ASSUME NEW o \in Origins, Pool(o) PROVE OnUserJobs
  BY <1>6 DEF Pool, Offer, Clear
<1> QED BY <1>1, <1>2, <1>3, <1>4, <1>5, <1>6 DEF Next

\* At the moment time is credited every engine is on a job of the user's pool.
THEOREM CreditsFindUserJobs == Spec => UserJobsWhenCredited
<1>1. TypeOK /\ ChargeInv /\ [Next]_vars =>
        [debt' > debt => \A e \in 1 .. Engines :
           holding[e] # NoEntry /\ holding[e].origin = Main]_vars
  BY ChargeStep DEF OnUserJobs
<1> QED BY <1>1, TypeCorrect, ChargeHolds, PTL DEF Spec, UserJobsWhenCredited

-----------------------------------------------------------------------------
(* The length of what is charged without work.                             *)

\* A tick is between its measurement and its credit.
Pending == pc \in {"hasMain", "attempted"}

\* What a tick measured now would charge at most.
Running == IF sinceLast > MaxTick THEN MaxTick ELSE sinceLast

\* Within the grace, all that is or will be charged for a stretch without attempts
\* fits in its length and two ticks.
IdleInv ==
  /\ idle <= Grace + 2 * MaxTick
  /\ quiet <= Grace =>
       idle + (IF Pending THEN dt ELSE 0) + Running <= quiet + 2 * MaxTick

\* What the pending tick and the running one will charge to the stretch at most.
PendingShare == IF Pending /\ tickGap THEN dt ELSE 0
RunningShare == IF gap THEN MaxTick ELSE 0

\* While the engines are not the user's nothing is charged for it; once they are
\* again, at most the pending tick and the running one.
UnservedInv ==
  /\ slot[Main] = NoEntry \/ active = Dev =>
       gap /\ unserved = 0 /\ ~(pc = "attempted" /\ tickGap)
  /\ unserved + PendingShare + RunningShare <= 2 * MaxTick

LEMMA InitStretch == Init => IdleInv /\ UnservedInv
BY DevFeeAssumption DEF DevFeeAssumption, Init, IdleInv, UnservedInv, Pending, Running,
   PendingShare, RunningShare, MaxTick

LEMMA NextIdle == TypeOK /\ IdleInv /\ [Next]_vars => IdleInv'
<1> SUFFICES ASSUME TypeOK, IdleInv, [Next]_vars PROVE IdleInv'
  OBVIOUS
<1>1. /\ Grace \in Nat /\ idle \in Nat /\ quiet \in 0 .. Grace + 1
      /\ sinceLast \in 0 .. MaxTick + 1 /\ dt \in 1 .. MaxTick /\ pc \in PCs
  BY DevFeeAssumption DEF DevFeeAssumption, TypeOK, ChargesTypeOK
<1> USE <1>1 DEF IdleInv, Pending, Running, MaxTick, Goto, accountVars, clockVars
<1>2. CASE UNCHANGED vars
  BY <1>2 DEF vars
<1>3. ASSUME NEW o \in Origins, Pool(o) PROVE IdleInv'
  BY <1>3 DEF Pool, Offer, Clear, ServiceEnds, chargeVars
<1>4. CASE Tick
  BY <1>4 DEF Tick, TickLength
<1>5. CASE GateMain \/ GateIdle
  BY <1>5 DEF GateMain, GateIdle, DropTick, outsideTick
<1>6. CASE Accrue
  <2>1. quiet <= Grace /\ idle' = idle + dt /\ dt' = 1 /\ pc = "attempted"
        /\ pc' \notin {"hasMain", "attempted"} /\ UNCHANGED <<sinceLast, quiet>>
    BY <1>6 DEF Accrue, DropTick, outsideTick
  <2> QED BY <2>1
<1>7. CASE Return \/ Defer \/ BeginRound \/ EndWait \/ NextTick
  BY <1>7 DEF Return, Defer, BeginRound, EndWait, AfterWait, NextTick
<1>8. CASE SwitchToDev \/ SwitchToMain \/ Settle
  BY <1>8 DEF SwitchToDev, ServiceEnds, SwitchToMain, Settle, chargeVars
<1>9. CASE Deliver \/ Attempt \/ Stop
  BY <1>9 DEF Deliver, Attempt, Stop
<1>10. CASE TimePasses
  BY <1>10 DEF TimePasses
<1> QED BY <1>2, <1>3, <1>4, <1>5, <1>6, <1>7, <1>8, <1>9, <1>10 DEF Next, Scheduler

LEMMA NextUnserved ==
  TypeOK /\ SwitchInv /\ UnservedInv /\ [Next]_vars => UnservedInv'
<1> SUFFICES ASSUME TypeOK, SwitchInv, UnservedInv, [Next]_vars PROVE UnservedInv'
  OBVIOUS
<1>1. /\ unserved \in Nat /\ gap \in BOOLEAN /\ tickGap \in BOOLEAN
      /\ sinceLast \in 0 .. MaxTick + 1 /\ dt \in 1 .. MaxTick /\ pc \in PCs
      /\ active \in Origins /\ slot \in [Origins -> Entry \cup {NoEntry}]
  BY DEF TypeOK, ChargesTypeOK
<1> USE <1>1 DEF UnservedInv, Pending, PendingShare, RunningShare, MaxTick, Goto, accountVars, clockVars, routerVars
<1>2. CASE UNCHANGED vars
  BY <1>2 DEF vars
<1>3. ASSUME NEW o \in Origins, NEW job \in Jobs, Offer(o, job) PROVE UnservedInv'
  BY <1>3, EntryReal DEF Offer, Entry
<1>4. ASSUME NEW o \in Origins, Clear(o) PROVE UnservedInv'
  BY <1>4 DEF Clear, ServiceEnds, chargeVars, Origins, Main, Dev
<1>5. CASE Tick
  <2>1. active # Dev /\ dt' \in 1 .. MaxTick /\ pc' = "hasMain"
        /\ UNCHANGED <<slot, active, unserved>>
    BY <1>5 DEF Tick, TickLength, SwitchInv
  <2>2. PendingShare = 0 /\ tickGap' = gap /\ gap' = (slot[Main] = NoEntry)
    BY <1>5 DEF Tick
  <2>3. PICK p \in Int : p = PendingShare'
    BY <2>1
  <2>4. PICK r \in Int : r = RunningShare
    OBVIOUS
  <2>5. p <= r /\ r <= MaxTick /\ unserved + r <= 2 * MaxTick
    <3>1. CASE gap
      BY <2>1, <2>2, <2>3, <2>4, <3>1
    <3>2. CASE ~gap
      <4>1. ~tickGap'
        BY <2>2, <3>2, Zenon
      <4> QED BY <2>2, <2>3, <2>4, <4>1, <3>2
    <3> QED BY <3>1, <3>2
  <2>6. CASE slot[Main] = NoEntry
    <3>1. gap' /\ unserved' = 0 /\ ~(pc' = "attempted") /\ RunningShare' = MaxTick
      BY <2>1, <2>2, <2>6
    <3>2. unserved' + p + RunningShare' <= 2 * MaxTick
      BY <2>5, <3>1
    <3> QED BY <2>3, <3>1, <3>2
  <2>7. CASE slot[Main] # NoEntry
    <3>1. RunningShare' = 0
      BY <2>2, <2>7
    <3>2. slot'[Main] # NoEntry /\ active' # Dev /\ unserved' = unserved
      BY <2>1, <2>7
    <3>3. unserved' + p + RunningShare' <= 2 * MaxTick
      BY <2>5, <3>1, <3>2
    <3> QED BY <2>3, <3>2, <3>3
  <2> QED BY <2>6, <2>7
<1>6. CASE GateMain \/ GateIdle
  BY <1>6 DEF GateMain, GateIdle, DropTick, outsideTick, HasJob, SwitchInv
<1>7. CASE Accrue
  <2>1. /\ unserved' = unserved + (IF tickGap THEN dt ELSE 0) /\ pc = "attempted"
        /\ dt' = 1 /\ tickGap' = FALSE /\ pc' \notin {"hasMain", "attempted"}
        /\ UNCHANGED <<slot, active, gap>>
    BY <1>7 DEF Accrue, DropTick, outsideTick
  <2> QED BY <2>1
<1>8. CASE Return \/ Defer \/ BeginRound \/ EndWait \/ NextTick \/ Settle
  BY <1>8 DEF Return, Defer, BeginRound, EndWait, AfterWait, NextTick, Settle, chargeVars
<1>9. CASE SwitchToDev
  BY <1>9 DEF SwitchToDev, ServiceEnds, SetActive
<1>10. CASE SwitchToMain
  BY <1>10 DEF SwitchToMain, SetActive, Main, Dev
<1>11. CASE Deliver \/ Attempt \/ Stop \/ TimePasses
  BY <1>11 DEF Deliver, Attempt, Stop, TimePasses
<1> QED BY <1>2, <1>3, <1>4, <1>5, <1>6, <1>7, <1>8, <1>9, <1>10, <1>11
        DEF Next, Pool, Scheduler

\* Charging ends with the work: a stretch without attempts is charged at most the
\* grace and two ticks, one in which the engines are not the user's at most two ticks,
\* however long it lasts and however late the scheduler's reads come.
THEOREM ChargesStopWithTheWork == Spec => []ChargesEndWithTheWork
<1>1. TypeOK /\ IdleInv /\ UnservedInv => ChargesEndWithTheWork
  BY DEF TypeOK, IdleInv, UnservedInv, ChargesEndWithTheWork, MaxTick,
         ChargesTypeOK, Pending, PendingShare, RunningShare
<1> QED BY <1>1, InitStretch, NextIdle, NextUnserved, TypeCorrect, SwitchHolds, PTL DEF Spec

-----------------------------------------------------------------------------
(* The account.                                                            *)

\* From the due test to the settlement a whole round is owed.
DueInv == pc \in RoundPCs \cup {"fresh"} => debt >= SliceSecs * Unit

LEMMA NextDue == TypeOK /\ DueInv /\ [Next]_vars => DueInv'
<1> SUFFICES ASSUME TypeOK, DueInv, [Next]_vars PROVE DueInv'
  OBVIOUS
<1> USE DEF DueInv, RoundPCs, Goto, accountVars, feeVars
<1>1. CASE UNCHANGED vars
  BY <1>1 DEF vars
<1>2. CASE Accrue
  BY <1>2 DEF Accrue, SliceDue
<1>3. CASE Scheduler /\ ~Accrue
  BY <1>3 DEF Scheduler, Return, Tick, GateMain, GateIdle, Defer, BeginRound, SwitchToDev,
              EndWait, AfterWait, SwitchToMain, Settle, NextTick
<1>4. CASE Deliver \/ Attempt \/ Stop \/ TimePasses
  BY <1>4 DEF Deliver, Attempt, Stop, TimePasses
<1>5. ASSUME NEW o \in Origins, Pool(o) PROVE DueInv'
  BY <1>5 DEF Pool, Offer, Clear
<1> QED BY <1>1, <1>2, <1>3, <1>4, <1>5 DEF Next

LEMMA NextFee == TypeOK /\ DueInv /\ FeeWithinRate /\ [Next]_vars => FeeWithinRate'
<1> SUFFICES ASSUME TypeOK, DueInv, FeeWithinRate, [Next]_vars PROVE FeeWithinRate'
  OBVIOUS
<1> USE DEF FeeWithinRate, accountVars, feeVars
<1>1. CASE UNCHANGED vars
  BY <1>1 DEF vars
<1>2. CASE Accrue
  <2> DEFINE earned == IF debt + Rate * dt <= MaxDebt THEN Rate * dt ELSE 0
  <2>1. earned \in Int
    BY DevFeeAssumption DEF DevFeeAssumption, TypeOK, MaxTick
  <2>2. debt' = debt + earned /\ credit' = credit + earned /\ late' = late
    BY <1>2 DEF Accrue
  <2>3. debt \in Int /\ credit \in Int /\ late * Unit \in Int
    BY DevFeeAssumption DEF DevFeeAssumption, TypeOK
  <2> HIDE DEF earned
  <2> QED BY <2>1, <2>2, <2>3
<1>3. CASE Settle
  <2> DEFINE spent == elapsed * Unit
             over == IF elapsed > SliceSecs THEN elapsed - SliceSecs ELSE 0
  <2>1. /\ elapsed \in Nat /\ SliceSecs \in Nat /\ Unit \in Nat
        /\ debt \in Int /\ credit \in Int /\ late \in Nat
    BY DevFeeAssumption DEF DevFeeAssumption, TypeOK
  <2>2. over \in Nat /\ elapsed <= SliceSecs + over
    BY <2>1
  <2>3. spent \in Int /\ SliceSecs * Unit \in Int /\ over * Unit \in Int /\ late * Unit \in Int
    BY <2>1, <2>2
  <2>4. spent <= (SliceSecs + over) * Unit
    BY <2>1, <2>2
  <2>5. (SliceSecs + over) * Unit = SliceSecs * Unit + over * Unit
    BY <2>1, <2>2
  <2>6. (late + over) * Unit = late * Unit + over * Unit
    BY <2>1, <2>2
  <2>7. /\ debt' = IF debt > spent THEN debt - spent ELSE 0
        /\ credit' = credit - spent
        /\ late' = late + over
    BY <1>3 DEF Settle, Settled
  <2>8. debt >= SliceSecs * Unit
    BY <1>3 DEF Settle, DueInv, RoundPCs
  <2> HIDE DEF spent, over
  <2> QED BY <2>1, <2>2, <2>3, <2>4, <2>5, <2>6, <2>7, <2>8
<1>4. CASE Scheduler /\ ~Accrue /\ ~Settle
  BY <1>4 DEF Scheduler, Return, Tick, GateMain, GateIdle, Defer, BeginRound, SwitchToDev,
              EndWait, SwitchToMain, NextTick
<1>5. CASE Deliver \/ Attempt \/ Stop \/ TimePasses
  BY <1>5 DEF Deliver, Attempt, Stop, TimePasses
<1>6. ASSUME NEW o \in Origins, Pool(o) PROVE FeeWithinRate'
  BY <1>6 DEF Pool, Offer, Clear
<1> QED BY <1>1, <1>2, <1>3, <1>4, <1>5, <1>6 DEF Next
LEMMA DueHolds == Spec => []DueInv
<1>1. Init => DueInv
  BY DEF Init, DueInv, RoundPCs
<1> QED BY <1>1, NextDue, TypeCorrect, PTL DEF Spec

\* The rounds take no more than the stated rate of the credited time, except for
\* what they end late; what is still owed covers the rest (FeeAccrual::settle).
THEOREM FeeNeverAboveRate == Spec => []FeeWithinRate
<1>1. Init => FeeWithinRate
  BY DevFeeAssumption DEF DevFeeAssumption, Init, FeeWithinRate
<1> QED BY <1>1, NextFee, TypeCorrect, DueHolds, PTL DEF Spec

-----------------------------------------------------------------------------
(* The scheduler implements the abstract account.                          *)

LEMMA InitImplements == Init => Account!Init
BY DEF Init, Account!Init, RoundPCs

LEMMA NextImplements ==
  TypeOK /\ DueInv /\ [Next]_vars => [Account!Next]_<<pc \in RoundPCs, debt, credit>>
<1> SUFFICES ASSUME TypeOK, DueInv, [Next]_vars
             PROVE Account!Next \/ UNCHANGED <<pc \in RoundPCs, debt, credit>>
  OBVIOUS
<1> USE DEF RoundPCs, Goto, accountVars, feeVars
<1>1. CASE UNCHANGED vars
  BY <1>1 DEF vars
<1>2. CASE Accrue
  <2>1. CASE debt + Rate * dt <= MaxDebt
    <3>1. dt \in 1 .. MaxTick
      BY DEF TypeOK
    <3>2. debt' = debt + Rate * dt /\ credit' = credit + Rate * dt
      BY <1>2, <2>1 DEF Accrue
    <3>3. pc \notin RoundPCs /\ pc' \notin RoundPCs
      BY <1>2 DEF Accrue
    <3>4. Account!Earn
      BY <3>1, <3>2, <3>3 DEF Account!Earn
    <3> QED BY <3>4 DEF Account!Next
  <2>2. CASE ~(debt + Rate * dt <= MaxDebt)
    <3>1. debt' = debt /\ credit' = credit
      BY <1>2, <2>2 DEF Accrue, TypeOK
    <3> QED BY <1>2, <3>1 DEF Accrue
  <2> QED BY <2>1, <2>2
<1>3. CASE BeginRound
  <2>1. Account!BeginRound
    BY <1>3 DEF BeginRound, DueInv, Account!BeginRound
  <2> QED BY <2>1 DEF Account!Next
<1>4. CASE Settle
  <2>1. elapsed \in 0 .. SliceSecs + MaxOverrun
    BY DEF TypeOK
  <2>2. debt' = IF elapsed * Unit < debt THEN debt - elapsed * Unit ELSE 0
    BY <1>4, DevFeeAssumption DEF Settle, Settled, TypeOK, DevFeeAssumption
  <2>3. Account!EndRound
    BY <1>4, <2>1, <2>2 DEF Settle, Account!EndRound
  <2> QED BY <2>3 DEF Account!Next
<1>5. CASE Return \/ Tick \/ GateMain \/ GateIdle \/ Defer \/ NextTick
  BY <1>5 DEF Return, Tick, GateMain, GateIdle, Defer, NextTick
<1>6. CASE SwitchToDev \/ EndWait \/ SwitchToMain
  BY <1>6 DEF SwitchToDev, EndWait, AfterWait, SwitchToMain
<1>7. CASE Deliver \/ Attempt \/ Stop \/ TimePasses
  BY <1>7 DEF Deliver, Attempt, Stop, TimePasses
<1>8. ASSUME NEW o \in Origins, Pool(o)
      PROVE UNCHANGED <<pc \in RoundPCs, debt, credit>>
  BY <1>8 DEF Pool, Offer, Clear
<1> QED BY <1>1, <1>2, <1>3, <1>4, <1>5, <1>6, <1>7, <1>8 DEF Next, Scheduler

\* Whatever the pools, the clock and the threads do, the scheduler is an account
\* that earns only outside rounds, begins a round only when a whole one is owed and
\* settles what it took (scheduler_main, run_slice, FeeAccrual).
THEOREM SchedulerImplementsAccount == Spec => ImplementsAccount
<1>1. TypeOK /\ DueInv /\ [Next]_vars => [Account!Next]_(Account!account)
  BY NextImplements DEF Account!account
<1> QED BY InitImplements, <1>1, TypeCorrect, DueHolds, PTL
        DEF Spec, ImplementsAccount, Account!Spec
=============================================================================
