---------------------------- MODULE EngineProofs ----------------------------
(***************************************************************************)
(* Theorems about Engine, for every number of engines, every set of jobs,  *)
(* prefixes and origins, and every value of the bounds.                    *)
(***************************************************************************)
EXTENDS Engine, TLAPS

(* The type invariant is inductive by itself. *)

LEMMA InitType == Init => TypeOK
BY EngineAssumption DEF Init, TypeOK, Lanes, PCs, Entry

\* Where entries come from: the dispatcher carries a real one while it runs, a
\* pending mailbox holds one that was posted, and a worker past Take works on a
\* posted, well-formed one.
FlowInv ==
  /\ dispatch.step # "idle" => dispatch.entry \in Entry
  /\ \A e \in Lanes : hasJob[e] => latest[e] \in posted
  /\ \A e \in Lanes : pc[e] \in Working => work[e] \in posted /\ work[e].id \notin Malformed
  /\ SharesMatchAPost

LEMMA NextType == TypeOK /\ FlowInv /\ [Next]_vars => TypeOK'
<1> SUFFICES ASSUME TypeOK, FlowInv, [Next]_vars PROVE TypeOK'
  OBVIOUS
<1> USE EngineAssumption DEF EngineAssumption, TypeOK, PCs
<1>1. CASE UNCHANGED vars
  BY <1>1 DEF vars
<1>2. ASSUME NEW entry \in Entry, Offer(entry) PROVE TypeOK'
  <2>1. 0 \in Lanes
    BY DEF Lanes
  <2> QED BY <1>2, <2>1 DEF Offer, history
<1>3. ASSUME NEW e \in Lanes, Dispatcher(e) PROVE TypeOK'
  <2>1. CASE PostJob(e)
    <3>1. dispatch.entry \in Entry
      BY <2>1 DEF PostJob, FlowInv
    <3> QED BY <2>1, <3>1 DEF PostJob, workerVars, envVars
  <2>2. CASE NotifyJob(e)
    BY <2>2 DEF NotifyJob, Notify, mailboxVars, workerVars, envVars, history
  <2>3. CASE AbortForJob(e)
    <3>1. 0 \in Lanes
      BY DEF Lanes
    <3> QED BY <2>3, <3>1 DEF AbortForJob, RequestAbort, mailboxVars, workerVars, envVars,
                             history
  <2> QED BY <1>3, <2>1, <2>2, <2>3 DEF Dispatcher
<1>4. ASSUME NEW e \in Lanes, Start(e) PROVE TypeOK'
  BY <1>4 DEF Start, Goto, workerVars, envVars, history
<1>5. ASSUME NEW e \in Lanes, StopAbort(e) PROVE TypeOK'
  BY <1>5 DEF StopAbort, RequestAbort, mailboxVars, workerVars, envVars, history
<1>6. ASSUME NEW e \in Lanes, Stopper(e) PROVE TypeOK'
  <2> USE DEF mailboxVars, workerVars, envVars, history
  <2>1. CASE StopSignal(e)
    BY <2>1 DEF StopSignal
  <2>2. CASE StopNotify(e)
    BY <2>2 DEF StopNotify, Notify
  <2>3. CASE StopJoin(e)
    BY <2>3 DEF StopJoin
  <2> QED BY <1>6, <2>1, <2>2, <2>3 DEF Stopper
<1>7. ASSUME NEW e \in Lanes, Worker(e) PROVE TypeOK'
  <2> USE DEF Goto, mailboxVars, workerVars, envVars, history
  <2>1. CASE Sleep(e) \/ Exit(e)
    BY <2>1 DEF Sleep, Exit
  <2>2. CASE Take(e)
    BY <2>2 DEF Take, TakenEntry
  <2>3. CASE CheckPause(e) \/ PauseWaitEnds(e)
    BY <2>3 DEF CheckPause, PauseWaitEnds
  <2>4. CASE BeginSolve(e)
    <3>1. N \in Nat
      OBVIOUS
    <3>2. nonceCounter[e] \in Nat /\ nonceCounter[e] + Stride \in Nat
      BY <3>1 DEF Stride
    <3> QED BY <2>4, <3>2 DEF BeginSolve
  <2>5. CASE SolveEnds(e)
    BY <2>5 DEF SolveEnds, SolveCompletes, SolveAborted, SolveThrows
  <2>6. CASE Filter(e)
    BY <2>6 DEF Filter, Superseded
  <2>7. CASE Submit(e)
    <3>1. work[e] \in Entry
      BY <2>7 DEF Submit, FlowInv, Working
    <3> QED BY <2>7, <3>1 DEF Submit, MoreCandidates, Share
  <2>8. CASE SubmitDone(e) \/ Recheck(e)
    BY <2>8 DEF SubmitDone, Recheck
  <2>9. CASE RecheckFailed(e) \/ BackoffEnds(e)
    BY <2>9 DEF RecheckFailed, BackoffEnds
  <2> QED BY <1>7, <2>1, <2>2, <2>3, <2>4, <2>5, <2>6, <2>7, <2>8, <2>9 DEF Worker
<1>8. ASSUME NEW e \in Lanes, SpuriousWake(e) PROVE TypeOK'
  BY <1>8 DEF SpuriousWake, Goto, mailboxVars, workerVars, envVars, history
<1>9. ASSUME NEW e \in Lanes, TogglePause(e) PROVE TypeOK'
  BY <1>9 DEF TogglePause, mailboxVars, workerVars, history
<1> QED BY <1>1, <1>2, <1>3, <1>4, <1>5, <1>6, <1>7, <1>8, <1>9 DEF Next

(* Every entry on its way to submit_fn was posted. *)
LEMMA FlowStep ==
  TypeOK /\ FlowInv /\ [Next]_vars => FlowInv'
<1> SUFFICES ASSUME TypeOK, FlowInv, [Next]_vars PROVE FlowInv'
  OBVIOUS
<1> USE DEF TypeOK, FlowInv, Working, SharesMatchAPost
<1>1. CASE UNCHANGED vars
  BY <1>1 DEF vars
<1>2. ASSUME NEW entry \in Entry, Offer(entry) PROVE FlowInv'
  BY <1>2 DEF Offer, history
<1>3. ASSUME NEW e \in Lanes, Dispatcher(e) PROVE FlowInv'
  <2> USE DEF mailboxVars, workerVars, envVars, history
  <2>1. CASE PostJob(e)
    BY <2>1 DEF PostJob
  <2>2. CASE NotifyJob(e)
    BY <2>2 DEF NotifyJob, Notify
  <2>3. CASE AbortForJob(e)
    BY <2>3 DEF AbortForJob, RequestAbort
  <2> QED BY <1>3, <2>1, <2>2, <2>3 DEF Dispatcher
<1>4. ASSUME NEW e \in Lanes, Start(e) \/ StopAbort(e) \/ Stopper(e) PROVE FlowInv'
  <2> USE DEF mailboxVars, workerVars, envVars, history
  <2>1. CASE Start(e)
    BY <2>1 DEF Start, Goto
  <2>2. CASE StopAbort(e)
    BY <2>2 DEF StopAbort, RequestAbort
  <2>3. CASE StopSignal(e) \/ StopJoin(e)
    BY <2>3 DEF StopSignal, StopJoin
  <2>4. CASE StopNotify(e)
    BY <2>4 DEF StopNotify, Notify
  <2> QED BY <1>4, <2>1, <2>2, <2>3, <2>4 DEF Stopper
<1>5. ASSUME NEW e \in Lanes, Worker(e) PROVE FlowInv'
  <2> USE DEF Goto, mailboxVars, workerVars, envVars, history
  <2>1. CASE Sleep(e) \/ Exit(e)
    BY <2>1 DEF Sleep, Exit
  <2>2. CASE Take(e)
    BY <2>2 DEF Take, TakenEntry
  <2>3. CASE CheckPause(e) \/ PauseWaitEnds(e)
    BY <2>3 DEF CheckPause, PauseWaitEnds
  <2>4. CASE BeginSolve(e)
    BY <2>4 DEF BeginSolve
  <2>5. CASE SolveEnds(e)
    BY <2>5 DEF SolveEnds, SolveCompletes, SolveAborted, SolveThrows
  <2>6. CASE Filter(e)
    BY <2>6 DEF Filter
  <2>7. CASE Submit(e) \/ SubmitDone(e)
    BY <2>7 DEF Submit, SubmitDone
  <2>8. CASE Recheck(e)
    BY <2>8 DEF Recheck
  <2>9. CASE RecheckFailed(e) \/ BackoffEnds(e)
    BY <2>9 DEF RecheckFailed, BackoffEnds
  <2> QED BY <1>5, <2>1, <2>2, <2>3, <2>4, <2>5, <2>6, <2>7, <2>8, <2>9 DEF Worker
<1>6. ASSUME NEW e \in Lanes, SpuriousWake(e) \/ TogglePause(e) PROVE FlowInv'
  BY <1>6 DEF SpuriousWake, TogglePause, Goto, mailboxVars, workerVars, envVars, history
<1> QED BY <1>1, <1>2, <1>3, <1>4, <1>5, <1>6 DEF Next

\* The worker thread ends only because stop() asked, so a solver that throws
\* does not take the thread down, and after stop() has returned no thread runs.
WorkerLifetime ==
  \A e \in Lanes : /\ ~started[e] => pc[e] = "off"
                   /\ started[e] /\ pc[e] = "off" => stopRequested[e]

(* The worker thread ends only by stop(). *)
LEMMA LifetimeStep ==
  TypeOK /\ WorkerLifetime /\ [Next]_vars => WorkerLifetime'
<1> SUFFICES ASSUME TypeOK, WorkerLifetime, [Next]_vars PROVE WorkerLifetime'
  OBVIOUS
<1> USE DEF TypeOK, WorkerLifetime
<1>1. CASE UNCHANGED vars
  BY <1>1 DEF vars
<1>2. ASSUME NEW entry \in Entry, Offer(entry) PROVE WorkerLifetime'
  BY <1>2 DEF Offer, history
<1>3. ASSUME NEW e \in Lanes, Dispatcher(e) PROVE WorkerLifetime'
  <2> USE DEF mailboxVars, workerVars, envVars, history
  <2>1. CASE PostJob(e)
    BY <2>1 DEF PostJob
  <2>2. CASE NotifyJob(e)
    BY <2>2 DEF NotifyJob, Notify
  <2>3. CASE AbortForJob(e)
    BY <2>3 DEF AbortForJob, RequestAbort
  <2> QED BY <1>3, <2>1, <2>2, <2>3 DEF Dispatcher
<1>4. ASSUME NEW e \in Lanes, Start(e) \/ StopAbort(e) \/ Stopper(e) PROVE WorkerLifetime'
  <2> USE DEF mailboxVars, workerVars, envVars, history
  <2>1. CASE Start(e)
    BY <2>1 DEF Start, Goto
  <2>2. CASE StopAbort(e)
    BY <2>2 DEF StopAbort, RequestAbort
  <2>3. CASE StopSignal(e) \/ StopJoin(e)
    BY <2>3 DEF StopSignal, StopJoin
  <2>4. CASE StopNotify(e)
    BY <2>4 DEF StopNotify, Notify
  <2> QED BY <1>4, <2>1, <2>2, <2>3, <2>4 DEF Stopper
<1>5. ASSUME NEW e \in Lanes, Worker(e) PROVE WorkerLifetime'
  <2> USE DEF Goto, mailboxVars, workerVars, envVars, history
  <2>1. CASE Sleep(e) \/ Exit(e)
    BY <2>1 DEF Sleep, Exit
  <2>2. CASE Take(e)
    BY <2>2 DEF Take, TakenEntry
  <2>3. CASE CheckPause(e) \/ PauseWaitEnds(e)
    BY <2>3 DEF CheckPause, PauseWaitEnds
  <2>4. CASE BeginSolve(e)
    BY <2>4 DEF BeginSolve
  <2>5. CASE SolveEnds(e)
    BY <2>5 DEF SolveEnds, SolveCompletes, SolveAborted, SolveThrows
  <2>6. CASE Filter(e)
    BY <2>6 DEF Filter
  <2>7. CASE Submit(e) \/ SubmitDone(e)
    BY <2>7 DEF Submit, SubmitDone
  <2>8. CASE Recheck(e)
    BY <2>8 DEF Recheck
  <2>9. CASE RecheckFailed(e) \/ BackoffEnds(e)
    BY <2>9 DEF RecheckFailed, BackoffEnds
  <2> QED BY <1>5, <2>1, <2>2, <2>3, <2>4, <2>5, <2>6, <2>7, <2>8, <2>9 DEF Worker
<1>6. ASSUME NEW e \in Lanes, SpuriousWake(e) \/ TogglePause(e) PROVE WorkerLifetime'
  BY <1>6 DEF SpuriousWake, TogglePause, Goto, mailboxVars, workerVars, envVars, history
<1> QED BY <1>1, <1>2, <1>3, <1>4, <1>5, <1>6 DEF Next

\* A worker that is about to solve has begun no late solve, and one that has begun
\* a late solve finds the reason for it still there when it comes to look.
LateInv ==
  \A e \in Lanes :
    /\ lateSolves[e] \in {0, 1}
    /\ pc[e] \in {"check", "pausing", "begin", "backoff"} => lateSolves[e] = 0
    /\ pc[e] \in {"solve", "filter", "submit", "recheck", "failed"} /\ lateSolves[e] = 1
         => Preempted(e)

(* At most one solve of an overtaken job. *)
LEMMA LateStep ==
  TypeOK /\ WorkerLifetime /\ LateInv /\ [Next]_vars => LateInv'
<1> SUFFICES ASSUME TypeOK, WorkerLifetime, LateInv, [Next]_vars PROVE LateInv'
  OBVIOUS
<1> USE DEF TypeOK, LateInv, Preempted, WorkerLifetime
<1>1. CASE UNCHANGED vars
  BY <1>1 DEF vars
<1>2. ASSUME NEW entry \in Entry, Offer(entry) PROVE LateInv'
  BY <1>2 DEF Offer, history
<1>3. ASSUME NEW e \in Lanes, Dispatcher(e) PROVE LateInv'
  <2> USE DEF mailboxVars, workerVars, envVars, history
  <2>1. CASE PostJob(e)
    BY <2>1 DEF PostJob
  <2>2. CASE NotifyJob(e)
    BY <2>2 DEF NotifyJob, Notify
  <2>3. CASE AbortForJob(e)
    BY <2>3 DEF AbortForJob, RequestAbort
  <2> QED BY <1>3, <2>1, <2>2, <2>3 DEF Dispatcher
<1>4. ASSUME NEW e \in Lanes, Start(e) \/ StopAbort(e) \/ Stopper(e) PROVE LateInv'
  <2> USE DEF mailboxVars, workerVars, envVars, history
  <2>1. CASE Start(e)
    BY <2>1 DEF Start, Goto
  <2>2. CASE StopAbort(e)
    BY <2>2 DEF StopAbort, RequestAbort
  <2>3. CASE StopSignal(e) \/ StopJoin(e)
    BY <2>3 DEF StopSignal, StopJoin
  <2>4. CASE StopNotify(e)
    BY <2>4 DEF StopNotify, Notify
  <2> QED BY <1>4, <2>1, <2>2, <2>3, <2>4 DEF Stopper
<1>5. ASSUME NEW e \in Lanes, Worker(e) PROVE LateInv'
  <2> USE DEF Goto, mailboxVars, workerVars, envVars, history
  <2>1. CASE Sleep(e) \/ Exit(e)
    BY <2>1 DEF Sleep, Exit
  <2>2. CASE Take(e)
    BY <2>2 DEF Take, TakenEntry
  <2>3. CASE CheckPause(e) \/ PauseWaitEnds(e)
    BY <2>3 DEF CheckPause, PauseWaitEnds
  <2>4. CASE BeginSolve(e)
    BY <2>4 DEF BeginSolve
  <2>5. CASE SolveEnds(e)
    BY <2>5 DEF SolveEnds, SolveCompletes, SolveAborted, SolveThrows
  <2>6. CASE Filter(e)
    BY <2>6 DEF Filter
  <2>7. CASE Submit(e) \/ SubmitDone(e)
    BY <2>7 DEF Submit, SubmitDone
  <2>8. CASE Recheck(e)
    BY <2>8 DEF Recheck
  <2>9. CASE RecheckFailed(e) \/ BackoffEnds(e)
    BY <2>9 DEF RecheckFailed, BackoffEnds
  <2> QED BY <1>5, <2>1, <2>2, <2>3, <2>4, <2>5, <2>6, <2>7, <2>8, <2>9 DEF Worker
<1>6. ASSUME NEW e \in Lanes, SpuriousWake(e) \/ TogglePause(e) PROVE LateInv'
  BY <1>6 DEF SpuriousWake, TogglePause, Goto, mailboxVars, workerVars, envVars, history
<1> QED BY <1>1, <1>2, <1>3, <1>4, <1>5, <1>6 DEF Next

\* A doomed solve belongs to a job whose successor is still in the mailbox.
DoomInv ==
  \A e \in Lanes :
    /\ doomed[e] => hasJob[e]
    /\ doomed[e] /\ pc[e] \in {"check", "begin", "solve", "filter"}
         => latest[e].id # work[e].id
    /\ pc[e] = "submit" => ~doomed[e]

(* The staleness test catches every doomed solve. *)
LEMMA DoomStep ==
  TypeOK /\ DoomInv /\ [Next]_vars => DoomInv'
<1> SUFFICES ASSUME TypeOK, DoomInv, [Next]_vars PROVE DoomInv'
  OBVIOUS
<1> USE DEF TypeOK, DoomInv, Preempted, Superseded
<1>1. CASE UNCHANGED vars
  BY <1>1 DEF vars
<1>2. ASSUME NEW entry \in Entry, Offer(entry) PROVE DoomInv'
  BY <1>2 DEF Offer, history
<1>3. ASSUME NEW e \in Lanes, Dispatcher(e) PROVE DoomInv'
  <2> USE DEF mailboxVars, workerVars, envVars, history
  <2>1. CASE PostJob(e)
    BY <2>1 DEF PostJob
  <2>2. CASE NotifyJob(e)
    BY <2>2 DEF NotifyJob, Notify
  <2>3. CASE AbortForJob(e)
    BY <2>3 DEF AbortForJob, RequestAbort
  <2> QED BY <1>3, <2>1, <2>2, <2>3 DEF Dispatcher
<1>4. ASSUME NEW e \in Lanes, Start(e) \/ StopAbort(e) \/ Stopper(e) PROVE DoomInv'
  <2> USE DEF mailboxVars, workerVars, envVars, history
  <2>1. CASE Start(e)
    BY <2>1 DEF Start, Goto
  <2>2. CASE StopAbort(e)
    BY <2>2 DEF StopAbort, RequestAbort
  <2>3. CASE StopSignal(e) \/ StopJoin(e)
    BY <2>3 DEF StopSignal, StopJoin
  <2>4. CASE StopNotify(e)
    BY <2>4 DEF StopNotify, Notify
  <2> QED BY <1>4, <2>1, <2>2, <2>3, <2>4 DEF Stopper
<1>5. ASSUME NEW e \in Lanes, Worker(e) PROVE DoomInv'
  <2> USE DEF Goto, mailboxVars, workerVars, envVars, history
  <2>1. CASE Sleep(e) \/ Exit(e)
    BY <2>1 DEF Sleep, Exit
  <2>2. CASE Take(e)
    BY <2>2 DEF Take, TakenEntry
  <2>3. CASE CheckPause(e) \/ PauseWaitEnds(e)
    BY <2>3 DEF CheckPause, PauseWaitEnds
  <2>4. CASE BeginSolve(e)
    BY <2>4 DEF BeginSolve
  <2>5. CASE SolveEnds(e)
    BY <2>5 DEF SolveEnds, SolveCompletes, SolveAborted, SolveThrows
  <2>6. CASE Filter(e)
    BY <2>6 DEF Filter
  <2>7. CASE Submit(e) \/ SubmitDone(e)
    BY <2>7 DEF Submit, SubmitDone
  <2>8. CASE Recheck(e)
    BY <2>8 DEF Recheck
  <2>9. CASE RecheckFailed(e) \/ BackoffEnds(e)
    BY <2>9 DEF RecheckFailed, BackoffEnds
  <2> QED BY <1>5, <2>1, <2>2, <2>3, <2>4, <2>5, <2>6, <2>7, <2>8, <2>9 DEF Worker
<1>6. ASSUME NEW e \in Lanes, SpuriousWake(e) \/ TogglePause(e) PROVE DoomInv'
  BY <1>6 DEF SpuriousWake, TogglePause, Goto, mailboxVars, workerVars, envVars, history
<1> QED BY <1>1, <1>2, <1>3, <1>4, <1>5, <1>6 DEF Next

\* A worker parked in the untimed wait although there is something for it to do
\* has a notify on its way: the wake-up of on_job() or stop() cannot be lost.
NoLostWakeup ==
  \A e \in Lanes : pc[e] = "asleep" /\ (hasJob[e] \/ stopRequested[e]) =>
    \/ dispatch.step = "notify" /\ dispatch.lane = e
    \/ stopper[e] = "notify"

LEMMA WakeupStep ==
  TypeOK /\ NoLostWakeup /\ [Next]_vars => NoLostWakeup'
<1> SUFFICES ASSUME TypeOK, NoLostWakeup, [Next]_vars PROVE NoLostWakeup'
  OBVIOUS
<1> USE DEF TypeOK, NoLostWakeup, Preempted
<1>1. CASE UNCHANGED vars
  BY <1>1 DEF vars
<1>2. ASSUME NEW entry \in Entry, Offer(entry) PROVE NoLostWakeup'
  BY <1>2 DEF Offer, history
<1>3. ASSUME NEW e \in Lanes, Dispatcher(e) PROVE NoLostWakeup'
  <2> USE DEF mailboxVars, workerVars, envVars, history
  <2>1. CASE PostJob(e)
    BY <2>1 DEF PostJob
  <2>2. CASE NotifyJob(e)
    BY <2>2 DEF NotifyJob, Notify
  <2>3. CASE AbortForJob(e)
    BY <2>3 DEF AbortForJob, RequestAbort
  <2> QED BY <1>3, <2>1, <2>2, <2>3 DEF Dispatcher
<1>4. ASSUME NEW e \in Lanes, Start(e) \/ StopAbort(e) \/ Stopper(e) PROVE NoLostWakeup'
  <2> USE DEF mailboxVars, workerVars, envVars, history
  <2>1. CASE Start(e)
    BY <2>1 DEF Start, Goto
  <2>2. CASE StopAbort(e)
    BY <2>2 DEF StopAbort, RequestAbort
  <2>3. CASE StopSignal(e) \/ StopJoin(e)
    BY <2>3 DEF StopSignal, StopJoin
  <2>4. CASE StopNotify(e)
    BY <2>4 DEF StopNotify, Notify
  <2> QED BY <1>4, <2>1, <2>2, <2>3, <2>4 DEF Stopper
<1>5. ASSUME NEW e \in Lanes, Worker(e) PROVE NoLostWakeup'
  <2> USE DEF Goto, mailboxVars, workerVars, envVars, history
  <2>1. CASE Sleep(e) \/ Exit(e)
    BY <2>1 DEF Sleep, Exit
  <2>2. CASE Take(e)
    BY <2>2 DEF Take, TakenEntry
  <2>3. CASE CheckPause(e) \/ PauseWaitEnds(e)
    BY <2>3 DEF CheckPause, PauseWaitEnds
  <2>4. CASE BeginSolve(e)
    BY <2>4 DEF BeginSolve
  <2>5. CASE SolveEnds(e)
    BY <2>5 DEF SolveEnds, SolveCompletes, SolveAborted, SolveThrows
  <2>6. CASE Filter(e)
    BY <2>6 DEF Filter
  <2>7. CASE Submit(e) \/ SubmitDone(e)
    BY <2>7 DEF Submit, SubmitDone
  <2>8. CASE Recheck(e)
    BY <2>8 DEF Recheck
  <2>9. CASE RecheckFailed(e) \/ BackoffEnds(e)
    BY <2>9 DEF RecheckFailed, BackoffEnds
  <2> QED BY <1>5, <2>1, <2>2, <2>3, <2>4, <2>5, <2>6, <2>7, <2>8, <2>9 DEF Worker
<1>6. ASSUME NEW e \in Lanes, SpuriousWake(e) \/ TogglePause(e) PROVE NoLostWakeup'
  BY <1>6 DEF SpuriousWake, TogglePause, Goto, mailboxVars, workerVars, envVars, history
<1> QED BY <1>1, <1>2, <1>3, <1>4, <1>5, <1>6 DEF Next

LEMMA AbortStep ==
  TypeOK /\ PostAbortsSolveInFlight /\ [Next]_vars => PostAbortsSolveInFlight'
<1> SUFFICES ASSUME TypeOK, PostAbortsSolveInFlight, [Next]_vars PROVE PostAbortsSolveInFlight'
  OBVIOUS
<1> USE DEF TypeOK, PostAbortsSolveInFlight, Preempted
<1>1. CASE UNCHANGED vars
  BY <1>1 DEF vars
<1>2. ASSUME NEW entry \in Entry, Offer(entry) PROVE PostAbortsSolveInFlight'
  BY <1>2 DEF Offer, history
<1>3. ASSUME NEW e \in Lanes, Dispatcher(e) PROVE PostAbortsSolveInFlight'
  <2> USE DEF mailboxVars, workerVars, envVars, history
  <2>1. CASE PostJob(e)
    BY <2>1 DEF PostJob
  <2>2. CASE NotifyJob(e)
    BY <2>2 DEF NotifyJob, Notify
  <2>3. CASE AbortForJob(e)
    BY <2>3 DEF AbortForJob, RequestAbort
  <2> QED BY <1>3, <2>1, <2>2, <2>3 DEF Dispatcher
<1>4. ASSUME NEW e \in Lanes, Start(e) \/ StopAbort(e) \/ Stopper(e) PROVE PostAbortsSolveInFlight'
  <2> USE DEF mailboxVars, workerVars, envVars, history
  <2>1. CASE Start(e)
    BY <2>1 DEF Start, Goto
  <2>2. CASE StopAbort(e)
    BY <2>2 DEF StopAbort, RequestAbort
  <2>3. CASE StopSignal(e) \/ StopJoin(e)
    BY <2>3 DEF StopSignal, StopJoin
  <2>4. CASE StopNotify(e)
    BY <2>4 DEF StopNotify, Notify
  <2> QED BY <1>4, <2>1, <2>2, <2>3, <2>4 DEF Stopper
<1>5. ASSUME NEW e \in Lanes, Worker(e) PROVE PostAbortsSolveInFlight'
  <2> USE DEF Goto, mailboxVars, workerVars, envVars, history
  <2>1. CASE Sleep(e) \/ Exit(e)
    BY <2>1 DEF Sleep, Exit
  <2>2. CASE Take(e)
    BY <2>2 DEF Take, TakenEntry
  <2>3. CASE CheckPause(e) \/ PauseWaitEnds(e)
    BY <2>3 DEF CheckPause, PauseWaitEnds
  <2>4. CASE BeginSolve(e)
    BY <2>4 DEF BeginSolve
  <2>5. CASE SolveEnds(e)
    BY <2>5 DEF SolveEnds, SolveCompletes, SolveAborted, SolveThrows
  <2>6. CASE Filter(e)
    BY <2>6 DEF Filter
  <2>7. CASE Submit(e) \/ SubmitDone(e)
    BY <2>7 DEF Submit, SubmitDone
  <2>8. CASE Recheck(e)
    BY <2>8 DEF Recheck
  <2>9. CASE RecheckFailed(e) \/ BackoffEnds(e)
    BY <2>9 DEF RecheckFailed, BackoffEnds
  <2> QED BY <1>5, <2>1, <2>2, <2>3, <2>4, <2>5, <2>6, <2>7, <2>8, <2>9 DEF Worker
<1>6. ASSUME NEW e \in Lanes, SpuriousWake(e) \/ TogglePause(e) PROVE PostAbortsSolveInFlight'
  BY <1>6 DEF SpuriousWake, TogglePause, Goto, mailboxVars, workerVars, envVars, history
<1> QED BY <1>1, <1>2, <1>3, <1>4, <1>5, <1>6 DEF Next

(* The nonce lanes. *)

\* The counters engine e walks: e, e + N, e + 2N, ...
Lane(e) == {e + k * N : k \in Nat}

\* Two different engines have no counter in common.
LEMMA LanesDisjoint ==
  ASSUME NEW e \in Lanes, NEW f \in Lanes, e # f
  PROVE  Lane(e) \cap Lane(f) = {}
<1> USE EngineAssumption DEF EngineAssumption, Lanes
<1>1. ASSUME NEW i \in Nat, NEW j \in Nat, i < j PROVE i * N + N <= j * N
  <2>1. PICK d \in Nat : j = i + 1 + d
    <3>1. j - i - 1 \in Nat /\ j = i + 1 + (j - i - 1)
      BY <1>1
    <3> QED BY <3>1
  <2>2. j * N = i * N + N + d * N
    BY <2>1
  <2>3. d * N >= 0
    OBVIOUS
  <2>4. i * N \in Int /\ d * N \in Int /\ j * N \in Int
    OBVIOUS
  <2> QED BY <2>2, <2>3, <2>4
<1>2. ASSUME NEW i \in Nat, NEW j \in Nat, e + i * N = f + j * N PROVE FALSE
  <2>1. i * N \in Int /\ j * N \in Int
    OBVIOUS
  <2>2. CASE i < j
    BY <2>1, <2>2, <1>1, <1>2
  <2>3. CASE j < i
    BY <2>1, <2>3, <1>1, <1>2
  <2>4. CASE i = j
    BY <2>1, <2>4, <1>2
  <2> QED BY <2>2, <2>3, <2>4
<1> QED BY <1>2 DEF Lane

\* Every counter an engine has used is in its lane and below its next one.
LaneInv ==
  \A e \in Lanes :
    /\ nonceCounter[e] \in Lane(e)
    /\ \A n \in tried[e] : n \in Lane(e) /\ n < nonceCounter[e]

\* The next counter of a lane is in the lane.
LEMMA LaneStep ==
  ASSUME NEW e \in Lanes, NEW n \in Lane(e)
  PROVE  n + N \in Lane(e) /\ n \in Nat /\ n < n + N
<1> USE EngineAssumption DEF EngineAssumption, Lanes
<1>1. PICK k \in Nat : n = e + k * N
  BY DEF Lane
<1>2. k * N \in Nat /\ (k + 1) * N = k * N + N
  BY SMT
<1>3. n + N = e + (k + 1) * N
  BY <1>1, <1>2
<1> QED BY <1>1, <1>2, <1>3 DEF Lane

LEMMA LaneInvStep == TypeOK /\ LaneInv /\ [Next]_vars => LaneInv'
<1> SUFFICES ASSUME TypeOK, LaneInv, [Next]_vars PROVE LaneInv'
  OBVIOUS
<1>1. ASSUME NEW e \in Lanes, BeginSolve(e) PROVE LaneInv'
  <2>1. nonceCounter[e] + N \in Lane(e) /\ nonceCounter[e] < nonceCounter[e] + N
    BY LaneStep DEF LaneInv
  <2>2. /\ nonceCounter' = [nonceCounter EXCEPT ![e] = nonceCounter[e] + N]
        /\ tried' = [tried EXCEPT ![e] = tried[e] \cup {nonceCounter[e]}]
    BY <1>1 DEF BeginSolve, Stride
  <2>3. ASSUME NEW n \in tried[e] PROVE n \in Lane(e) /\ n < nonceCounter[e] + N
    <3>1. n < nonceCounter[e] /\ n \in Nat /\ nonceCounter[e] \in Nat
      BY <2>3 DEF LaneInv, TypeOK
    <3> QED BY <3>1, <2>1, <2>3, EngineAssumption DEF LaneInv, EngineAssumption
  <2> QED BY <2>1, <2>2, <2>3 DEF LaneInv, TypeOK
<1>2. CASE UNCHANGED <<nonceCounter, tried>>
  BY <1>2 DEF LaneInv
<1>3. [Next]_vars => UNCHANGED <<nonceCounter, tried>> \/ \E e \in Lanes : BeginSolve(e)
  <2> USE DEF mailboxVars, workerVars, envVars, history, vars
  <2>1. ASSUME NEW e \in Lanes, Worker(e)
        PROVE  UNCHANGED <<nonceCounter, tried>> \/ BeginSolve(e)
    BY <2>1 DEF Worker, SolveEnds, Sleep, Exit, Take, CheckPause, PauseWaitEnds,
                SolveCompletes, SolveAborted, SolveThrows, Filter, Submit, SubmitDone,
                Recheck, RecheckFailed, BackoffEnds
  <2>2. ASSUME NEW e \in Lanes,
               Dispatcher(e) \/ Start(e) \/ StopAbort(e) \/ Stopper(e)
                 \/ SpuriousWake(e) \/ TogglePause(e)
        PROVE  UNCHANGED <<nonceCounter, tried>>
    BY <2>2 DEF Dispatcher, PostJob, NotifyJob, AbortForJob, Start, StopAbort, Stopper,
                StopSignal, StopNotify, StopJoin, SpuriousWake, TogglePause
  <2>3. ASSUME NEW entry \in Entry, Offer(entry) PROVE UNCHANGED <<nonceCounter, tried>>
    BY <2>3 DEF Offer
  <2> QED BY <2>1, <2>2, <2>3 DEF Next
<1> QED BY <1>1, <1>2, <1>3

-----------------------------------------------------------------------------
(* The inductive invariant, and the theorems. *)

IInv == /\ TypeOK
        /\ FlowInv
        /\ WorkerLifetime
        /\ LateInv
        /\ DoomInv
        /\ NoLostWakeup
        /\ PostAbortsSolveInFlight
        /\ LaneInv

LEMMA InitIInv == Init => IInv
<1> SUFFICES ASSUME Init PROVE IInv
  OBVIOUS
<1>1. TypeOK
  BY InitType
<1>2. /\ FlowInv /\ WorkerLifetime /\ LateInv /\ DoomInv /\ NoLostWakeup
      /\ PostAbortsSolveInFlight
  BY DEF Init, FlowInv, Working, SharesMatchAPost, WorkerLifetime, LateInv, DoomInv,
         NoLostWakeup, PostAbortsSolveInFlight
<1>3. LaneInv
  <2>1. ASSUME NEW e \in Lanes PROVE e \in Lane(e)
    <3>1. 0 \in Nat /\ e = e + 0 * N
      BY EngineAssumption DEF EngineAssumption, Lanes
    <3> QED BY <3>1 DEF Lane
  <2> QED BY <2>1 DEF Init, LaneInv
<1> QED BY <1>1, <1>2, <1>3 DEF IInv

LEMMA NextIInv == IInv /\ [Next]_vars => IInv'
BY NextType, FlowStep, LifetimeStep, LateStep, DoomStep, WakeupStep, AbortStep, LaneInvStep
   DEF IInv

LEMMA SpecIInv == Spec => []IInv
BY InitIInv, NextIInv, PTL DEF Spec

\* Type correctness: every variable keeps its type under every interleaving of
\* the dispatcher, the workers, start(), stop() and the environment.
THEOREM TypeCorrect == Spec => []TypeOK
<1>1. IInv => TypeOK
  BY DEF IInv
<1> QED BY <1>1, SpecIInv, PTL

\* Whatever reaches submit_fn carries the id, prefix and origin of one on_job()
\* call for a well-formed job.
THEOREM SharesAreOfOnePost == Spec => []SharesMatchAPost
<1>1. IInv => SharesMatchAPost
  BY DEF IInv, FlowInv
<1> QED BY <1>1, SpecIInv, PTL

\* A job that has been overtaken, or a stop request, costs at most one more solve.
THEOREM AtMostOneLateSolve == Spec => []OneLateSolve
<1>1. IInv => OneLateSolve
  BY DEF IInv, LateInv, OneLateSolve
<1> QED BY <1>1, SpecIInv, PTL

\* No solution is submitted from a solve that a different job overtook before
\* the staleness test.
THEOREM DoomedSharesAreDropped == Spec => []NoDoomedShare
<1>1. IInv => NoDoomedShare
  BY DEF IInv, DoomInv, NoDoomedShare
<1> QED BY <1>1, SpecIInv, PTL

\* A sleeping worker with something to do has a notify on its way, the worker
\* thread ends only by stop(), and the solve a job overtakes is told to abort.
THEOREM WakeupsAbortsAndLifetime ==
  Spec => [](NoLostWakeup /\ WorkerLifetime /\ PostAbortsSolveInFlight)
<1>1. IInv => NoLostWakeup /\ WorkerLifetime /\ PostAbortsSolveInFlight
  BY DEF IInv
<1> QED BY <1>1, SpecIInv, PTL

\* The counter of a solve that begins is none that any engine has used.
LEMMA CounterIsFresh ==
  ASSUME IInv, NEW e \in Lanes
  PROVE  nonceCounter[e] \notin AllTried
<1>1. ASSUME NEW f \in Lanes, nonceCounter[e] \in tried[f] PROVE FALSE
  <2>1. CASE f = e
    <3>1. nonceCounter[e] < nonceCounter[e] /\ nonceCounter[e] \in Nat
      BY <1>1, <2>1 DEF IInv, LaneInv, TypeOK
    <3> QED BY <3>1
  <2>2. CASE f # e
    BY <1>1, <2>2, LanesDisjoint DEF IInv, LaneInv
  <2> QED BY <2>1, <2>2
<1> QED BY <1>1 DEF AllTried

\* No two solves of the whole rig are ever given the same counter value.
THEOREM NoncesAreFresh == Spec => NoNonceTwice
<1>1. IInv /\ [Next]_vars =>
        [\A e \in Lanes : pc[e] = "begin" /\ pc'[e] = "solve" => nonce'[e] \notin AllTried]_vars
  <2> SUFFICES ASSUME IInv, Next, NEW e \in Lanes, pc[e] = "begin", pc'[e] = "solve"
               PROVE  nonce'[e] \notin AllTried
    OBVIOUS
  <2>1. BeginSolve(e)
    <3> USE DEF mailboxVars, workerVars, envVars, history, Goto, Notify, IInv, TypeOK
    <3>1. ASSUME NEW f \in Lanes, Worker(f) PROVE BeginSolve(e)
      BY <3>1 DEF Worker, SolveEnds, Sleep, Exit, Take, CheckPause, PauseWaitEnds,
                  SolveCompletes, SolveAborted, SolveThrows, Filter, Submit, SubmitDone,
                  Recheck, RecheckFailed, BackoffEnds, BeginSolve
    <3>2. ASSUME NEW f \in Lanes,
                 Dispatcher(f) \/ Start(f) \/ StopAbort(f) \/ Stopper(f)
                   \/ SpuriousWake(f) \/ TogglePause(f)
          PROVE  FALSE
      BY <3>2 DEF Dispatcher, PostJob, NotifyJob, AbortForJob, Start, StopAbort, Stopper,
                  StopSignal, StopNotify, StopJoin, SpuriousWake, TogglePause
    <3>3. ASSUME NEW entry \in Entry, Offer(entry) PROVE FALSE
      BY <3>3 DEF Offer
    <3> QED BY <3>1, <3>2, <3>3 DEF Next
  <2>2. nonce'[e] = nonceCounter[e]
    BY <2>1 DEF BeginSolve, IInv, TypeOK
  <2> QED BY <2>2, CounterIsFresh
<1> QED BY <1>1, SpecIInv, PTL DEF NoNonceTwice, Spec

-----------------------------------------------------------------------------
(* Each engine implements the abstract miner.                              *)

LEMMA InitImplements == Init => AbstractMiner!Init
<1> SUFFICES ASSUME Init PROVE AbstractMiner!Init
  OBVIOUS
<1>1. Slot = [e \in Lanes |-> {}] /\ Late = [e \in Lanes |-> FALSE]
  <2>1. Slot = [e \in Lanes |-> {}]
    BY DEF Init, Slot
  <2>2. ASSUME NEW e \in Lanes PROVE (lateSolves[e] > 0) = FALSE
    BY DEF Init
  <2>3. Late = [e \in Lanes |-> FALSE]
    BY <2>2, Zenon DEF Late
  <2> QED BY <2>1, <2>3
<1>2. /\ Mined = [e \in Lanes |-> {}] /\ Attempted = [e \in Lanes |-> {}]
      /\ Passed = [e \in Lanes |-> FALSE]
  BY DEF Init, Mined, Attempted, Passed, Working, Attempting
<1>3. AllTried = {}
  BY DEF Init, AllTried
<1>4. stopRequested = [e \in Lanes |-> FALSE] /\ posted = {} /\ submitted = {}
  BY DEF Init
<1> QED BY <1>1, <1>2, <1>3, <1>4 DEF AbstractMiner!Init

\* What a move of one worker thread does to the job and the attempt it has in hand.
LEMMA PcStep ==
  ASSUME TypeOK, NEW e \in Lanes, NEW l, Goto(e, l), UNCHANGED <<work, nonce>>
  PROVE  /\ (pc[e] \in Working <=> l \in Working) => Mined' = Mined
         /\ l \notin Working => Mined' = [Mined EXCEPT ![e] = {}]
         /\ (pc[e] \in Attempting <=> l \in Attempting) => Attempted' = Attempted
         /\ l \notin Attempting => Attempted' = [Attempted EXCEPT ![e] = {}]
         /\ (pc[e] = "submit" <=> l = "submit") => Passed' = Passed
         /\ Passed' = [Passed EXCEPT ![e] = (l = "submit")]
<1>1. pc' = [pc EXCEPT ![e] = l] /\ pc \in [Lanes -> PCs]
  BY DEF Goto, TypeOK
<1>2. /\ (pc[e] \in Working <=> l \in Working) => Mined' = Mined
      /\ l \notin Working => Mined' = [Mined EXCEPT ![e] = {}]
  BY <1>1 DEF Mined
<1>3. /\ (pc[e] \in Attempting <=> l \in Attempting) => Attempted' = Attempted
      /\ l \notin Attempting => Attempted' = [Attempted EXCEPT ![e] = {}]
  BY <1>1 DEF Attempted
<1>4. /\ (pc[e] = "submit" <=> l = "submit") => Passed' = Passed
      /\ Passed' = [Passed EXCEPT ![e] = (l = "submit")]
  BY <1>1 DEF Passed
<1> QED BY <1>2, <1>3, <1>4

\* A notify moves a worker only between two places where it has nothing in hand.
LEMMA NotifyStep ==
  ASSUME TypeOK, NEW e \in Lanes, Notify(e), UNCHANGED <<work, nonce>>
  PROVE  UNCHANGED <<Mined, Attempted, Passed>>
<1>1. CASE pc' = pc
  BY <1>1 DEF Mined, Attempted, Passed
<1>2. CASE pc[e] = "asleep" /\ Goto(e, "wait")
  <2>1. /\ pc[e] \notin Working /\ "wait" \notin Working /\ pc[e] # "submit"
        /\ pc[e] \notin Attempting /\ "wait" \notin Attempting
    BY <1>2 DEF Working, Attempting
  <2> QED BY <1>2, <2>1, PcStep
<1> QED BY <1>1, <1>2 DEF Notify, Goto

\* What the miner's state is made of, when that is left alone.
LEMMA SameParts ==
  /\ UNCHANGED <<latest, hasJob>> => Slot' = Slot
  /\ UNCHANGED lateSolves => Late' = Late
  /\ UNCHANGED tried => AllTried' = AllTried
  /\ UNCHANGED <<pc, work, nonce>> => UNCHANGED <<Mined, Attempted, Passed>>
BY DEF Slot, Late, AllTried, Mined, Attempted, Passed

\* The mailbox, the histories and stop_requested_ are left alone.
Outside == UNCHANGED <<latest, hasJob, stopRequested, lateSolves, tried, posted, submitted>>

LEMMA OutsideKeeps ==
  Outside => UNCHANGED <<Slot, stopRequested, Late, AllTried, posted, submitted>>
BY SameParts DEF Outside

\* The whole abstract state is left alone.
Unseen == UNCHANGED <<Slot, stopRequested, Mined, Attempted, Passed, Late, AllTried,
                      posted, submitted>>

LEMMA HandedOn ==
  ASSUME Outside, UNCHANGED <<Mined, Attempted, Passed>>
  PROVE  Unseen
BY OutsideKeeps DEF Unseen

\* The four places where the inner loop looks at the mailbox: the worker lays its job
\* down when something waits, and goes on with it otherwise.
LEMMA LooksUp ==
  ASSUME TypeOK, NEW e \in Lanes, NEW l, l \in Working \ Attempting,
         pc[e] \in Working \ Attempting, Outside, UNCHANGED <<work, nonce>>,
         Goto(e, IF Preempted(e) THEN "wait" ELSE l)
  PROVE  AbstractMiner!LayDown(e) \/ Unseen
<1>1. /\ "wait" \notin Working /\ "wait" \notin Attempting /\ l # "submit" /\ pc[e] # "submit"
  BY DEF Working, Attempting
<1>2. CASE ~Preempted(e)
  <2>1. Goto(e, l)
    BY <1>2
  <2>2. UNCHANGED <<Mined, Attempted, Passed>>
    BY <1>1, <2>1, PcStep
  <2> QED BY <2>2, HandedOn
<1>3. CASE Preempted(e)
  <2>1. Goto(e, "wait")
    BY <1>3
  <2>2. Mined' = [Mined EXCEPT ![e] = {}] /\ UNCHANGED <<Attempted, Passed>>
    BY <1>1, <2>1, PcStep
  <2>3. Mined[e] # {} /\ Attempted[e] = {}
    BY DEF Mined, Attempted
  <2>4. AbstractMiner!Waiting(e)
    BY <1>3 DEF Preempted, Slot, AbstractMiner!Waiting
  <2>5. UNCHANGED <<Slot, stopRequested, Late, AllTried, posted, submitted>>
    BY OutsideKeeps
  <2>6. AbstractMiner!LayDown(e)
    BY <2>2, <2>3, <2>4, <2>5 DEF AbstractMiner!LayDown
  <2> QED BY <2>6
<1> QED BY <1>2, <1>3

\* The worker moves without laying anything down or taking anything up.
LEMMA MovesOn ==
  ASSUME TypeOK, NEW e \in Lanes, NEW l, Goto(e, l), Outside, UNCHANGED <<work, nonce>>,
         pc[e] \in Working <=> l \in Working, pc[e] \in Attempting <=> l \in Attempting,
         pc[e] # "submit", l # "submit"
  PROVE  Unseen
<1>1. UNCHANGED <<Mined, Attempted, Passed>>
  BY PcStep
<1> QED BY <1>1, HandedOn

\* The attempt in hand ends.
LEMMA EndsAttempt ==
  ASSUME TypeOK, NEW e \in Lanes, NEW l, Goto(e, l), Outside, UNCHANGED <<work, nonce>>,
         pc[e] \in Attempting, l \in Working \ Attempting
  PROVE  AbstractMiner!End(e)
<1>1. pc[e] \in Working /\ l # "submit"
  BY DEF Attempting, Working
<1>2. /\ UNCHANGED Mined /\ Attempted' = [Attempted EXCEPT ![e] = {}]
      /\ Passed' = [Passed EXCEPT ![e] = (l = "submit")]
  BY <1>1, PcStep
<1>3. (l = "submit") = FALSE
  BY <1>1
<1>4. Passed' = [Passed EXCEPT ![e] = FALSE]
  BY <1>2, <1>3, Zenon
<1>5. Attempted[e] # {}
  BY DEF Attempted
<1>6. UNCHANGED <<Slot, stopRequested, Late, AllTried, posted, submitted>>
  BY OutsideKeeps
<1> QED BY <1>2, <1>4, <1>5, <1>6, Zenon DEF AbstractMiner!End

LEMMA Posts ==
  ASSUME IInv, NEW e \in Lanes, PostJob(e)
  PROVE  \E x \in Entry : AbstractMiner!Post(e, x)
<1> DEFINE x == dispatch.entry
<1>1. x \in Entry
  BY DEF IInv, FlowInv, PostJob
<1>2. Slot' = [Slot EXCEPT ![e] = {x}]
  BY DEF IInv, TypeOK, PostJob, Slot
<1>3. UNCHANGED <<stopRequested, lateSolves, tried, pc, work, nonce, submitted>>
  BY DEF PostJob, workerVars
<1>4. posted' = posted \cup {x}
  BY DEF PostJob
<1>5. UNCHANGED <<Mined, Attempted, Passed, Late, AllTried>>
  BY <1>3, SameParts
<1> HIDE DEF x
<1>6. AbstractMiner!Post(e, x)
  BY <1>2, <1>3, <1>4, <1>5 DEF AbstractMiner!Post
<1> QED BY <1>1, <1>6

LEMMA Takes ==
  ASSUME IInv, NEW e \in Lanes, Take(e)
  PROVE  AbstractMiner!TakeUp(e)
<1> DEFINE x == latest[e]
           l == IF x.id \in Malformed THEN "wait" ELSE "check"
<1>1. TypeOK /\ x \in Entry
  BY DEF IInv, FlowInv, TypeOK, Take
<1>2. /\ work' = [work EXCEPT ![e] = x] /\ pc' = [pc EXCEPT ![e] = l]
      /\ hasJob' = [hasJob EXCEPT ![e] = FALSE] /\ lateSolves' = [lateSolves EXCEPT ![e] = 0]
      /\ pc[e] = "wait" /\ hasJob[e] /\ ~stopRequested[e]
      /\ UNCHANGED <<latest, stopRequested, nonce, tried, posted, submitted>>
  BY DEF Take, TakenEntry, Goto
<1>3. "wait" \notin Working /\ "check" \in Working
  BY DEF Working
<1>4. Slot[e] = {x} /\ Slot' = [Slot EXCEPT ![e] = {}]
  BY <1>1, <1>2 DEF TypeOK, Slot
<1>5. Mined[e] = {}
  BY <1>2, <1>3 DEF Mined
<1>6. Mined' = [Mined EXCEPT ![e] = {x} \ BadEntries]
  <2>1. {x} \ BadEntries = IF x.id \in Malformed THEN {} ELSE {x}
    BY <1>1 DEF BadEntries
  <2>2. l \in Working <=> ~(x.id \in Malformed)
    BY <1>3
  <2> HIDE DEF l, x
  <2>3. Mined' = [Mined EXCEPT ![e] = IF x.id \in Malformed THEN {} ELSE {x}]
    BY <1>1, <1>2, <2>2 DEF TypeOK, Mined
  <2> QED BY <2>1, <2>3
<1>7. UNCHANGED <<Attempted, Passed>>
  <2>1. "wait" \notin Attempting /\ l \notin Attempting /\ l # "submit"
    BY DEF Attempting
  <2> HIDE DEF l
  <2>2. Attempted' = Attempted
    BY <1>1, <1>2, <2>1 DEF TypeOK, Attempted
  <2>3. Passed' = Passed
    BY <1>1, <1>2, <2>1 DEF TypeOK, Passed
  <2> QED BY <2>2, <2>3
<1>8. Late' = [Late EXCEPT ![e] = FALSE]
  <2>1. (0 > 0) = FALSE
    OBVIOUS
  <2>2. Late' = [Late EXCEPT ![e] = (0 > 0)]
    BY <1>1, <1>2 DEF TypeOK, Late
  <2> QED BY <2>1, <2>2, Zenon
<1>9. AllTried' = AllTried
  BY <1>2, SameParts
<1> HIDE DEF x, l
<1>10. Slot[e] # {} /\ Mined' = [Mined EXCEPT ![e] = Slot[e] \ BadEntries]
  BY <1>4, <1>6
<1> QED BY <1>2, <1>4, <1>5, <1>7, <1>8, <1>9, <1>10 DEF AbstractMiner!TakeUp

LEMMA Begins ==
  ASSUME IInv, NEW e \in Lanes, BeginSolve(e)
  PROVE  AbstractMiner!Begin(e)
<1> DEFINE n == nonceCounter[e]
<1>1. TypeOK /\ lateSolves[e] = 0
  BY DEF IInv, LateInv, BeginSolve
<1>2. /\ pc[e] = "begin" /\ pc' = [pc EXCEPT ![e] = "solve"] /\ nonce' = [nonce EXCEPT ![e] = n]
      /\ tried' = [tried EXCEPT ![e] = tried[e] \cup {n}]
      /\ UNCHANGED <<latest, hasJob, stopRequested, work, posted, submitted>>
  BY DEF BeginSolve, Goto, mailboxVars
<1>3. lateSolves' = [lateSolves EXCEPT ![e] = IF hasJob[e] \/ stopRequested[e] THEN 1 ELSE 0]
  BY <1>1 DEF BeginSolve
<1>4. /\ "begin" \in Working /\ "solve" \in Working
      /\ "begin" \notin Attempting /\ "solve" \in Attempting
  BY DEF Working, Attempting
<1>5. n \notin AllTried /\ AllTried' = AllTried \cup {n}
  <2>1. tried \in [Lanes -> SUBSET Nat]
    BY <1>1 DEF TypeOK
  <2>2. n \notin AllTried
    BY CounterIsFresh
  <2> HIDE DEF n
  <2>3. \A f \in Lanes : tried'[f] = IF f = e THEN tried[e] \cup {n} ELSE tried[f]
    BY <1>2, <2>1
  <2>4. AllTried' = AllTried \cup {n}
    BY <2>3 DEF AllTried
  <2> QED BY <2>2, <2>4
<1> HIDE DEF n
<1>6. n \in AllTried' \ AllTried
  BY <1>5
<1>7. Mined[e] # {} /\ Attempted[e] = {}
  BY <1>2, <1>4 DEF Mined, Attempted
<1>8. Mined' = Mined /\ Attempted' = [Attempted EXCEPT ![e] = {n}]
  <2>1. pc \in [Lanes -> PCs] /\ nonce \in [Lanes -> Nat]
    BY <1>1 DEF TypeOK
  <2>2. Mined' = Mined
    BY <1>2, <1>4, <2>1 DEF Mined
  <2>3. Attempted' = [Attempted EXCEPT ![e] = {n}]
    BY <1>2, <1>4, <2>1 DEF Attempted
  <2> QED BY <2>2, <2>3
<1>9. Passed' = Passed
  BY <1>1, <1>2 DEF TypeOK, Passed
<1>10. Slot' = Slot
  BY <1>2, SameParts
<1> DEFINE waits == AbstractMiner!Waiting(e)
<1>11. waits = (hasJob[e] \/ stopRequested[e])
  <2>1. (Slot[e] # {}) = hasJob[e]
    BY <1>1 DEF Slot, TypeOK
  <2> QED BY <2>1, Zenon DEF AbstractMiner!Waiting
<1>12. ~Late[e]
  <2>1. ~(lateSolves[e] > 0)
    BY <1>1
  <2> QED BY <2>1, Zenon DEF Late
<1> HIDE DEF waits
<1>13. Late' = [Late EXCEPT ![e] = waits]
  <2> DEFINE k == IF hasJob[e] \/ stopRequested[e] THEN 1 ELSE 0
  <2>1. (k > 0) = waits
    <3>1. waits \in BOOLEAN
      BY <1>11, Zenon
    <3>2. CASE waits
      <4>1. k = 1
        BY <1>11, <3>2
      <4>2. k > 0
        BY <4>1
      <4> QED BY <3>2, <4>2, <3>1
    <3>3. CASE ~waits
      <4>1. k = 0
        BY <1>11, <3>3
      <4>2. ~(k > 0)
        BY <4>1
      <4> QED BY <3>3, <4>2, <3>1
    <3> QED BY <3>2, <3>3
  <2>2. Late' = [Late EXCEPT ![e] = (k > 0)]
    <3> HIDE DEF k
    <3>1. lateSolves' = [lateSolves EXCEPT ![e] = k]
      BY <1>3 DEF k
    <3> QED BY <1>1, <3>1 DEF TypeOK, Late
  <2> QED BY <2>1, <2>2, Zenon
<1>14. Late' = [Late EXCEPT ![e] = AbstractMiner!Waiting(e)]
  BY <1>13, Zenon DEF waits
<1> QED BY <1>2, <1>5, <1>6, <1>7, <1>8, <1>9, <1>10, <1>12, <1>14, Zenon DEF AbstractMiner!Begin

LEMMA Filters ==
  ASSUME TypeOK, NEW e \in Lanes, Filter(e)
  PROVE  AbstractMiner!Pass(e) \/ AbstractMiner!End(e)
<1>1. /\ pc[e] = "filter" /\ pc[e] \in Attempting /\ pc[e] \in Working
      /\ Goto(e, IF Superseded(e) THEN "recheck" ELSE "submit")
      /\ Outside /\ UNCHANGED <<work, nonce>>
  BY DEF Filter, Outside, mailboxVars, history, Attempting, Working
<1>2. CASE Superseded(e)
  <2>1. Goto(e, "recheck") /\ "recheck" \in Working \ Attempting
    BY <1>1, <1>2 DEF Working, Attempting
  <2> QED BY <1>1, <2>1, EndsAttempt
<1>3. CASE ~Superseded(e)
  <2>1. Goto(e, "submit") /\ "submit" \in Working /\ "submit" \in Attempting
    BY <1>1, <1>3 DEF Working, Attempting
  <2>2. UNCHANGED <<Mined, Attempted>> /\ Passed' = [Passed EXCEPT ![e] = ("submit" = "submit")]
    BY <1>1, <2>1, PcStep
  <2>3. Passed' = [Passed EXCEPT ![e] = TRUE]
    BY <2>2, Zenon
  <2>4. Attempted[e] # {} /\ ~Passed[e]
    BY <1>1 DEF Attempted, Passed
  <2>5. \A x \in Slot[e], y \in Mined[e] : x.id = y.id
    BY <1>1, <1>3 DEF Superseded, Slot, Mined
  <2>6. UNCHANGED <<Slot, stopRequested, Late, AllTried, posted, submitted>>
    BY <1>1, OutsideKeeps
  <2>7. AbstractMiner!Pass(e)
    BY <2>2, <2>3, <2>4, <2>5, <2>6, Zenon DEF AbstractMiner!Pass
  <2> QED BY <2>7
<1> QED BY <1>2, <1>3

LEMMA Submits ==
  ASSUME TypeOK, NEW e \in Lanes, Submit(e)
  PROVE  AbstractMiner!Deliver(e)
<1>1. /\ pc[e] = "submit"
      /\ submitted' = submitted \cup {[entry |-> work[e], lane |-> e, nonce |-> nonce[e]]}
      /\ UNCHANGED <<latest, hasJob, stopRequested, pc, work, nonce, tried, lateSolves, posted>>
  BY DEF Submit, mailboxVars
<1>2. Passed[e] /\ work[e] \in Mined[e] /\ nonce[e] \in Attempted[e]
  BY <1>1 DEF Passed, Mined, Attempted, Working, Attempting
<1>3. UNCHANGED <<Slot, Mined, Attempted, Passed, Late, AllTried>>
  BY <1>1, SameParts
<1> QED BY <1>1, <1>2, <1>3 DEF AbstractMiner!Deliver

\* Every step of a worker thread is one of its miner, or does not show.
LEMMA WorkerMines ==
  ASSUME IInv, NEW e \in Lanes, Worker(e)
  PROVE  AbstractMiner!Next \/ Unseen
<1>1. TypeOK
  BY DEF IInv
<1> USE DEF mailboxVars, history, Outside, workerVars
<1>2. CASE Sleep(e) \/ Exit(e)
  <2>1. PICK l \in {"asleep", "off"} : Goto(e, l)
    BY <1>2 DEF Sleep, Exit
  <2>2. Outside /\ UNCHANGED <<work, nonce>> /\ pc[e] = "wait"
    BY <1>2 DEF Sleep, Exit
  <2>3. /\ pc[e] \notin Working /\ l \notin Working /\ pc[e] \notin Attempting
        /\ l \notin Attempting /\ pc[e] # "submit" /\ l # "submit"
    BY <2>2 DEF Working, Attempting
  <2> QED BY <1>1, <2>1, <2>2, <2>3, MovesOn
<1>3. CASE Take(e)
  BY <1>3, Takes DEF AbstractMiner!Next
<1>4. CASE CheckPause(e) \/ (SolveEnds(e) /\ ~SolveThrows(e))
  <2>1. PICK l \in {"pausing", "begin", "filter"} :
          /\ Goto(e, l) /\ pc[e] = IF l = "filter" THEN "solve" ELSE "check"
    BY <1>4 DEF CheckPause, SolveEnds, SolveCompletes, SolveAborted
  <2>2. Outside /\ UNCHANGED <<work, nonce>>
    BY <1>4 DEF CheckPause, SolveEnds, SolveCompletes, SolveAborted
  <2>3. /\ pc[e] \in Working /\ l \in Working /\ (pc[e] \in Attempting <=> l \in Attempting)
        /\ pc[e] # "submit" /\ l # "submit"
    BY <2>1 DEF Working, Attempting
  <2> QED BY <1>1, <2>1, <2>2, <2>3, MovesOn
<1>5. CASE PauseWaitEnds(e) \/ Recheck(e) \/ RecheckFailed(e) \/ BackoffEnds(e)
  <2>1. PICK l \in {"check", "backoff"} : Goto(e, IF Preempted(e) THEN "wait" ELSE l)
    BY <1>5 DEF PauseWaitEnds, Recheck, RecheckFailed, BackoffEnds
  <2>2. /\ Outside /\ UNCHANGED <<work, nonce>>
        /\ pc[e] \in {"pausing", "recheck", "failed", "backoff"}
    BY <1>5 DEF PauseWaitEnds, Recheck, RecheckFailed, BackoffEnds
  <2>3. l \in Working \ Attempting /\ pc[e] \in Working \ Attempting
    BY <2>2 DEF Working, Attempting
  <2> QED BY <1>1, <2>1, <2>2, <2>3, LooksUp DEF AbstractMiner!Next
<1>6. CASE BeginSolve(e)
  BY <1>6, Begins DEF AbstractMiner!Next
<1>7. CASE SolveThrows(e) \/ SubmitDone(e)
  <2>1. PICK l \in {"failed", "recheck"} : Goto(e, l)
    BY <1>7 DEF SolveThrows, SubmitDone
  <2>2. Outside /\ UNCHANGED <<work, nonce>> /\ pc[e] \in {"solve", "submit"}
    BY <1>7 DEF SolveThrows, SubmitDone
  <2>3. pc[e] \in Attempting /\ l \in Working \ Attempting
    BY <2>2 DEF Working, Attempting
  <2> QED BY <1>1, <2>1, <2>2, <2>3, EndsAttempt DEF AbstractMiner!Next
<1>8. CASE Filter(e)
  BY <1>1, <1>8, Filters DEF AbstractMiner!Next
<1>9. CASE Submit(e)
  BY <1>1, <1>9, Submits DEF AbstractMiner!Next
<1> QED BY <1>2, <1>3, <1>4, <1>5, <1>6, <1>7, <1>8, <1>9 DEF Worker, SolveEnds

LEMMA NextImplements == IInv /\ [Next]_vars => [AbstractMiner!Next]_(AbstractMiner!miner)
<1> SUFFICES ASSUME IInv, [Next]_vars PROVE AbstractMiner!Next \/ Unseen
  BY DEF Unseen, AbstractMiner!miner
<1>0. TypeOK /\ WorkerLifetime
  BY DEF IInv
<1> USE DEF mailboxVars, history, workerVars
<1>1. CASE UNCHANGED vars
  BY <1>1, SameParts DEF vars, Unseen
<1>2. ASSUME NEW entry \in Entry, Offer(entry) PROVE Unseen
  BY <1>2, SameParts DEF Offer, Unseen
<1>3. ASSUME NEW e \in Lanes, PostJob(e) PROVE AbstractMiner!Next
  BY <1>3, Posts DEF AbstractMiner!Next
<1>4. ASSUME NEW e \in Lanes, NotifyJob(e) \/ StopNotify(e) PROVE Unseen
  <2>1. Outside /\ UNCHANGED <<work, nonce>> /\ Notify(e)
    BY <1>4 DEF NotifyJob, StopNotify, Outside
  <2> QED BY <1>0, <2>1, NotifyStep, HandedOn
<1>5. ASSUME NEW e \in Lanes, AbortForJob(e) \/ StopAbort(e) \/ StopJoin(e) \/ TogglePause(e)
      PROVE  Unseen
  <2>1. Outside /\ UNCHANGED <<pc, work, nonce>>
    BY <1>5 DEF AbortForJob, StopAbort, StopJoin, TogglePause, Outside
  <2> QED BY <2>1, SameParts, HandedOn
<1>6. ASSUME NEW e \in Lanes, Start(e) PROVE AbstractMiner!Next
  <2>1. /\ Goto(e, "wait") /\ stopRequested' = [stopRequested EXCEPT ![e] = FALSE]
        /\ UNCHANGED <<latest, hasJob, lateSolves, tried, work, nonce, posted, submitted>>
        /\ pc[e] = "off"
    BY <1>0, <1>6 DEF Start, WorkerLifetime
  <2>2. /\ pc[e] \notin Working /\ "wait" \notin Working /\ pc[e] \notin Attempting
        /\ "wait" \notin Attempting /\ pc[e] # "submit"
    BY <2>1 DEF Working, Attempting
  <2>3. UNCHANGED <<Mined, Attempted, Passed>>
    BY <1>0, <2>1, <2>2, PcStep
  <2>4. UNCHANGED <<Slot, Late, AllTried>>
    BY <2>1, SameParts
  <2>5. Mined[e] = {}
    BY <2>2 DEF Mined
  <2>6. AbstractMiner!Resume(e)
    BY <2>1, <2>3, <2>4, <2>5 DEF AbstractMiner!Resume
  <2> QED BY <2>6 DEF AbstractMiner!Next
<1>7. ASSUME NEW e \in Lanes, StopSignal(e) PROVE AbstractMiner!Next
  <2>1. /\ stopRequested' = [stopRequested EXCEPT ![e] = TRUE]
        /\ UNCHANGED <<latest, hasJob, lateSolves, tried, pc, work, nonce, posted, submitted>>
    BY <1>7 DEF StopSignal
  <2>2. UNCHANGED <<Slot, Late, AllTried, Mined, Attempted, Passed>>
    BY <2>1, SameParts
  <2>3. AbstractMiner!Halt(e)
    BY <2>1, <2>2 DEF AbstractMiner!Halt
  <2> QED BY <2>3 DEF AbstractMiner!Next
<1>8. ASSUME NEW e \in Lanes, SpuriousWake(e) PROVE Unseen
  <2>1. Goto(e, "wait") /\ Outside /\ UNCHANGED <<work, nonce>> /\ pc[e] = "asleep"
    BY <1>8 DEF SpuriousWake, Outside
  <2>2. /\ pc[e] \notin Working /\ "wait" \notin Working /\ pc[e] \notin Attempting
        /\ "wait" \notin Attempting /\ pc[e] # "submit"
    BY <2>1 DEF Working, Attempting
  <2> QED BY <1>0, <2>1, <2>2, MovesOn
<1>9. ASSUME NEW e \in Lanes, Worker(e) PROVE AbstractMiner!Next \/ Unseen
  BY <1>9, WorkerMines
<1> QED BY <1>1, <1>2, <1>3, <1>4, <1>5, <1>6, <1>7, <1>8, <1>9
        DEF Next, Dispatcher, Stopper

\* However the dispatching thread, the workers, stop() and the callbacks interleave,
\* every engine behaves as the abstract miner: it takes up the latest post whole, lays
\* it down only for another or for a stop, begins at most one attempt late, never
\* repeats a number, and delivers only attempts that passed the staleness test, under
\* the post they were made for (engine.cpp: on_job, worker_main, process_job).
THEOREM EnginesImplementMiner == Spec => ImplementsMiner
BY InitImplements, NextImplements, SpecIInv, PTL DEF Spec, ImplementsMiner, AbstractMiner!Spec
=============================================================================
