------------------------------- MODULE Engine -------------------------------
(***************************************************************************)
(* The mining engines: src/src/miner/engine.cpp, one Engine per device.    *)
(*                                                                         *)
(* An engine has a one-slot mailbox guarded by mailbox_mutex_, a worker    *)
(* thread that takes the latest job out of it and mines that job until a   *)
(* newer one or a stop request preempts it, and a solver with an abort     *)
(* flag that is not covered by the mutex.  Four kinds of thread meet here: *)
(*                                                                         *)
(*   - the dispatching thread, which calls on_job() on every engine in     *)
(*     turn (the router's dispatch loop; the router's mutex makes these    *)
(*     calls sequential): Offer, PostJob, NotifyJob, AbortForJob;          *)
(*   - each engine's worker thread: the actions with a "worker" comment;   *)
(*   - the thread that calls start() and stop(): Start, Stop...;           *)
(*   - the environment: pauses, and what each solve() yields.              *)
(*                                                                         *)
(* A step of the model is one critical section, or one access to the       *)
(* unguarded abort flag.  A job is its id; its input is malformed or not;  *)
(* of the candidates a solve returns only the number that clear the job's  *)
(* difficulty matters.                                                     *)
(***************************************************************************)
EXTENDS Integers, FiniteSets

CONSTANTS
  N,           \* number of engines: the constructor's `lanes`
  Ids,         \* job ids a pool may send
  Malformed,   \* the ids whose job.input does not decode
  Prefixes,    \* nonce prefixes a pool may assign
  Origins,     \* the connections a job can come from (origin.h)
  Abortable,   \* TRUE: GpuSolver and its like; FALSE: SolverRef's no-op abort
  NonceBound,  \* bound: an engine whose counter reached it is held as if paused
  MaxPosts,    \* bound: number of jobs the dispatching thread hands out
  MaxCands,    \* bound: clearing candidates of one solve
  FailureCap   \* bound: solver_failures_ is not counted past this

ASSUME EngineAssumption ==
  /\ N \in Nat \ {0}
  /\ Malformed \subseteq Ids
  /\ Abortable \in BOOLEAN
  /\ NonceBound \in Nat
  /\ MaxPosts \in Nat
  /\ MaxCands \in Nat
  /\ FailureCap \in Nat \ {0}

Lanes == 0 .. N - 1

\* What on_job() is given: the job, the prefix it must be mined under, its origin.
Entry == [id : Ids, prefix : Prefixes, origin : Origins]

NoEntry == [none |-> TRUE]

VARIABLES
  latest,         \* latest_job_, latest_nonceprefix_, latest_origin_
  hasJob,         \* has_job_
  stopRequested,  \* stop_requested_
  started,        \* started_
  abort,          \* the solver's abort_ flag
  pc,             \* where the worker thread is
  work,           \* worker_main's job, prefix, origin
  nonce,          \* the counter value of the attempt in process_job()
  nonceCounter,   \* nonce_counter_
  failures,       \* solver_failures_
  cands,          \* clearing candidates process_job() has still to submit
  paused,         \* what the paused() callback answers
  dispatch,       \* the dispatching thread
  stopper,        \* the thread that calls stop()
  posts           \* number of jobs dispatched so far

\* History: read by the properties, never by an action of the code.
VARIABLES
  posted,         \* every entry handed to on_job()
  tried,          \* counters each engine has called solve() with
  submitted,      \* what went to submit_fn
  lateSolves,     \* solves begun since a pending job or stop could have been seen
  doomed          \* a different job was posted before the current solve was checked

mailboxVars == <<latest, hasJob, stopRequested>>
workerVars == <<work, nonce, nonceCounter, failures, cands>>
envVars == <<paused, posts>>
history == <<posted, tried, submitted, lateSolves, doomed>>
vars == <<latest, hasJob, stopRequested, started, abort, pc, work, nonce,
          nonceCounter, failures, cands, paused, dispatch, stopper, posts,
          posted, tried, submitted, lateSolves, doomed>>

PCs == {"off", "wait", "asleep", "check", "pausing", "begin", "solve",
        "filter", "submit", "recheck", "failed", "backoff"}

\* A solution as submit_fn receives it, with the engine and counter behind it.
Share == [entry : Entry, lane : Lanes, nonce : Nat]

TypeOK ==
  /\ latest \in [Lanes -> Entry \cup {NoEntry}]
  /\ hasJob \in [Lanes -> BOOLEAN]
  /\ stopRequested \in [Lanes -> BOOLEAN]
  /\ started \in [Lanes -> BOOLEAN]
  /\ abort \in [Lanes -> BOOLEAN]
  /\ pc \in [Lanes -> PCs]
  /\ work \in [Lanes -> Entry \cup {NoEntry}]
  /\ nonce \in [Lanes -> Nat]
  /\ nonceCounter \in [Lanes -> Nat]
  /\ failures \in [Lanes -> 0 .. FailureCap]
  /\ cands \in [Lanes -> 0 .. MaxCands]
  /\ paused \in [Lanes -> BOOLEAN]
  /\ dispatch \in [step : {"idle", "post", "notify", "abort"},
                   lane : Lanes, entry : Entry \cup {NoEntry}]
  /\ stopper \in [Lanes -> {"idle", "signal", "notify", "join"}]
  /\ posts \in 0 .. MaxPosts
  /\ posted \subseteq Entry
  /\ tried \in [Lanes -> SUBSET Nat]
  /\ submitted \subseteq Share
  /\ lateSolves \in [Lanes -> Nat]
  /\ doomed \in [Lanes -> BOOLEAN]

Init ==
  /\ latest = [e \in Lanes |-> NoEntry]
  /\ hasJob = [e \in Lanes |-> FALSE]
  /\ stopRequested = [e \in Lanes |-> FALSE]
  /\ started = [e \in Lanes |-> FALSE]
  /\ abort = [e \in Lanes |-> FALSE]
  /\ pc = [e \in Lanes |-> "off"]
  /\ work = [e \in Lanes |-> NoEntry]
  /\ nonce = [e \in Lanes |-> e]
  /\ nonceCounter = [e \in Lanes |-> e]
  /\ failures = [e \in Lanes |-> 0]
  /\ cands = [e \in Lanes |-> 0]
  /\ paused = [e \in Lanes |-> FALSE]
  /\ dispatch = [step |-> "idle", lane |-> 0, entry |-> NoEntry]
  /\ stopper = [e \in Lanes |-> "idle"]
  /\ posts = 0
  /\ posted = {}
  /\ tried = [e \in Lanes |-> {}]
  /\ submitted = {}
  /\ lateSolves = [e \in Lanes |-> 0]
  /\ doomed = [e \in Lanes |-> FALSE]

-----------------------------------------------------------------------------
(* Pieces of the actions.  An operator whose name ends in _Fault and a word is a
   seeded fault: a plausible slip in the code, in no behaviour of the specification,
   kept to show that a property below would notice it. *)

Preempted_FaultStopOnly(e) == stopRequested[e]

\* The condition every wait of the worker tests.
Preempted(e) == stopRequested[e] \/ hasJob[e]

\* superseded_by_newer_job(): only the id is compared, and only while pending.
Superseded(e) == hasJob[e] /\ latest[e].id # work[e].id

\* The outstanding counters of every engine.
AllTried == UNION {tried[e] : e \in Lanes}

Goto(e, label) == pc' = [pc EXCEPT ![e] = label]

Notify_FaultDropped(e) == UNCHANGED pc

\* Waking the worker: only a thread parked in the untimed wait needs it.
Notify(e) ==
  pc' = IF pc[e] = "asleep" THEN [pc EXCEPT ![e] = "wait"] ELSE pc

\* What request_abort() does to the solver's flag.
RequestAbort(e) ==
  abort' = IF Abortable THEN [abort EXCEPT ![e] = TRUE] ELSE abort

\* nonce_stride_: one lane per engine.
Stride == N

TakenEntry_FaultOldOrigin(e) ==
  IF work[e] = NoEntry THEN latest[e] ELSE [latest[e] EXCEPT !.origin = work[e].origin]

\* What worker_main copies out of the mailbox: job, prefix and origin in one lock.
TakenEntry(e) == latest[e]

\* process_job()'s loop over the clearing candidates.
MoreCandidates(e) == cands[e] > 0

-----------------------------------------------------------------------------
(* The dispatching thread: one job to every engine, three steps each. *)

Offer(entry) ==
  /\ dispatch.step = "idle"
  /\ posts < MaxPosts
  /\ dispatch' = [step |-> "post", lane |-> 0, entry |-> entry]
  /\ posts' = posts + 1
  /\ UNCHANGED <<latest, hasJob, stopRequested, started, abort, pc, work, nonce,
                 nonceCounter, failures, cands, paused, stopper, history>>

PostJob(e) ==
  /\ dispatch.step = "post" /\ dispatch.lane = e
  /\ latest' = [latest EXCEPT ![e] = dispatch.entry]
  /\ hasJob' = [hasJob EXCEPT ![e] = TRUE]
  /\ dispatch' = [dispatch EXCEPT !.step = "notify"]
  /\ posted' = posted \cup {dispatch.entry}
  /\ doomed' = [doomed EXCEPT ![e] =
                  IF pc[e] \in {"check", "begin", "solve", "filter"}
                  THEN dispatch.entry.id # work[e].id ELSE @]
  /\ UNCHANGED <<stopRequested, started, abort, pc, workerVars, envVars, stopper,
                 tried, submitted, lateSolves>>

NotifyJob(e) ==
  /\ dispatch.step = "notify" /\ dispatch.lane = e
  /\ Notify(e)
  /\ dispatch' = [dispatch EXCEPT !.step = "abort"]
  /\ UNCHANGED <<mailboxVars, started, abort, workerVars, envVars, stopper, history>>

\* request_abort(), then the loop's next engine if there is one.
AbortForJob(e) ==
  /\ dispatch.step = "abort" /\ dispatch.lane = e
  /\ RequestAbort(e)
  /\ dispatch' = IF e + 1 \in Lanes
                 THEN [dispatch EXCEPT !.step = "post", !.lane = e + 1]
                 ELSE [step |-> "idle", lane |-> 0, entry |-> NoEntry]
  /\ UNCHANGED <<mailboxVars, started, pc, workerVars, envVars, stopper, history>>

-----------------------------------------------------------------------------
(* start() and stop(). *)

Start(e) ==
  /\ ~started[e] /\ stopper[e] = "idle"
  /\ started' = [started EXCEPT ![e] = TRUE]
  /\ stopRequested' = [stopRequested EXCEPT ![e] = FALSE]
  /\ Goto(e, "wait")
  /\ UNCHANGED <<latest, hasJob, abort, workerVars, envVars, dispatch, stopper, history>>

\* stop(), first step: request_abort() outside the mutex.
StopAbort(e) ==
  /\ started[e] /\ stopper[e] = "idle"
  /\ RequestAbort(e)
  /\ stopper' = [stopper EXCEPT ![e] = "signal"]
  /\ UNCHANGED <<mailboxVars, started, pc, workerVars, envVars, dispatch, history>>

StopSignal(e) ==
  /\ stopper[e] = "signal"
  /\ stopRequested' = [stopRequested EXCEPT ![e] = TRUE]
  /\ stopper' = [stopper EXCEPT ![e] = "notify"]
  /\ UNCHANGED <<latest, hasJob, started, abort, pc, workerVars, envVars, dispatch,
                 history>>

StopNotify(e) ==
  /\ stopper[e] = "notify"
  /\ Notify(e)
  /\ stopper' = [stopper EXCEPT ![e] = "join"]
  /\ UNCHANGED <<mailboxVars, started, abort, workerVars, envVars, dispatch, history>>

StopJoin(e) ==
  /\ stopper[e] = "join" /\ pc[e] = "off"
  /\ started' = [started EXCEPT ![e] = FALSE]
  /\ stopper' = [stopper EXCEPT ![e] = "idle"]
  /\ UNCHANGED <<mailboxVars, abort, pc, workerVars, envVars, dispatch, history>>

-----------------------------------------------------------------------------
(* The worker thread, outer loop. *)

\* worker: the predicate is false, so the untimed wait parks the thread.
Sleep(e) ==
  /\ pc[e] = "wait" /\ ~Preempted(e)
  /\ Goto(e, "asleep")
  /\ UNCHANGED <<mailboxVars, started, abort, workerVars, envVars, dispatch, stopper,
                 history>>

\* worker: a condition variable may also wake nobody asked for.
SpuriousWake(e) ==
  /\ pc[e] = "asleep"
  /\ Goto(e, "wait")
  /\ UNCHANGED <<mailboxVars, started, abort, workerVars, envVars, dispatch, stopper,
                 history>>

\* worker: stop wins over starting another solve.
Exit(e) ==
  /\ pc[e] = "wait" /\ stopRequested[e]
  /\ Goto(e, "off")
  /\ UNCHANGED <<mailboxVars, started, abort, workerVars, envVars, dispatch, stopper,
                 history>>

\* worker: take the latest entry; a malformed job goes back to waiting.
Take(e) ==
  /\ pc[e] = "wait" /\ hasJob[e] /\ ~stopRequested[e]
  /\ work' = [work EXCEPT ![e] = TakenEntry(e)]
  /\ hasJob' = [hasJob EXCEPT ![e] = FALSE]
  /\ Goto(e, IF latest[e].id \in Malformed THEN "wait" ELSE "check")
  /\ lateSolves' = [lateSolves EXCEPT ![e] = 0]
  /\ doomed' = [doomed EXCEPT ![e] = FALSE]
  /\ UNCHANGED <<latest, stopRequested, started, abort, nonce, nonceCounter, failures,
                 cands, envVars, dispatch, stopper, posted, tried, submitted>>

-----------------------------------------------------------------------------
(* The worker thread, inner loop and process_job(). *)

\* worker: the thermal and user pause, read before each solve.
Held(e) == paused[e] \/ nonceCounter[e] >= NonceBound

CheckPause(e) ==
  /\ pc[e] = "check"
  /\ Goto(e, IF Held(e) THEN "pausing" ELSE "begin")
  /\ UNCHANGED <<mailboxVars, started, abort, workerVars, envVars, dispatch, stopper,
                 history>>

\* worker: the 250 ms wait ends, by timeout or because its predicate holds.
PauseWaitEnds(e) ==
  /\ pc[e] = "pausing"
  /\ Goto(e, IF Preempted(e) THEN "wait" ELSE "check")
  /\ UNCHANGED <<mailboxVars, started, abort, workerVars, envVars, dispatch, stopper,
                 history>>

\* worker: process_job() up to and including solve()'s reset of the abort flag.
\* The counter moves before solve() runs, so a solve that throws has used its nonce.
BeginSolve(e) ==
  /\ pc[e] = "begin"
  /\ nonce' = [nonce EXCEPT ![e] = nonceCounter[e]]
  /\ nonceCounter' = [nonceCounter EXCEPT ![e] = @ + Stride]
  /\ abort' = IF Abortable THEN [abort EXCEPT ![e] = FALSE] ELSE abort
  /\ Goto(e, "solve")
  /\ tried' = [tried EXCEPT ![e] = @ \cup {nonceCounter[e]}]
  /\ lateSolves' = [lateSolves EXCEPT ![e] = IF hasJob[e] \/ stopRequested[e] THEN @ + 1 ELSE @]
  /\ UNCHANGED <<mailboxVars, started, work, failures, cands, envVars, dispatch,
                 stopper, posted, submitted, doomed>>

\* worker: the search runs to the end; an abort after the last poll changes nothing.
SolveCompletes(e, k) ==
  /\ pc[e] = "solve"
  /\ cands' = [cands EXCEPT ![e] = k]
  /\ Goto(e, "filter")
  /\ UNCHANGED <<mailboxVars, started, abort, work, nonce, nonceCounter, failures,
                 envVars, dispatch, stopper, history>>

\* worker: a poll between two rounds sees the flag; no candidates.
SolveAborted(e) ==
  /\ pc[e] = "solve" /\ abort[e]
  /\ cands' = [cands EXCEPT ![e] = 0]
  /\ Goto(e, "filter")
  /\ UNCHANGED <<mailboxVars, started, abort, work, nonce, nonceCounter, failures,
                 envVars, dispatch, stopper, history>>

SolveThrows_FaultEscapes(e) ==
  /\ pc[e] = "solve"
  /\ Goto(e, "off")
  /\ UNCHANGED <<mailboxVars, started, abort, workerVars, envVars, dispatch, stopper,
                 history>>

\* worker: solve() throws; worker_main's handler counts it.
SolveThrows(e) ==
  /\ pc[e] = "solve"
  /\ failures' = [failures EXCEPT ![e] = IF @ < FailureCap THEN @ + 1 ELSE @]
  /\ Goto(e, "failed")
  /\ UNCHANGED <<mailboxVars, started, abort, work, nonce, nonceCounter, cands,
                 envVars, dispatch, stopper, history>>

\* worker: process_job()'s staleness test, made once for all candidates.
Filter(e) ==
  /\ pc[e] = "filter"
  /\ Goto(e, IF Superseded(e) THEN "recheck" ELSE "submit")
  /\ cands' = [cands EXCEPT ![e] = IF Superseded(e) THEN 0 ELSE @]
  /\ UNCHANGED <<mailboxVars, started, abort, work, nonce, nonceCounter, failures,
                 envVars, dispatch, stopper, history>>

\* worker: one candidate to submit_fn, under the entry the job was taken with.
Submit(e) ==
  /\ pc[e] = "submit" /\ MoreCandidates(e)
  /\ cands' = [cands EXCEPT ![e] = @ - 1]
  /\ submitted' = submitted \cup {[entry |-> work[e], lane |-> e, nonce |-> nonce[e]]}
  /\ UNCHANGED <<mailboxVars, started, abort, pc, work, nonce, nonceCounter, failures,
                 envVars, dispatch, stopper, posted, tried, lateSolves, doomed>>

SubmitDone(e) ==
  /\ pc[e] = "submit" /\ ~MoreCandidates(e)
  /\ Goto(e, "recheck")
  /\ UNCHANGED <<mailboxVars, started, abort, workerVars, envVars, dispatch, stopper,
                 history>>

\* worker: process_job() returned normally; leave the inner loop if preempted.
Recheck(e) ==
  /\ pc[e] = "recheck"
  /\ failures' = [failures EXCEPT ![e] = 0]
  /\ Goto(e, IF Preempted(e) THEN "wait" ELSE "check")
  /\ UNCHANGED <<mailboxVars, started, abort, work, nonce, nonceCounter, cands,
                 envVars, dispatch, stopper, history>>

\* worker: the same test after a failed solve, which otherwise backs off.
RecheckFailed(e) ==
  /\ pc[e] = "failed"
  /\ Goto(e, IF Preempted(e) THEN "wait" ELSE "backoff")
  /\ UNCHANGED <<mailboxVars, started, abort, workerVars, envVars, dispatch, stopper,
                 history>>

\* worker: the backoff wait ends, by timeout or because its predicate holds.
BackoffEnds(e) ==
  /\ pc[e] = "backoff"
  /\ Goto(e, IF Preempted(e) THEN "wait" ELSE "check")
  /\ UNCHANGED <<mailboxVars, started, abort, workerVars, envVars, dispatch, stopper,
                 history>>

-----------------------------------------------------------------------------
(* The environment, and the whole system. *)

\* Thermal protection or the console keys flip a device's pause.
TogglePause(e) ==
  /\ paused' = [paused EXCEPT ![e] = ~@]
  /\ UNCHANGED <<mailboxVars, started, abort, pc, workerVars, posts, dispatch, stopper,
                 history>>

SolveEnds(e) ==
  \/ \E k \in 0 .. MaxCands : SolveCompletes(e, k)
  \/ SolveAborted(e)
  \/ SolveThrows(e)

Worker(e) ==
  \/ Sleep(e) \/ Exit(e) \/ Take(e)
  \/ CheckPause(e) \/ PauseWaitEnds(e)
  \/ BeginSolve(e) \/ SolveEnds(e)
  \/ Filter(e) \/ Submit(e) \/ SubmitDone(e)
  \/ Recheck(e) \/ RecheckFailed(e) \/ BackoffEnds(e)

\* request_abort() before the job is in the mailbox.
Dispatcher_FaultAbortsFirst(e) ==
  /\ dispatch.lane = e
  /\ \/ /\ dispatch.step = "post"
        /\ RequestAbort(e)
        /\ dispatch' = [dispatch EXCEPT !.step = "notify"]
        /\ UNCHANGED <<latest, hasJob, pc, posted, doomed>>
     \/ /\ dispatch.step = "notify"
        /\ latest' = [latest EXCEPT ![e] = dispatch.entry]
        /\ hasJob' = [hasJob EXCEPT ![e] = TRUE]
        /\ posted' = posted \cup {dispatch.entry}
        /\ dispatch' = [dispatch EXCEPT !.step = "abort"]
        /\ UNCHANGED <<abort, pc, doomed>>
     \/ /\ dispatch.step = "abort"
        /\ Notify(e)
        /\ dispatch' = [step |-> "idle", lane |-> 0, entry |-> NoEntry]
        /\ UNCHANGED <<latest, hasJob, abort, posted, doomed>>
  /\ UNCHANGED <<stopRequested, started, workerVars, envVars, stopper, tried, submitted,
                 lateSolves>>

Dispatcher(e) == PostJob(e) \/ NotifyJob(e) \/ AbortForJob(e)

Stopper(e) == StopSignal(e) \/ StopNotify(e) \/ StopJoin(e)

Next ==
  \/ \E entry \in Entry : Offer(entry)
  \/ \E e \in Lanes :
       \/ Dispatcher(e)
       \/ Start(e) \/ StopAbort(e) \/ Stopper(e)
       \/ Worker(e)
       \/ SpuriousWake(e) \/ TogglePause(e)

Spec == Init /\ [][Next]_vars

\* Every thread that can run is eventually scheduled, and every solve ends:
\* solve() is a bounded computation and the timed waits time out.  Nothing is
\* assumed of pools, pauses, spurious wake-ups or the callers of start and stop.
Fairness ==
  \A e \in Lanes : WF_vars(Worker(e)) /\ WF_vars(Dispatcher(e)) /\ WF_vars(Stopper(e))

FairSpec == Spec /\ Fairness

-----------------------------------------------------------------------------
(* What must be true of the engines. *)

\* No solve() is ever called with a counter value that any engine has used: the
\* lanes keep several devices apart, and neither a job change nor a solve that
\* throws rewinds nonce_counter_ (engine.h on `lane` and on nonce_counter_).  Of one
\* engine ImplementsMiner says it already; that the lanes never meet is proved.
NoNonceTwice ==
  [][\A e \in Lanes : pc[e] = "begin" /\ pc'[e] = "solve" => nonce'[e] \notin AllTried]_vars

\* A solution goes out under exactly one on_job() call's id, prefix and origin,
\* never a mixture of two, and never for a malformed job: the three travel
\* through the mailbox together (class comment of engine.h).
SharesMatchAPost ==
  \A s \in submitted : s.entry \in posted /\ s.entry.id \notin Malformed

\* Once a newer job or a stop request is visible in the mailbox, the worker
\* begins at most one more solve of the old job, however the paused, failed and
\* normal paths through the inner loop interleave with the posting thread.
OneLateSolve == \A e \in Lanes : lateSolves[e] <= 1

\* The solve a job overtakes is told to abort and stays told: once on_job() is
\* through with an engine, a solve that began before that job was pending runs with
\* the abort flag up.  The flag is outside the mutex and the next solve() clears it,
\* so this rests on the order of post, wake-up and request_abort().
PostAbortsSolveInFlight ==
  \A e \in Lanes :
    Abortable /\ pc[e] = "solve" /\ hasJob[e] /\ lateSolves[e] = 0
      => abort[e] \/ (dispatch.step \in {"notify", "abort"} /\ dispatch.lane = e)

\* A solution found by a solve that a different job overtook before
\* process_job()'s staleness test is never handed to submit_fn.
NoDoomedShare == \A e \in Lanes : pc[e] = "submit" /\ cands[e] > 0 => ~doomed[e]

\* A posted job is eventually taken by a running worker, whatever it was doing:
\* paused, backing off, solving, or asleep.
PostedJobIsTaken ==
  \A e \in Lanes : hasJob[e] /\ started[e] ~> ~hasJob[e] \/ stopRequested[e]

\* The worker is past Take, with a job in hand; a solve of it is in progress or its
\* candidates are being dealt with.
Working == {"check", "pausing", "begin", "solve", "filter", "submit", "recheck",
            "failed", "backoff"}
Attempting == {"solve", "filter", "submit"}

Slot == [e \in Lanes |-> IF hasJob[e] THEN {latest[e]} ELSE {}]
Mined == [e \in Lanes |-> IF pc[e] \in Working THEN {work[e]} ELSE {}]
Attempted == [e \in Lanes |-> IF pc[e] \in Attempting THEN {nonce[e]} ELSE {}]
Passed == [e \in Lanes |-> pc[e] = "submit"]
Late == [e \in Lanes |-> lateSolves[e] > 0]
BadEntries == {x \in Entry : x.id \in Malformed}

AbstractMiner == INSTANCE Miner WITH
  Entries <- Entry, Bad <- BadEntries,
  slot <- Slot, halt <- stopRequested, mining <- Mined, attempt <- Attempted,
  passed <- Passed, late <- Late, used <- AllTried, shares <- submitted

\* Seen through its mailbox and submit_fn, an engine is a miner that always turns to
\* the latest post, leaves a job for nothing else, begins at most one attempt late,
\* and hands out only what passed, under the entry it was mined for (class comment
\* of engine.h): the mutex, the condition variable, the unguarded abort flag, the
\* pauses and the backoffs do not show.
ImplementsMiner == AbstractMiner!Spec

\* stop() returns: the join is not waited on forever in any state of the worker.
StopReturns == \A e \in Lanes : stopper[e] = "signal" ~> stopper[e] = "idle"
=============================================================================
