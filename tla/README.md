# MXBM verification project

MXBM mines Beam (BeamHash III) on GPUs.  One process drives several cards, keeps a
connection to the user's pool and one to the developer's, changes the cards' power
limits and fans, and puts them back on its way out.  This directory holds TLA+ models
of the parts where threads, connections, devices and settings meet, the TLC
configurations that check them, and TLAPS proofs of what must hold for every number of
cards, pools and jobs.  Paths below are relative to the repository.

Contents: [1 The system](#1-the-system), [2 Modules and code](#2-modules-and-code),
[3 Runs](#3-runs), [4 Fairness](#4-fairness), [5 Proofs](#5-proofs),
[6 Where code and comments disagree](#6-where-code-and-comments-disagree),
[7 Not modelled](#7-not-modelled), [8 Plan](#8-plan).

## 1 The system

```
   user's pool                        developer's pool
       |                                     |
   Client(Main)   run() thread each      Client(Dev)          src/stratum
       | on_job, on_disconnect               |
       +-------------> JobRouter <-----------+                src/miner/devfee
                           ^  | dispatch, under one mutex
   DevFeeScheduler thread -+  v
                    Engine 0 ... Engine N-1                   src/miner/engine
                     | worker thread each   ^ pause
                     v solve, abort         |
                    GpuSolver / CUDA / Metal   thermal, watchdog
                     |                         (read Stats)
                     +--> submit_fn --> Client(origin)::submit
   main: options, device selection, oc_apply ... exit: oc_restore
```

| Component | State it keeps | Operations | What is hard about it | What makes it correct |
|---|---|---|---|---|
| Engine, `miner/engine.*` | one-slot mailbox (job, prefix, origin, `has_job_`), stop flag, worker thread, nonce counter, failure count; the solver's abort flag | `start`, `on_job`, `stop`, worker loop, pause and back-off waits | the abort flag is outside the mutex; a wake-up may fall between a test and a wait; `stop()` joins a thread inside `solve()` | a share names one posted job; an overtaken job costs at most one more solve; no wake-up is lost; `stop()` returns; no nonce is tried twice |
| Developer fee, `miner/devfee.*`, wired in `main.cpp` | the router's two job slots and active origin; the debt; the scheduler's clock, stop flag | `offer`, `clear`, `set_active`, tick with its gates, round, settlement, `stop` | two network threads, a timer thread and a dispatch loop on one mutex; gates read before they are acted on; late wake-ups | engines always mine the active pool's last job; the fee never exceeds its rate; charging ends with the user's work; stopping ends on the user's pool |
| Stratum client, `stratum/*` | socket, receive buffer, TLS session, pool index and credentials, nonce prefix, redial count | `run`, dial, handshake, login, read and handle a line, redial, failover, `submit` from engine threads | a submit closes the socket under the reader; reconnects carry old state over | credentials and lines never cross connections; failover is not hasty; a drop is reported once; the client settles on a live pool |
| Overclock, `gpu/overclock.*`, `ui/keys.cpp` | settings on the card, the atomics that record them, exit hooks, signal handlers, terminal mode | `oc_apply`, `oc_restore`, `oc_restore_lent_signals`, the handlers, `atexit` | handlers run at any step, several at once, and the first one through ends the process | what was changed is recorded, put back once, in order, and nothing is forgotten |
| GPU solve, `gpu/gpu_solver.cpp`, `round_pipeline.cpp`, `cuda_solver.cu`, `metal_solver.mm` | device buffers that live across calls, the speculated next entry, learned nonce stride, abort flag | construct (ladder of geometries), `solve`, `request_abort` | asynchronous queues, a second stream, buffers reused in turn, launches that fail | a solve that reports success searched its own input and nonce; recovery reads rows of this call |
| Statistics, `miner/stats.*` | attempts, open submits, accepted and rejected shares, per-device ledger, bank | `record_*`, `snapshot` | an answer names no share and is paired by age and origin, while engines write, pools answer and connections drop | rows add up to totals; an answer is charged to the card and difficulty of its own share |
| Watchdog and thermal control, `miner/watchdog.*`, `thermal.*` | last progress and a hung flag per card; a pause latch per card | `poll`, each on its thread | counts, job, pauses and clock are read at different moments; a paused card looks like a hung one | no report of a card that works or is held, a hung one is reported, a hot one rests |
| Tuner, benchmark, report, `miner/tune.*`, `benchmark.*`, `report.*` | the cap ladder, measured points, the memory-clock lock, the store of verdicts, the published solver | `run_tune` with six passes, `run_report` card after card with a rebuild per point, `Restore` | every driver write can be refused, a rebuild can fail, a solver can throw, Ctrl+C comes at any step | the card gets its own limit back; every stored point is of the setting it is filed under; no freed solver is published |
| CUDA rounds, `kernels/cuda/fused_round.cuh`, `pipeline_kernels.cuh` | buckets, an overflow arena, a block's stage, table and lists, drop counters | entry pass, one block of a round, replay of a survivor | threads claim slots by atomics, lists and stages fill up, passes restart over barriers | every pair of equal keys has one child, or a drop is counted; recovery returns the leaves in tree order |
| Options and configuration, `cli/options.*`, `config/config.*` | the options, which of them were typed | argument by argument, both file loaders, implied options, `main`'s refusals | a flag that guards a field is named by hand, in three tables; credentials bind by position | what was typed wins; pools and credentials come from one side |
| Start-up and wiring, `main.cpp`, `gpu/device_join.*` | the joined card table, the selection, solvers, labels, positions; main's locals | join, select, cap, build, start, refuse late, unwind | three drivers' orders, cards skipped in between, threads that run over locals | row, label, sensor and cap of an engine are its own card's (but for `--report`, [6](#6-where-code-and-comments-disagree)); no thread outlives what it reads |
| Telemetry and memory, `nvml.*`, `budget.*`, `telemetry_window.*` | none | driver calls, byte arithmetic, medians | | |
| HTTP API, `api/*` | accept thread, stop pipe | serve a snapshot | stop while accepting | stop returns |
| Console, formatting, ticker, `ui/*` | none to speak of | text out | | |

The full list, with the parts that are out of scope, is in `PROJECT.json` under
`components`; what is hard to test in each is under `hazards`, at its line.

The components meet in few places, and these are where the models cut:

- a client calls the router through `on_job` and `on_disconnect` (`DevFee`'s `Offer`
  and `Clear`; `StratumClient`'s `Handle` and `NotifyDrop`);
- the router calls `on_job()` on every engine in turn while it holds its mutex
  (`DevFee`'s `Deliver`; `Engine`'s `Offer`, `PostJob`, `NotifyJob`, `AbortForJob`);
- an engine calls the solver (`Engine`'s `BeginSolve`, `Solve...`; `SolvePipeline`'s
  `Call` ... `Return`) and sets its abort flag from other threads;
- an engine's `submit_fn` calls `Client::submit` (`Engine`'s `Submit`;
  `StratumClient`'s `Solver` actions);
- the scheduler reads the statistics (`DevFee`'s `quiet`), the watchdog their attempts
  and last job (`Supervision`'s `SampleCounts`, `AskMining`);
- `submit_fn` notes each submit and the clients' callbacks each answer and job
  (`Statistics`' `RecordSubmit`, `RecordResult`, `RecordJob`);
- the engines and the watchdog ask the same pauses (`Supervision`'s `Paused`, `Engine`'s
  `paused`);
- `main()` merges a file into the options and refuses some mixtures (`Options`), then
  joins the cards, caps them (`Overclock`'s `Write`, `Session`'s `ApplyOc`), builds and
  starts what the other modules describe (`Session`'s `MakeEngines` ... `RunClient`);
- `--tune` stores a verdict (`Tuning`'s `store`) that `--pl auto` reads (`Session`'s
  `ResolveAuto`);
- a solve is rounds of launches (`SolvePipeline`'s queue); one launch is `FusedRound`.

## 2 Modules and code

Each module begins with a comment that says which code it stands for and what one step
is.  A step is one critical section, or one access to something no lock covers.
`PROJECT.json`'s `map` gives the lines of every definition.  Variables named *history*
are read by properties only.  An operator `X_Fault...` is `X` with a plausible mistake
in it; no action uses one, and replacing `X` by it makes the property named in
`PROJECT.json` fail.

| Module | Code | State | Actions |
|---|---|---|---|
| `Engine` | `miner/engine.cpp`, `engine.h` | `latest`, `hasJob` the mailbox; `stopRequested`, `started`, `failures`, `nonceCounter` the members; `pc`, `work`, `nonce`, `cands` the worker's locals; `abort` the solver's flag; `dispatch`, `stopper` the callers | `Offer` `PostJob` `NotifyJob` `AbortForJob` = `on_job()`; `Start`, `StopAbort` `StopSignal` `StopNotify` `StopJoin` = `start()`, `stop()`; `Sleep` ... `Take` = the wait of `worker_main()`; `CheckPause` ... `BackoffEnds` = `process_job()` |
| `Miner` | abstract: what an engine promises | `slot`, `halt`, `mining`, `attempt`, `passed`, `late`, `used`, `posted`, `shares` | `Post`, `TakeUp`, `LayDown`, `Begin`, `Pass`, `Deliver`, `End`, `Halt`, `Resume` |
| `DevFee` | `miner/devfee.cpp`, callbacks in `main.cpp` | `slot`, `devAge`, `active` the router; `dispatch` who holds its mutex; `holding` what each engine was given; `debt` of `FeeAccrual`; `pc`, `sinceLast`, `dt`, `elapsed`, `stop` the scheduler; *history* `idle`, `unserved` how long a stretch without attempts, or without the user's work, has been charged | `Offer`, `Clear`, `SetActive`, `Deliver` = `JobRouter`; `Tick` `GateMain` `GateIdle` `Accrue` `Defer` `BeginRound` `SwitchToDev` `EndWait` `SwitchToMain` `Settle` = `scheduler_main()` and `run_slice()` |
| `FeeAccount` | abstract: what the fee promises | `inRound`, `debt`, `credit` | `Earn`, `BeginRound`, `EndRound` |
| `StratumClient` | `stratum/client.cpp`, `transport.cpp`, the kinds of line of `messages.cpp` | `pool`, `key`, `failures`, `prefix` the client; `open`, `conn`, `broken`, `rx` the transport; `work`, `found` the engines' side; `up` the pools | `Boot...`/`Dial...`, `Handshake...`, `Login...`, `Redialed`, `RecvLine`, `Handle`, `NotifyDrop`, `Wake` = `run()`; `Submit...` = `submit()`; `Pool...` the far end |
| `Overclock` | `gpu/overclock.cpp`, `ui/keys.cpp`, the signal code of `main.cpp` | `card` the machine; `applied`, `saved`, `atexit`, `rawActive`, `prev` the globals; `handler` the dispositions; `pc`, `cur`, `done` main; `lpc`, `at`, `left` each way out | `Write` `NotWritten` `Save` `Raise` = `oc_apply()`; `Hooks`; `Measure` `HandBack`; `Mine` ... `NotePrev` = the key reader; `Visit` `Count` `Undo` `Die` = `oc_restore()` and the handlers |
| `SolvePipeline` | `gpu/gpu_solver.cpp`, `round_pipeline.cpp`, `rowbucket_geom.cpp`, `cuda_solver.cu`, `metal_solver.mm` | `rung`, `record`, `spec` the geometry; `last`, `delta`, `specKey`, `abort` the members; `queue`, `beside` what the device has to do; `entry`, `set`, `plane`, `rows` what its buffers hold | `Allocate`, `Refused` = the constructor; `Call` ... `Recover` = `solve()`; `Device`, `BesideStarts`, `BesideEnds` the device; `DispatchError`, `ContextLost` its faults |
| `Statistics` | `miner/stats.cpp`, the callbacks of `main.cpp` that feed it | `target`, `submits`, `rig`, `fee`, `ledger`, `banked` the statistics; `mining`, `pc`, `share` the engines; `open`, `wire` the connections | `RecordJob`, `RecordSubmit`, `RecordResult` = the `record_...` of the same name; `Find`, `Send` = around it in `submit_fn`; `TakeJob`, `Drop`, `Reconnect` |
| `Supervision` | `miner/watchdog.cpp`, `thermal.cpp`, the wiring and pause key in `main.cpp` | `seen`, `hung`, `still` = `DevState`; `wake`, `lag`, `sampled`, `active`, `at` the poll, `phase` where it is; `paused`, `userPaused`, `tat` the pauses; `eng`, `age`, `ahead`, `temp`, `job` what is watched | `SampleCounts` `ReadNow` `AskMining` `SeesProgress` `HoldsClock` `Waits` `ReportsHung` `ScriptEnds` = `Watchdog::poll()` and `on_hung`; `ThermalCheck` = `Thermal::poll()`; `PressKey`; `Resumes` ... `Retries` the workers; `Tick`, `Weather` |
| `PowerCurve` | the pure part of `miner/tune.cpp` | none | `CoarseCaps`, the refining caps, the recommended cap, `RungBelow` |
| `Tuning` | `miner/tune.cpp`, `report.cpp`, `benchmark.cpp`, the modes in `main.cpp` | `limit`, `lock` the card; `points`, `rungPoints`, `store`; `solver`, `live` the solver and what SIGINT sees; `pass`, `pc` | the passes, the measurement; for a CUDA card under `--report` (`Remakes`) `HideSolver` and the rebuild; `Restore`, the next card of a report |
| `FusedRound` | `kernels/cuda/fused_round.cuh` | `input`, `elem`, `out` the sets; `block`, `lane` a block and its threads; `gcount` and the lists in shared memory; `drops` | the entry pass, staging, counting, splitting, chaining, walking, emitting; barriers |
| `Replay` | `kernels/cuda/pipeline_kernels.cuh` | `survivor`, the replayed slots and leads, `leaves` | staging a bucket again, `AppendPair`, emptying the list, the order of a tree |
| `Options` | `cli/options.cpp`, `config/config.cpp`, `main.cpp` 114-297 | `opts`, `seen`, `lists`, `pools`, `row` the place in the tables, `stage` where `main()` is; *history* `typed`, `filed` | `TypeValue` ... `TypeFile` per argument, `ScanFaults`, `BindPool`, `OpenFile`, `TakeRow`, `TakePools`, `ResolveImplied`, `Gates` |
| `Session` | `main.cpp` 299-1665, `gpu/device_join.cpp`, `resolve_devices` | `rig` what the drivers list; `table`, `selected`, `limit`, `solvers`, `positions`; `labels` and `rows`, the statistics labels and the telemetry source's `nvml_index`, both filled once; `name` the card `main()` names; `alive`, `running` locals and threads | `Join`; `Select` `ResolveRow` `ResolveWord` = `resolve_devices()`; `ApplyOc` `BuildSolver`; `Report...`; `MakeEngines` ... `RunClient`; `Unwind` |

What is abstracted: the bytes of jobs, nonces, keys and lines (a job is an id that
decodes or not; a line is a reply, a job or something else); hash arithmetic (a solve
yields any number of clearing candidates up to a bound); the values of settings (a
setting is so many units off stock); kernels (a buffer holds a given round of the
current call, or something stale); log lines; the value of a count of attempts (the watchdog only asks whether it moved).

Code outside `src/` appears as inputs: what a pool sends and when it drops, whether a
driver call succeeds, how long a thread sleeps, when a signal arrives.

## 3 Runs

`tlc -config X.cfg M`; the configurations are `MC*.cfg`, one MC module per component.

| Run | What it asks | Bounds and why they are enough |
|---|---|---|
| `engine` | mailbox, abort, lifetime and staleness under every interleaving, as the refinement of `Miner`; liveness | One engine, two ids of which one does not decode, two origins, two posts, one candidate per solve, two attempts before the worker is held: two posts overtake each other in every window of a solve, three add nothing since the mailbox holds one.  That lanes of several engines never meet is proved (`NoncesAreFresh`), not run; here `Miner` asks that no failed or new job rewinds the counter |
| `devfee` | router, rounds, debt, and the refinement of `FeeAccount` | Two engines (a dispatch can be cut between them), both pools coming and going, fee of a half so that a round of two seconds is owed after four, rounds one second late, debt of two rounds: charging an idle stretch for the grace and two ticks fits below it, so the bound of `ChargesEndWithTheWork` is reached |
| `stratum` | what crosses connections, failover, liveness | Two pools, one assigning prefixes; two redials; one line on the way.  With one slot a line of an old connection still waits when the next opens, and a job may arrive before the login's reply |
| `overclock` | the ledger of settings, order of restore, both signals and exit at once | Two cards, two knobs (the power limit and a cooler with two fans), three ways out in any overlap: the first and last knob and a neighbour card in each direction |
| `solve` | no stale buffer is read, speculation hits | Every rung of the ladder, three back-ends, two inputs, three nonces (so a stride wraps and two strides differ), aborts, failed launches and faults of a running kernel at every step |
| `statistics` | the ledger under overlapping submits, answers, drops, reconnects and overflow | Two cards (so that two writes to one pool overlap), both pools, three shares, a list of two open submits so that it overflows, two user targets so that a share can be banked at another than its own; two verdicts, since the others differ from the second only in name |
| `supervision` | who is reported, and when a hot card rests | One card: cards meet in the poll only through the time it takes, which `PollTime` gives to any of its steps; a stall of fifteen ticks against an interval of one, late by one, and polls of up to two, just above the least the model needs (see `SupervisionAssumption`); temperatures at the start limit, at the stop limit and between the two, or none |
| `tuning` | what a sweep leaves behind and stores | Two cards, a grid of caps small enough for all six passes to pick other caps, a rung that may not hold, any write, rebuild or measurement failing, the first solver missing, Ctrl+C anywhere |
| `rounds` | one CUDA launch and a replay | Two threads in every interleaving, buckets and arena that overflow, a group that must be split in two and one in four, a pair list of one: each limit is met and exceeded but the replay's own, `RepN`, which no shipped geometry comes near; the proof covers both sides of it.  The key bits a launch does not look at are left out |
| `options` | who sets a field, and whose pools are mined | Up to four arguments of eleven sets of related ones, a file of two table rows and two pools: two arguments for one field, two pools with one credential, and any of them in either order |
| `session` | that what belongs to a card stays with it, and the ways out of `main()` | Three cards, 120 views of them (missing, crossed and unaddressed lists, a card listed twice), seven `--devices` lists, two `--pl` lists or the store, every cap and solver failing or not |
| `stratum_drop_unreported` | a statement of the repository that the code does not keep, see section 6 | the instance of `stratum` |

Deadlock is checked in `engine`, `devfee`, `stratum`, `statistics`, `options` and `session`, whose threads must
always have something left to do (the last two stutter once they are settled).  It is
not in `overclock`, `supervision` and `tuning`, where the process may end, nor in
`solve`, where the constructor may find that no geometry fits, nor in `rounds`, where a
launch is over at some time (`LaunchesEnd` says it gets there).

Bounds that are no part of the code are constants and named as bounds where they are
declared: `NonceBound`, `MaxPosts`, `MaxCands`, `FailureCap` (`Engine`), `MaxOverrun`,
`MaxLate`, `MaxDebt` (`DevFee`), `MaxLines` (`StratumClient`), `W` for the 2^64 nonces
(`SolvePipeline`), `MaxShares` (`Statistics`), `MaxTemp`, `SolveTime`, `Late`, `PollTime`
(`Supervision`), `MaxArgs`, `MaxRows`, `MaxPools` (`Options`).  Ages in `DevFee` saturate
one past the threshold they are compared with.  An engine at `NonceBound` is held as if paused, so it does not deadlock.

Properties checked, by what could go wrong:

- `Engine`: `ImplementsMiner` (whatever interleaves, only steps of the abstract lane: no
  post is taken in two halves, a solution carries the job and the nonce of the solve that
  found it, nothing overtaken is delivered), `OneLateSolve`, `PostAbortsSolveInFlight` (what bounds
  the wait for an overtaken solve: whatever order the three calls of a dispatch and a solve's
  start come in, a solve that was overtaken is told to stop or about to be); `PostedJobIsTaken` (also that no wake-up is lost), `StopReturns`.
- `DevFee`: `EnginesFollowRouter`, `FeeWithinRate`, `ChargesEndWithTheWork` (how much of a stretch
  without attempts, or without the user's work, can be charged),
  `ImplementsAccount`; `OwedRoundsAreTaken`, `StopEndsScheduler`.
- `StratumClient`: `ConnectionsStayApart` (credentials and lines), `JobsCarryTheirPrefix`
  (of jobs sent after the login's reply), `NoHastyFailover`; `ReachesTheLivePool`.
- `Overclock`: `NothingForgotten`, `AloneRestoresAll`, `PowerLimitLast`,
  `SignalsStayCovered`.
- `SolvePipeline`: `SearchedWhatWasAsked`, `RecoveryFindsItsSources`,
  `PredictedCallsHit`.
- `Statistics`: `LedgerCoversRig` (rows add up to totals), `PairedInOrder` (an answer is
  charged to its own share at its own difficulty, as long as none was lost and no two
  cards wrote at once).
- `Supervision`: `NoHealthyCardReported`; `StuckCardReported`, `HotCardRests` (also between the two
  limits, and with a sensor that says nothing).
- `Tuning`: `CardPutBack`, `AdviceIsBacked` (points are of the setting they name and of the
  solver the mode measures with, the stored verdict rests on a whole sweep of them),
  `SwapIsHidden`.
- `FusedRound` and `Replay`: `EveryPairOnce`, `SlotsAreExclusive`, `LeavesInTreeOrder`;
  `LaunchesEnd`.
- `Options`: `EachFlagWins`, `CredentialsAreUsedOrNoted`.
- `Session`: `SolversMatchCards` (label, row and sensor outside `--report`; there, that the card
  measured is the one named), `CapsAreTheirOwn`, `MisaimIsTold`, `TeardownIsQuiet`.

The `TypeOK` of each module that has one documents its variables; those of `Engine`,
`DevFee`, `StratumClient`, `Overclock`, `Tuning`, `SolvePipeline` and `Supervision` are
proved.

## 4 Fairness

Each fair specification assumes that threads the program has started are scheduled, and
nothing of the outside world.

- `Engine`: weak fairness of each worker, of a dispatch loop under way and of a `stop()`
  under way.  A solve in progress ends.  No job need be posted, nobody need stop.
- `DevFee`: the dispatch loop and the clock are weakly fair.  The scheduler is strongly
  fair, since the router's mutex, which it needs, is taken by two network threads again
  and again: with weak fairness it could find it taken each time.  Pools need not send
  anything; `OwedRoundsAreTaken` is conditional on the fee pool having fresh jobs.
- `StratumClient`: `run()` is weakly fair, and a read on a connection whose peer is gone
  fails.  `ReachesTheLivePool` is conditional on which pool stays up.
- `Supervision`: the watchdog's and the thermal thread go on, time passes, a worker that
  is not stuck finishes its step.  A stuck card need not come back, nobody presses keys,
  the weather does as it likes.

- `Replay`: a launch that can go on does, which the device's scheduler guarantees to the
  threads of a resident block; it has no other process to wait for.

`Overclock`, `SolvePipeline`, `Statistics`, `Tuning`, `Options` and `Session` are checked
for safety only.

## 5 Proofs

`tlapm M.tla` for each `*Proofs.tla`.  The only assumptions are those on the constants
(`EngineAssumption`, `DevFeeAssumption`, `StratumAssumption`, `OverclockAssumption`,
`PowerCurveAssumption`, `TuningAssumption`, `SolvePipelineAssumption`,
`FusedRoundAssumption`, `ReplayAssumption`, `StatisticsAssumption`, `SupervisionAssumption`,
`SessionAssumption`), which TLC evaluates in the
runs.  The
theorems hold for any number of engines, jobs, pools, cards, shares, knobs and fans, any
band, caps and measured curves, any inputs and nonces, any arguments, files and lists of
cards, and for any of the bounds.  `StatisticsAssumption` says that the cards are finitely
many, which a sum over them needs; `SessionAssumption`, that CUDA lists a card once.

**`EngineProofs`.**  None of the properties is inductive: `SharesMatchAPost` (a share is
of one post) says nothing of the mailbox a share will come from.  `IInv` joins `TypeOK` with `FlowInv`
(what is in the mailbox, on its way through the dispatch loop or in the worker's hands
was posted), `LateInv` (where the worker can be, with a solve already late), `DoomInv`
(a solve marked as overtaken still finds another job in the mailbox until the staleness
test), `WorkerLifetime` (the thread ends only by `stop()`), `NoLostWakeup` (a worker asleep
with something to do has a notify coming) and `PostAbortsSolveInFlight` (an overtaken
solve is told to), which are inductive next to the others.  One lemma per conjunct has a
case per action; `NextIInv` joins them.  `NoncesAreFresh` needs arithmetic of its own:
`LanesDisjoint` shows that `e + k * N` determines `e` for `e < N`.

`EnginesImplementMiner` reads the abstract lane off the concrete one: `slot` is the mailbox
while `has_job_` is set, `mining` what the worker holds between taking a job and looking for
the next (`Working`), `attempt` the nonce from the start of a solve to the last of its
solutions (`Attempting`), `passed` whether it is past the staleness test, `halt` the stop
flag.  The condition variables, the abort flag, pauses, backoffs, the three steps of a
dispatch and the four of `stop()` have no counterpart: such a step stutters, unless it is
the one at which the post, the job, the attempt or the stop takes effect.  The step lemmas go
by those effects (`Posts`, `Takes`, `Begins`, `Filters`, `Submits`, `LooksUp`, `MovesOn`,
`EndsAttempt`).  The refinement needs `IInv`: that an attempt begun while something waits is
the first such one is `LateInv`, that it gets a number of its own is the argument of
`NoncesAreFresh` (`CounterIsFresh`), that only `stop()` ends a worker is `WorkerLifetime`.

**`DevFeeProofs`.**  `SwitchInv` (which origin is active at each place of the
scheduler) gives `FeePoolOnlyInRounds`.  `RouterInv` describes a dispatch half way:
engines already served hold the new entry, whose origin is the active one; it gives
`EnginesAgreeWithRouter`.  `ChargeInv` follows the last job of the user's pool through
the gates for `CreditsFindUserJobs`: at the instant of crediting the engines are on the user's
jobs.  What the interval credited may hold is `ChargesStopWithTheWork`: `IdleInv` and
`UnservedInv` say at each place of the scheduler how much of a stretch was charged and how much
more the tick in hand can add.  `DueInv` (a round begins owed in full) bounds
what clamping at zero can forget, for `FeeNeverAboveRate`.
`SchedulerImplementsAccount` maps `inRound` to the scheduler being at a place of a
round: `Accrue` is `Earn`, `BeginRound` is `BeginRound`, `Settle` is `EndRound`, and
every other step stutters.

**`StratumClientProofs`.**  `HandlingInv` and `PlaceInv` tie the program counter to the
socket's state, which a submit may change at any step.  `LinkInv` relates index,
credentials and failures, `WireInv` says that what is in the buffer is of the open
connection, `PrefixInv` which prefixes may be in use after a reconnect,
and that a job after the reply finds the one the reply brought.
`DropsReportedOnce` adds that `on_disconnect` never fires for a connection that had not
logged in.

**`OverclockProofs`.**  `NothingForgotten` alone is not inductive: a leaver that has
taken a flag could meet another.  `Ledger` adds `Positions` (where each thread is in its
walk over the settings), `Raised` and `Counted` (a flag or a hand implies the recorded
amount is what is off stock) and `Exclusive` (no two leavers, nor main and a leaver,
hold one setting).  `WayOut` is what a single way out leaves behind: by each
place `SoloInv` says which settings a lone leaver has already put back, and `HooksInv`,
`HandlersInv`, `KeysInv` and `RawInv` follow which handler is installed, which one it
replaced, and who still owes the terminal its mode.  It gives `OneWayOutRestoresAll`,
`PowerLimitIsLast` and `SignalsAreCovered`.

**`TuningProofs`.**  `StockInv` says at each place of a sweep what
is off stock (the limit from its first write, the memory clock exactly while the sweep's
own lock is on, which it takes only where the user set none); the restore at the end
therefore finds everything it has to put back (`SweepsPutTheCardBack`).  `SwapInv` hides a
solver from before it is freed until its successor is published.  `FoundInv` says that where
nothing is rebuilt the solver is the one found before the sweep, sized for the card as it was.
`HonestInv` (the card is in the setting of the arm in hand, the solver the one the mode measures
with) and `BackedInv` (every coarse cap is still to do,
in hand or measured) give `VerdictsAreMeasured`, with two lemmas about the pure half: the
recommended cap and the rung below it are among the caps that were measured.  That a
finite set of integers has a least and a greatest member, which the choice of a cap
needs, is derived from the library's well-foundedness of strict inclusion.

**`GpuProofs`, solver.**  Host and device share nothing but the queue, so every part of
the invariant is about `NextUp`, the next command the device will take: the queue is a
stretch of the commands of one call (`QueueInv`); `InputInv` and `RowsInv` say whose
entries, records and rows lie in memory when that command comes up, for every rung's
way of sharing record sets; `SeedInv` and `BesideInv` do so for the speculated entry
pass and the stream beside the queue; `PromiseInv` relates the key the next call will
compare to what that pass will have written.  `OutcomeInv` turns these into what the
host reads back.  `StrideInv` needs no memory at all: two calls at a fixed stride teach
the solver the difference that the third call is predicted from.

**`GpuProofs`, rounds.**  `SlotsAreExclusive` is about atomics that count past the end of what
they index.  `OutInv` says that a child in a bucket's row lies below that bucket's count, one
in the pool below the pool's; the slot an atomic returns is therefore not taken, and no row
reaches into the next (`RowsApart`) or into the pool (`OutRowIsLow`), for any sizes.

`EveryPairOnce` needs the whole of a launch, `RoundInv`, which TLC checked on the small
instance before the proof.  `SetInv` says what the entry pass and the linking
leave: every scattered element has one slot or its loss was counted, and the pool entries of
a bucket form its list (`ChainIs`: some listing of the set, each entry once, that starts at
the head and follows the links).  `MembersInv` says that the block's members are the bucket's
elements, each once.  `PhaseInv` is one conjunct set per stretch between two barriers
(`Clearing`, `Censusing`, `Staging`, `Forming`, `Tallying`, `Choosing`, `Walking`): all lanes
are in that stretch, and wherever a barrier separates the counting from its use they agree on
the part of the group they are at.  `StagedInv` is what staging promises, that an element of the part is staged
unless nothing else falls into its place of the table, and `TabChains` that such places hold
chains of what is staged.  In the walk, `Walked` says position by position along a chain which
pairs still have to be emitted (`ToDo`: the lane has not come so far) and that exactly the
others have a child or a drop was counted.  `MadeInv` carries the result from one part to the
next: children are of twins, of parts that were passed or are being walked, no pair twice, and
of the passed parts none is missing.  Twins have one key, so they
are of one part, and the parts of the chosen level are all of them.  The way back changes nothing of this (`Resting`).  The two walks along a chain
that the model takes in one step are recursive functions, a `CHOOSE` of one that satisfies an
equation; `SequenceAlongATrail` and `SetAlongATrail` show by a least counterexample that on
a chain it yields the listing.

`LeavesInTreeOrder` stands on `RoundInv` and adds `RecoveryInv`, whose parts TLC checked too.
The block is done before recovery begins and takes no step after it (`RoundStops`), so the
members a replay stages are the round's, all of them if the dense part fits
(`TakenInv`, `SurvivorInv`, `RepMembers`), and the pair a child was made of is among them
(`CandidateExists`; `OrderInv`, the round's order of two elements does not depend on which one
meets the other).  `TableInv` says that the chains hold exactly what the lanes have inserted.
`SoughtInv` follows every pair that makes the target: it has been found, is on the list, or is
still ahead of its lane, further down the chain the lane is on or at an element the lane has
yet to come to.  A lane that finds the list full stays where it is and passes nothing; once no
lane was cut short and no element is left, the pair can only have been found
(`StillAhead`).  `FoundInv` says what is then known of the slots.  That the search along a
chain stops at the first match, and not behind it, is `StopsInTime`; that the recursive
function it is written as exists, `FirstsExist`.

**`MonitoringProofs`, statistics.**  An answer carries no name: the code charges it to the oldest open
submit of its pool.  `InLine` says why that is the right one: share by share, the open
submits of an origin stand in the list in the order of its wire, with at most the share
that was noted but not yet written at the end.  `FreshInv` keeps shares unique and
`PayInv` the bank equal to what the accepted ones were worth; `PairInv` joins them, and
gives `AnswersFindTheirShares` as long as nothing was lost and no two writes overlapped.

That the cards' rows add up to the rig's totals (`RowsAddUpToTotals`) needs less than the right
submit, only some submit, and must hold with answers lost and writes overlapping too.  So
`CountInv` counts: while the list never overflowed, an origin has at least as many submits
open as answers to come, those on its wire and those of the shares noted and not yet written
(a drop only lowers the second).  Hence no answer goes without a card.  The sums
themselves are folds.  `SumFunctionOnSet` is a `CHOOSE` of a function that satisfies a
recursive equation; `SumsAgree` and `SumsExist` show by the least subset for which it fails
that there is exactly one, and `SumGrows` what one more answer adds.

**`MonitoringProofs`, supervision.**  The argument is a budget: what is bounded is the time since a
card's clock was last set together with the time its present step has left (`InBudget`:
one wake-up, then one look of the watchdog's while it is paused, then one solve), or the
time since the counts were sampled once a solve is complete (`Bounded`).  A card that the
sample saw move, or will, needs no bound (`Noticed`).  `NeverOverdue` adds the parts up to
less than `Stall`.  `SupervisionAssumption` is that sum: the stall must exceed two intervals,
three of the card's longest steps and seven times what a poll may take.  The shipped
defaults, a stall of 90 s against an interval of 15 s, meet it as long as solves, wake-ups
and polls, a script that `--watchdog` runs included, take six seconds at most.  Nothing in the
code holds a script to that: `std::system` (`main.cpp:1565`) waits for as long as it runs, on the
watchdog's own thread, with `now` already read.  A script that outlasts the bound is outside the
theorem and the run.

**`StartProofs`, options.**  `FlagsWin` is about 33 table rows that are skipped where a
`Seen` flag is up.  `MergeInv` says what the flags know: a field's flag is up exactly where a
value was typed or a row was taken (`SeenInv`), rows still to come were not taken
(`PendingInv`), and the field holds the typed word, else the file's, else its default
(`ValueInv`).  The one field it has to leave out, everywhere, is the watchdog's script, and the
one row whose flag another row also raises is the watchdog's: both are the code's sharing of
that flag.  `CredentialsGoOrAreNoted` rests on `PoolsInv`: a pool named on the command line
is the entry that its place in the four lists gives, and has a user (`BoundInv`), a file's
pools are taken only where none was named, and after the scan the flags tell which lists were
given (`ListsInv`).

**`StartProofs`, session.**  `CardInv` is one statement per thing that `main()` keeps of
a card: the table is `join_devices`' (`SetUp`), the selection names rows, each once
(`SelectedInv`), nothing is capped or built before its time (`EarlyInv`), a cap off stock
was put there by one target's own entry or verdict (`CapsLanded`), solvers, labels and
positions stand in parallel and each is what its row gives under that cap (`BuiltInv`, with
`BuildInv` while they grow and `ReportInv` while `--report` replaces the one solver in
place, where a rebuild that fails leaves the name of an earlier row and no solver).
`LabelInv` says that outside `--report` the two lists that are filled once, labels and the
telemetry source's rows, name the cards and positions of the solvers they were filled from.
`TeardownInv` tabulates, for every place of the start, which locals are alive and which
threads may run, and says of the unwinding that what still runs touches only what is left;
no job was handed out, nor client or scheduler started, on any way out but the last.

`TypeCorrect`, `SharesAreOfOnePost`, `CardInvariant`, `DoomedSharesAreDropped`, `WakeupsAbortsAndLifetime`, `FeePoolOnlyInRounds`,
`DropsReportedOnce`, `CreditsFindUserJobs`, `NoncesAreFresh` and `RestoresDoNotOverlap` are proved
without a run that checks them: they are links of the arguments above, or need more cards than a
run has.

**Model-checked only.**  Liveness, which is out of the prover's reach under fairness.

## 6 Where code and comments disagree

One is a run that TLC must find violated, and a finding in `PROJECT.json`:

- `stratum_drop_unreported`.  A submit that fails while `run()` handles a line closes
  the socket; `run()` sees it closed and redials without `on_disconnect`, so the router
  keeps a dead pool's job and the fee clock runs on it.

The rest was seen while modelling.  The models do what the code does; a property that
would fail on account of one of these excludes that case by name, in its comment.

Engine, pools and fee:

- `Engine::on_job` wakes the worker before it aborts the solve (`engine.cpp:125-131`), so
  the abort can cut short the first solve of the very job it announces.  `engine.h:80`
  says that solve always runs clean.  It costs one solve.
- `devfee.h:70-73` says that a dead pool, a pause or a back-off is not charged.  A pause is
  charged while the last attempt is less than `kSolveGrace` (30 s) old, and a tick is charged
  whole, also where the pool came back within it; `ChargesEndWithTheWork` is the bound that
  holds, the grace and two ticks, and two ticks for a pool without a job.
- If the user's pool drops during a fee round, the round's end has no job to hand out and
  the engines go on with the fee pool's, outside any round, until the user's pool sends
  one.  The log says "back on your pool".
- After a failover a solution of the old pool's job is written to the new pool
  (`client.cpp:44`); the origin that travels with it tells only the user's pools from the
  developer's.
- A job that a pool sends on a new connection before the login's reply is mined under the prefix
  of the connection before, or none: `client.cpp:61-63` keeps the last one until a reply brings
  another, and the job is not offered again when it does.  Its shares carry the wrong prefix.
  `JobsCarryTheirPrefix` is about jobs sent after the reply.
- OpenCL polls the abort flag while it only queues the rounds, and CUDA polls once, so an
  abort does not bound the wait "by a round" (`main.cpp:81`) there; on Metal it does.

- A fault that CUDA raises while a kernel runs ends no call with an error: what the copy at
  `cuda_solver.cu:1094` returns is not looked at, so that call comes back empty-handed like one
  that found nothing, and every later one fails its launch check at once.  `on_attempt` counts
  them all, so the watchdog, whose exit is meant for a "wedged GPU context" (`main.cpp:1558`), sees
  a card that gets on.  `ContextLost` is the last step of such a solver in the model.

Restore on exit:

- `oc_restore()` takes a setting's flag before it makes the driver call.  A second way
  out passes over that setting and may end the process in between, although
  `overclock.h` says the exit hook and the handler can both call it.
- Between installing the key reader's signal handlers and noting the ones they replaced
  (`ui/keys.cpp`), a signal ends the process without the restore.  `AloneRestoresAll`
  therefore starts once the handlers are noted.
- The tuner's "Restore on EVERY exit" (`tune.cpp:166`) is a destructor: `exit()`, a
  default signal action and `std::terminate` after an uncaught throw go round it, and
  only what `overclock.cpp` has recorded is put back then.

Accounting and supervision:

- Nothing closes an open submit whose answer went down with its connection, so every
  later answer is paired with an earlier share: with one card too, the latency shown and
  the difficulty banked are another share's.  `stats.cpp` expects that of several cards
  under heavy overlap only.
- Mining is expected once any job has ever arrived, so a pool that
  sends only jobs whose input does not decode leaves every card idle and the watchdog
  takes them for hung.
- A pause lifted and set again before the card got to its next solve, poll after poll,
  looks to the watchdog like a hang.  `NoHealthyCardReported` counts this and the point
  above as explained.

Measuring modes:

- `--tune` measures every cap and every rung on the solver built at start-up: only `--report`
  sets `remake` (`main.cpp:1145`).  `tune.h:187-193` calls such a point one "of a different
  program", `docs/performance-research.md:31` says the sweep rebuilds the solver at each point,
  and `main.cpp:1025` that `--report`'s curve is `--tune`'s.  What is stored for `--pl auto` was
  therefore not measured with the geometry the miner will choose under that cap.  `Remakes` is
  what the code does, and `AdviceIsBacked` asks of a `--tune` point that it is the start-up
  solver's.
- Under `--report` on several cards the statistics' label (`main.cpp:852`) and the list the
  telemetry source reads (`main.cpp:910-921`, captured by value) stay the first card's, while the
  solver, its name and its position are replaced (`main.cpp:1116-1126`): row 0 samples and names
  the first card while another is measured.  `RowsAreOneCard` leaves that mode out.
- Between two cards `--report` frees the solver before it clears the pointer SIGINT reads
  (`main.cpp:1117`).  `SwapIsHidden` is about the swap within its sweep, at every point, which
  does it in order.
- `run_tune` returns 0 and its verdict counts as stored although the store could not be
  written.
- `report.cpp:232` reads through a solver that a rebuild may have left null.

CUDA rounds:

- A group that no split up to `kMaxSpill` parts fits still overflows its stage.  The
  comment at `fused_round.cuh:1110` says the count rules that out; the kernel counts the
  elements it loses in `drops[1]`, and the host looks at the counters under
  `MXBM_DROP_STATS` only.  `EveryPairOnce` is about launches that counted no drop.

Options:

- `--watchdogscript` notes no `Seen` flag of its own, and the file's `WATCHDOGSCRIPT` is
  guarded by `--watchdog`'s (`config.cpp:165`), so the file replaces what was typed.
  `config.h:11` says a typed option wins.  `EachFlagWins` leaves out this field.
- `LOG = off` in a file undoes a typed `--logfile`.
- A file can set what the command line refuses: a fan stop above its start, both
  statistics layouts, an API host and a statistics format that are not checked.
- `--algo ETHASH --benchmark` is not refused: the mode's own `BEAM-III` overwrites the
  word typed before it.  The comment at `options.cpp:718` says a conflict is caught because
  both write one variable; it is, in the other order.
- Seconds typed on the command line go from `long` to `int` unchecked.

Start-up:

- A card the join could not identify is told so, unless `--solver cuda` was asked for and
  the card can do it (`device_join.cpp:108`).  `MisaimIsTold` excludes that back-end.
- Caps and clocks are applied to every selected card, those no solver is built for
  included.
- If the first selected card has no NVML position, NVML is taken to be missing: the other
  cards get neither caps nor telemetry.
- `--report` on all cards applies the settings other than its own to the first only.
- A rig that has OpenCL alone lists a card once per platform that shows it, and cards
  without a PCI address are never compared with NVML's.
- `main.cpp:1280` says the fee scheduler is destroyed after the router it uses.  It is
  destroyed before it, which is the right order; the comment is wrong.

## 7 Not modelled

- The OpenCL and Metal kernels, the packing of records (`bh3_records`), BeamHash III
  verification and BLAKE2b: data-parallel bit arithmetic over 2^25 elements.
  `SolvePipeline` keeps which buffer each pass reads and writes, for all three back-ends;
  how pairs are found is modelled for CUDA.
- The length of the replay's arrays.  They hold `kRepN` entries, and a bucket cut to `kRepN`
  would leave no room behind it for pool members (`pipeline_kernels.cuh:343`); the widest rung
  stages about 2400 of 4096.  `Replay` gives every member it stages a place.
- Kernel variants that only `cuda/` benchmarks build (sub-passes, co-blocks, co-tenants,
  the paired round), the stand-alone measurement programs and the CPU reference solver.
- How a shell line is split into words, and the wording and formatting of options; the
  models start from arguments.
- Metal's single card in `Session`, which has no table to join.
- Wrappers round one driver call (`nvml.cpp`, the telemetry window) and the budget's sums
  of bytes: the callers see them succeed, fail or say nothing.
- The HTTP API: one thread that answers from a snapshot.  Its start and stop are
  in `Session`'s order of construction and unwinding.
- Console output, the dashboard page and the ticker, which only print; vendored code,
  tests, packaging.
- Memory safety of a TLS session freed by a writer under a reader
  (`transport.cpp:126`): the model gives the reader the outcomes of a closed socket.
- A pool that keeps its connection open and stays silent: reads have no timeout.

## 8 Plan

The order is by what a mistake would cost: the path of a job and a share first, then
what outlives the process, then the solver's memory, then accounting and supervision.

Done: `Engine` over `Miner`, `DevFee` over `FeeAccount`, `StratumClient`, `Overclock`,
`SolvePipeline`, `Statistics`, `Supervision`; then `Tuning` over `PowerCurve`,
`FusedRound` and `Replay`, `Options`, `Session`; the proofs of all safety properties.

Next, in this order:

1. `Mining`: a composition of `StratumClient`'s connection epochs, `DevFee`'s router
   and one `Engine`, for what no component shows alone: how long an engine mines for a
   connection that is gone, and to whom its shares go.
2. Pure algorithms, each against a reference definition: the retry delay, the compact
   difficulty, the geometry ladder against the budget, list options.
