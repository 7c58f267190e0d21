----------------------------- MODULE SolvePipeline -----------------------------
(***************************************************************************)
(* One GPU solver over many calls of solve(): gpu_solver.cpp with          *)
(* round_pipeline.cpp (OpenCL), cuda_solver.cu, and metal_solver.mm.       *)
(*                                                                         *)
(* A solve is an entry pass, four rounds and a terminal round over two     *)
(* record sets used in turn, then recovery of the survivors' leaves from   *)
(* what the rounds left behind.  The host appends kernels to an in-order   *)
(* queue that the device works off on its own; only Metal waits for each.  *)
(* The entry pass may be SPECULATED: a solve runs, inside round 4          *)
(* ("coblocks") or on a stream of its own from round 3 on ("beside"), the  *)
(* entry of the nonce the next call is expected to bring, and a call that  *)
(* brings it skips its own.  The buffers live as long as the solver, so a  *)
(* stale one is read without any error.                                    *)
(*                                                                         *)
(* Of a buffer the model keeps which round of the current solve filled it. *)
(***************************************************************************)
EXTENDS Integers, Sequences

CONSTANTS
  Backends,  \* which solvers to consider, of "OpenCL", "CUDA" and "Metal"
  Inputs,    \* block inputs
  W          \* nonces are 0 .. W - 1 and wrap

ASSUME SolvePipelineAssumption ==
  /\ Backends \subseteq {"OpenCL", "CUDA", "Metal"}
  /\ W \in Nat \ {0}

Keys == [input : Inputs, nonce : 0 .. W - 1]
NoKey == [none |-> TRUE]
NoDelta == W

\* Commands of the in-order queue: the entry pass, rounds 1 to 4, the terminal
\* round, and the event the stream beside it waits for.
Entry == 0
Terminal == 5
SpecReady == 6

Stale == 9  \* a record set of an earlier solve, or made from one

\* The record of rounds 2 and 3 on each rung, the fastest first, and whether its
\* buckets overflow into a pool.  The first is the low-power geometry, which only
\* CUDA chooses and which is not on the ladder of the source.
Rung(record, arena) == [record |-> record, arena |-> arena]

Ladder ==
  << Rung("implicit", FALSE),
     Rung("implicit", FALSE), Rung("implicit", TRUE),
     Rung("packed", FALSE), Rung("packed", TRUE),
     Rung("quad", FALSE), Rung("quad", TRUE), Rung("packed", FALSE),
     Rung("quad", FALSE), Rung("quad", TRUE), Rung("quad", FALSE), Rung("quad", TRUE),
     Rung("octo", TRUE), Rung("octo", TRUE), Rung("octo", TRUE) >>

Records == {"implicit", "packed", "quad", "octo"}

VARIABLES
  backend,
  \* Settled by the constructor.
  rung,     \* the rung it tries; 0 once it has one
  record,   \* that of the rung
  spec,     \* how the next entry is speculated: "off", "coblocks", "beside"
  \* The solver's memory between calls.
  last,     \* last_input_ and last_nonce_
  delta,    \* learned_delta_
  specKey,  \* spec_input_ and spec_nonce_; NoKey while spec_valid_ is false
  abort,    \* abort_
  \* The call in progress.
  pc,
  cur,      \* what it was called with
  hit,      \* its entry pass was run by the call before
  seeding,  \* it runs the entry of the next call
  round,        \* the next round to append
  failed,   \* a launch failed
  outcome,  \* how the last call ended
  \* The device.
  queue,        \* the in-order queue
  beside,   \* the stream beside it
  specPp,   \* prePow of the speculated nonce
  entry,    \* the speculated set: whose entry it is, and whether all of it
  set,      \* the two record sets
  plane,    \* round 4's own plane
  rows,     \* the rounds whose reference rows are of this call
  surv      \* the survivors are of this call

\* History: the last step between two calls with one input.
VARIABLE stride

solverVars == <<backend, rung, record, spec>>
memoryVars == <<last, delta, specKey>>
callVars == <<cur, hit, seeding, round, failed, outcome>>
deviceVars == <<entry, set, plane, rows, surv>>
vars == <<solverVars, memoryVars, abort, pc, callVars, queue, beside, specPp, deviceVars,
          stride>>

PCs == {"alloc", "none", "dead", "idle", "entry", "seed", "round", "release", "poll",
        "terminal", "check", "read", "recover"}
Outcomes == {"none", "cut", "failed", "thrown", "empty", "found"}

TypeOK ==
  /\ backend \in Backends
  /\ rung \in 0 .. Len(Ladder)
  /\ record \in Records
  /\ spec \in {"off", "coblocks", "beside"}
  /\ last \in Keys \cup {NoKey}
  /\ delta \in 0 .. W
  /\ specKey \in Keys \cup {NoKey}
  /\ abort \in BOOLEAN
  /\ pc \in PCs
  /\ cur \in Keys \cup {NoKey}
  /\ hit \in BOOLEAN
  /\ seeding \in BOOLEAN
  /\ round \in 1 .. 5
  /\ failed \in BOOLEAN
  /\ outcome \in Outcomes
  /\ queue \in Seq(0 .. 6)
  /\ beside \in {"idle", "asked", "ready", "running"}
  /\ specPp \in Keys \cup {NoKey}
  /\ entry \in [key : Keys \cup {NoKey}, whole : BOOLEAN]
  /\ set \in [0 .. 1 -> (0 .. 4) \cup {Stale}]
  /\ plane \in (0 .. 4) \cup {Stale}
  /\ rows \subseteq 1 .. 5
  /\ surv \in BOOLEAN
  /\ stride \in 0 .. W

\* What the arithmetic over the free memory picks first; Metal has neither the
\* implicit-bits, the quad nor the pool records.
FirstRungs ==
  CASE backend = "OpenCL" -> 2 .. Len(Ladder)
    [] backend = "CUDA" -> 1 .. Len(Ladder)
    [] backend = "Metal" -> {4}

Init ==
  /\ backend \in Backends
  /\ rung \in FirstRungs
  /\ record = "packed" /\ spec = "off"
  /\ last = NoKey /\ delta = NoDelta /\ specKey = NoKey /\ abort = FALSE
  /\ pc = "alloc"
  /\ cur = NoKey /\ hit = FALSE /\ seeding = FALSE /\ round = 1 /\ failed = FALSE
  /\ outcome = "none"
  /\ queue = <<>> /\ beside = "idle" /\ specPp = NoKey
  /\ entry = [key |-> NoKey, whole |-> FALSE]
  /\ set = [s \in 0 .. 1 |-> Stale] /\ plane = Stale /\ rows = {} /\ surv = FALSE
  /\ stride = NoDelta
-----------------------------------------------------------------------------
(* The constructor.  An operator whose name ends in _Fault and a word is the *)
(* one below it with a plausible mistake; no action uses it.                 *)

Arena == Ladder[rung].arena

\* Memory for the speculated set is a bonus asked for once the rung is settled, and
\* never on a rung with a pool.
SpecForms ==
  IF Arena THEN {"off"}
  ELSE CASE backend = "OpenCL" -> {"off", "coblocks"}
         [] backend = "CUDA" -> {"off", "coblocks", "beside"}
         [] backend = "Metal" -> {"off"}

\* OpenCL refuses the pool beside the packed record: its side plane has none.
RungIsLegal == ~(backend = "OpenCL" /\ Ladder[rung].record = "packed" /\ Arena)

\* The rung's buffers fit.
Allocate ==
  /\ pc = "alloc"
  /\ RungIsLegal
  /\ record' = Ladder[rung].record
  /\ spec' \in SpecForms
  /\ rung' = 0
  /\ pc' = "idle"
  /\ UNCHANGED <<backend, memoryVars, abort, callVars, queue, beside, specPp, deviceVars,
                 stride>>

\* The allocator refuses a rung the arithmetic allowed: everything is released and
\* the next one down is tried.  Below the last the constructor throws and there is
\* no solver; Metal has one geometry.
Refused ==
  /\ pc = "alloc"
  /\ IF rung = Len(Ladder) \/ backend = "Metal"
     THEN pc' = "none" /\ UNCHANGED rung
     ELSE rung' = rung + 1 /\ UNCHANGED pc
  /\ UNCHANGED <<backend, record, spec, memoryVars, abort, callVars, queue, beside, specPp,
                 deviceVars, stride>>
-----------------------------------------------------------------------------
(* The host: solve().                                                      *)

Return(o) == pc' = "idle" /\ outcome' = o

Plus(n, d) == (n + d) % W

Minus(n, m) == (n - m + W) % W

Expects(k, d) == [k EXCEPT !.nonce = Plus(@, d)]

Settled_FaultBesideRuns == queue = <<>>

\* A call begins with a blocking write (CUDA, behind the event of the stream beside)
\* or fill (OpenCL), so nothing of an earlier call is still running.
Settled == queue = <<>> /\ beside = "idle"

Learned_FaultForgetsOnNewJob(k) ==
  IF last # NoKey /\ last.input = k.input THEN Minus(k.nonce, last.nonce) ELSE NoDelta

\* The engine's nonce stride, learned from two calls in a row with one input; it
\* survives a change of job.
Learned(k) ==
  IF last # NoKey /\ last.input = k.input THEN Minus(k.nonce, last.nonce) ELSE delta

Hits_FaultNonceOnly(k) == spec # "off" /\ specKey # NoKey /\ specKey.nonce = k.nonce

\* Has the call before run this call's entry pass?
Hits(k) == spec # "off" /\ specKey = k

Observed(k) ==
  IF cur # NoKey /\ cur.input = k.input THEN Minus(k.nonce, cur.nonce) ELSE stride

Call(k) ==
  /\ pc = "idle"
  /\ Settled
  /\ abort' = FALSE
  /\ cur' = k /\ last' = k
  /\ delta' = Learned(k)
  /\ hit' = Hits(k)
  /\ specKey' = NoKey
  /\ seeding' = (spec # "off" /\ Learned(k) # NoDelta)
  /\ round' = 1 /\ failed' = FALSE /\ outcome' = "none"
  /\ set' = [s \in 0 .. 1 |-> Stale] /\ plane' = Stale /\ rows' = {} /\ surv' = FALSE
  /\ stride' = Observed(k)
  /\ pc' = "entry"
  /\ UNCHANGED <<solverVars, queue, beside, specPp, entry>>

\* A kernel is appended, or on CUDA fails to launch and is missing.
Launch(command) ==
  \/ queue' = Append(queue, command) /\ UNCHANGED failed
  \/ backend = "CUDA" /\ failed' = TRUE /\ UNCHANGED queue

\* Metal waits for each of its kernels.
Waited == backend = "Metal" => queue = <<>>

\* The entry pass, unless the call before ran it.
EntryPass ==
  /\ pc = "entry"
  /\ IF hit THEN UNCHANGED <<queue, failed>> ELSE Launch(Entry)
  /\ pc' = "seed"
  /\ UNCHANGED <<solverVars, memoryVars, abort, cur, hit, seeding, round, outcome, beside,
                 specPp, deviceVars, stride>>

\* The prePow of the nonce expected next: on CUDA a blocking write, on OpenCL a
\* buffer of the call's own.
SeedPrePow ==
  /\ pc = "seed"
  /\ IF seeding
     THEN /\ backend = "CUDA" => queue = <<>>
          /\ specPp' = Expects(cur, delta)
     ELSE UNCHANGED specPp
  /\ pc' = "round"
  /\ UNCHANGED <<solverVars, memoryVars, abort, callVars, queue, beside, deviceVars,
                 stride>>

\* OpenCL and Metal look for an abort after each round; CUDA appends on.
AppendRound ==
  /\ pc = "round"
  /\ Waited
  /\ Launch(round)
  /\ round' = round + 1
  /\ pc' = CASE backend # "CUDA" -> "poll"
             [] backend = "CUDA" /\ round = 2 /\ seeding /\ spec = "beside" -> "release"
             [] OTHER -> IF round = 4 THEN "terminal" ELSE "round"
  /\ UNCHANGED <<solverVars, memoryVars, abort, cur, hit, seeding, outcome, beside,
                 specPp, deviceVars, stride>>

\* specLaunch(): an entry pass is left on the stream beside, to start once the queue
\* is past round 2.
ReleaseBeside ==
  /\ pc = "release"
  /\ queue' = Append(queue, SpecReady)
  /\ \/ beside' = "asked" /\ UNCHANGED failed
     \/ failed' = TRUE /\ UNCHANGED beside
  /\ pc' = "round"
  /\ UNCHANGED <<solverVars, memoryVars, abort, cur, hit, seeding, round, outcome, specPp,
                 deviceVars, stride>>

\* OpenCL: round 4, which hosts the entry pass, has been appended.
Seeded == seeding /\ round = 5

Remember(seeded) == specKey' = IF seeded THEN Expects(cur, delta) ELSE NoKey

PollAbort ==
  /\ pc = "poll"
  /\ Waited
  /\ IF abort
     THEN Return("cut") /\ Remember(Seeded)
     ELSE /\ pc' = IF round = 5 THEN "terminal" ELSE "round"
          /\ UNCHANGED <<specKey, outcome>>
  /\ UNCHANGED <<solverVars, last, delta, abort, cur, hit, seeding, round, failed, queue, beside,
                 specPp, deviceVars, stride>>

AppendTerminal ==
  /\ pc = "terminal"
  /\ Launch(Terminal)
  /\ pc' = IF backend = "CUDA" THEN "check" ELSE "read"
  /\ UNCHANGED <<solverVars, memoryVars, abort, cur, hit, seeding, round, outcome, beside,
                 specPp, deviceVars, stride>>

\* CUDA: a launch that failed ends the call, and only then is the seed counted on.
CheckLaunches ==
  /\ pc = "check"
  /\ IF failed
     THEN Return("failed") /\ UNCHANGED specKey
     ELSE Remember(seeding) /\ pc' = "read" /\ UNCHANGED outcome
  /\ UNCHANGED <<solverVars, last, delta, abort, cur, hit, seeding, round, failed, queue, beside,
                 specPp, deviceVars, stride>>

\* A blocking read behind everything appended.  CUDA and Metal drop the survivors of
\* a call told to abort.
ReadSurvivors ==
  /\ pc = "read"
  /\ queue = <<>>
  /\ IF backend = "OpenCL" THEN Remember(Seeded) ELSE UNCHANGED specKey
  /\ \/ Return("empty")
     \/ /\ backend = "OpenCL" \/ ~abort
        /\ pc' = "recover"
        /\ UNCHANGED outcome
  /\ UNCHANGED <<solverVars, last, delta, abort, cur, hit, seeding, round, failed, queue, beside,
                 specPp, deviceVars, stride>>

\* The survivors' leaves are recovered, on Metal with a kernel that may fail, and each
\* candidate passes the verify gate or not.
Recover ==
  /\ pc = "recover"
  /\ \/ Return("found")
     \/ backend = "Metal" /\ Return("failed")
  /\ UNCHANGED <<solverVars, memoryVars, abort, cur, hit, seeding, round, failed, queue, beside,
                 specPp, deviceVars, stride>>

\* Every OpenCL call may throw, out of solve().
Throws ==
  /\ backend = "OpenCL"
  /\ pc \in {"entry", "seed", "round", "poll", "terminal", "read", "recover"}
  /\ Return("thrown")
  /\ UNCHANGED <<solverVars, memoryVars, abort, cur, hit, seeding, round, failed, queue, beside,
                 specPp, deviceVars, stride>>

\* request_abort(), from another thread or from the Ctrl+C handler.
RequestAbort ==
  /\ pc \notin {"alloc", "none", "dead"}
  /\ ~abort
  /\ abort' = TRUE
  /\ UNCHANGED <<solverVars, memoryVars, pc, callVars, queue, beside, specPp, deviceVars,
                 stride>>
-----------------------------------------------------------------------------
(* The device.                                                             *)

OwnPlane_FaultNever == FALSE

\* Where recovery needs what round 2 left in set 0, round 4 writes elsewhere.
OwnPlane == backend = "CUDA" /\ record = "implicit"

\* The reference rows a rung has, one per round.
RowsWritten ==
  CASE record = "octo" -> {4, 5}
    [] record # "octo" /\ backend # "CUDA" -> 1 .. 5
    [] record = "implicit" /\ backend = "CUDA" -> {}
    [] OTHER -> 1 .. 3

\* Round 1 reads what the entry pass wrote, a later round the set before it.
InputIsGood(n) ==
  IF n = 1 /\ spec # "off"
  THEN entry = [key |-> cur, whole |-> TRUE] /\ beside # "running"
  ELSE set[(n - 1) % 2] = n - 1

RunEntry ==
  IF spec = "off"
  THEN set' = [set EXCEPT ![0] = 0] /\ UNCHANGED <<entry, plane, rows, surv>>
  ELSE /\ entry' = IF beside = "running" THEN [key |-> NoKey, whole |-> FALSE]
                   ELSE [key |-> cur, whole |-> TRUE]
       /\ UNCHANGED <<set, plane, rows, surv>>

\* Round 4 of "coblocks" runs the next entry too, after round 1 has read the set.
RunRound(n) ==
  LET out == IF InputIsGood(n) THEN n ELSE Stale IN
  /\ IF n = 4 /\ OwnPlane
     THEN plane' = out /\ UNCHANGED set
     ELSE set' = [set EXCEPT ![n % 2] = out] /\ UNCHANGED plane
  /\ rows' = IF out = n /\ n \in RowsWritten THEN rows \cup {n} ELSE rows
  /\ entry' = IF n = 4 /\ seeding /\ spec = "coblocks"
              THEN [key |-> specPp, whole |-> TRUE] ELSE entry
  /\ UNCHANGED surv

RunTerminal ==
  /\ surv' = ((IF OwnPlane THEN plane ELSE set[0]) = 4)
  /\ rows' = IF surv' /\ 5 \in RowsWritten THEN rows \cup {5} ELSE rows
  /\ UNCHANGED <<entry, set, plane>>

\* The device works off the head of the queue.
Device ==
  /\ queue # <<>>
  /\ queue' = Tail(queue)
  /\ beside' = IF Head(queue) = SpecReady /\ beside = "asked" THEN "ready" ELSE beside
  /\ \/ Head(queue) = Entry /\ RunEntry
     \/ Head(queue) \in 1 .. 4 /\ RunRound(Head(queue))
     \/ Head(queue) = Terminal /\ RunTerminal
     \/ Head(queue) = SpecReady /\ UNCHANGED deviceVars
  /\ UNCHANGED <<solverVars, memoryVars, abort, pc, callVars, specPp, stride>>

\* Metal: a kernel the device reports an error for ends the call.
DispatchError ==
  /\ backend = "Metal"
  /\ queue # <<>>
  /\ queue' = <<>>
  /\ Return("failed")
  /\ UNCHANGED <<solverVars, memoryVars, abort, cur, hit, seeding, round, failed, beside,
                 specPp, deviceVars, stride>>

\* CUDA: a kernel that faults while it runs takes the context with it.  The copies that
\* follow bring no survivor, the launch check of every later call fails, and the solver
\* searches nothing any more.  That the call in hand does not look at what its copy
\* returned, and so reports no error, is in README.md.
ContextLost ==
  /\ backend = "CUDA"
  /\ queue # <<>> \/ beside # "idle" \/ pc = "recover"
  /\ queue' = <<>> /\ beside' = "idle"
  /\ specKey' = NoKey
  /\ pc' = "dead" /\ outcome' = "failed"
  /\ UNCHANGED <<solverVars, last, delta, abort, cur, hit, seeding, round, failed, specPp,
                 deviceVars, stride>>

\* The stream beside: the entry pass of specPp fills the speculated set.
BesideStarts ==
  /\ beside = "ready"
  /\ beside' = "running"
  /\ entry' = [key |-> specPp, whole |-> FALSE]
  /\ UNCHANGED <<solverVars, memoryVars, abort, pc, callVars, queue, specPp, set, plane,
                 rows, surv, stride>>

BesideEnds ==
  /\ beside = "running"
  /\ beside' = "idle"
  /\ entry' = [entry EXCEPT !.whole = (entry.key # NoKey)]
  /\ UNCHANGED <<solverVars, memoryVars, abort, pc, callVars, queue, specPp, set, plane,
                 rows, surv, stride>>
-----------------------------------------------------------------------------
Host ==
  \/ EntryPass \/ SeedPrePow \/ AppendRound \/ ReleaseBeside \/ PollAbort
  \/ AppendTerminal \/ CheckLaunches \/ ReadSurvivors \/ Recover

Next ==
  \/ Allocate \/ Refused
  \/ \E k \in Keys : Call(k)
  \/ Host
  \/ Throws
  \/ RequestAbort
  \/ Device \/ DispatchError \/ ContextLost \/ BesideStarts \/ BesideEnds

Spec == Init /\ [][Next]_vars

-----------------------------------------------------------------------------
(* Properties.                                                             *)

\* A call that says it looked, and found something or nothing, looked at the input and
\* nonce it was called with in every round: no speculated entry of another nonce, no
\* half-written one, no missing kernel, no set of an earlier call (gpu_solver.cpp
\* 101-213, cuda_solver.cu 796-1214).
SearchedWhatWasAsked == outcome \in {"empty", "found"} => surv

\* What a rung's recovery walks back over, per solver: reference rows, and the record
\* sets where the rung keeps the leaves there.
Walks(rounds, in0, in1) ==
  /\ rounds \subseteq rows
  /\ in0 # Stale => set[0] = in0
  /\ in1 # Stale => set[1] = in1

\* When the survivors' leaves are recovered, every row and record set the rung's own
\* recovery reads still holds this call's (cuda_solver.cu 1145-1174, round_pipeline.cpp
\* 1163-1222): the rungs keep fewer and fewer rows, and lean on which round wrote a
\* shared set last.
RecoveryFindsItsSources ==
  pc = "recover" =>
    CASE record = "octo" -> Walks({4, 5}, Stale, 3)
      [] record = "implicit" /\ backend = "CUDA" -> plane = 4 /\ Walks({}, 2, 3)
      [] record \in {"packed", "quad"} /\ backend = "CUDA" -> Walks(1 .. 3, 4, 3)
      [] OTHER -> Walks(1 .. 5, Stale, Stale)

\* A caller that walks nonces at a fixed stride gets its entry pass from the call
\* before, in the first call after the stride is known and in the second after a
\* change of job (gpu_solver.h 35-39).
PredictedCallsHit ==
  [][ spec # "off" /\ stride # NoDelta /\ outcome \in {"empty", "found"}
      /\ pc = "idle" /\ pc' = "entry" /\ cur' = Expects(cur, stride)
      => hit' ]_vars

=============================================================================
