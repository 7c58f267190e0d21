------------------------------- MODULE GpuProofs -------------------------------
(***************************************************************************)
(* Theorems about SolvePipeline, for every set of inputs and any number of *)
(* nonces: a call that says it looked did look at what it was asked for,   *)
(* and recovery reads this call's rows.  And about FusedRound and Replay,  *)
(* for any number of threads and buckets, any elements and every capacity: *)
(* every child has a slot of its own, every two elements of one key have   *)
(* exactly one child, and recovery puts the leaves in the order of the     *)
(* tree.                                                                   *)
(***************************************************************************)
EXTENDS SolvePipeline, Replay, FiniteSetTheorems, SequenceTheorems, WellFoundedInduction, TLAPS

LEMMA KeysAreKeys == \A k \in Keys : k # NoKey
<1> SUFFICES ASSUME NEW k \in Keys PROVE k # NoKey
  OBVIOUS
<1>1. DOMAIN k = {"input", "nonce"} /\ DOMAIN NoKey = {"none"}
  BY DEF Keys, NoKey
<1>2. "input" \in DOMAIN k /\ "input" \notin DOMAIN NoKey
  BY <1>1
<1> QED BY <1>2

LEMMA Strides ==
  ASSUME NEW n \in 0 .. W - 1, NEW d \in 0 .. W
  PROVE  Plus(n, d) \in 0 .. W - 1 /\ (d < W => Minus(n, d) \in 0 .. W - 1)
<1>1. W \in Nat \ {0}
  BY SolvePipelineAssumption DEF SolvePipelineAssumption
<1>2. n + d \in Nat /\ (d < W => n - d + W \in Nat)
  BY <1>1
<1>3. \A x \in Nat : x % W \in 0 .. W - 1
  BY <1>1
<1> QED BY <1>2, <1>3 DEF Plus, Minus

LEMMA ExpectedIsAKey ==
  ASSUME NEW k \in Keys, NEW d \in 0 .. W
  PROVE  Expects(k, d) \in Keys
BY Strides DEF Expects, Keys

LEMMA FirstRungsFit == backend \in Backends => FirstRungs \subseteq 1 .. 15
<1> SUFFICES ASSUME backend \in Backends, NEW x \in FirstRungs PROVE x \in 1 .. 15
  OBVIOUS
<1>1. Len(Ladder) = 15
  BY DEF Ladder
<1>2. backend \in {"OpenCL", "CUDA", "Metal"}
  BY SolvePipelineAssumption DEF SolvePipelineAssumption
<1>3. CASE backend = "OpenCL"
  BY <1>1, <1>3 DEF FirstRungs
<1>4. CASE backend = "CUDA"
  BY <1>1, <1>4 DEF FirstRungs
<1>5. CASE backend = "Metal"
  BY <1>5 DEF FirstRungs
<1> QED BY <1>2, <1>3, <1>4, <1>5

LEMMA InitType == Init => TypeOK
<1> SUFFICES ASSUME Init PROVE TypeOK
  OBVIOUS
<1>1. W \in 0 .. W /\ NoDelta \in 0 .. W
  BY SolvePipelineAssumption DEF SolvePipelineAssumption, NoDelta
<1>2. rung \in 0 .. Len(Ladder)
  BY FirstRungsFit DEF Init, Ladder
<1>3. queue \in Seq(0 .. 6)
  BY EmptySeq DEF Init
<1>4. set \in [0 .. 1 -> (0 .. 4) \cup {Stale}] /\ plane \in (0 .. 4) \cup {Stale}
  BY DEF Init
<1>5. entry \in [key : Keys \cup {NoKey}, whole : BOOLEAN]
  BY DEF Init
<1>6. delta \in 0 .. W /\ stride \in 0 .. W
  BY <1>1 DEF Init
<1>7. /\ backend \in Backends /\ record \in Records /\ spec \in {"off", "coblocks", "beside"}
      /\ last \in Keys \cup {NoKey} /\ specKey \in Keys \cup {NoKey} /\ cur \in Keys \cup {NoKey}
      /\ specPp \in Keys \cup {NoKey} /\ pc \in PCs /\ outcome \in Outcomes
      /\ beside \in {"idle", "asked", "ready", "running"}
  BY DEF Init, Records, PCs, Outcomes
<1>8. round \in 1 .. 5 /\ rows \subseteq 1 .. 5
  BY DEF Init
<1>9. /\ abort \in BOOLEAN /\ hit \in BOOLEAN /\ seeding \in BOOLEAN /\ failed \in BOOLEAN
      /\ surv \in BOOLEAN
  BY DEF Init
<1> QED BY <1>2, <1>3, <1>4, <1>5, <1>6, <1>7, <1>8, <1>9 DEF TypeOK

\* TypeOK in parts, by who writes them.
SolverTyped ==
  /\ backend \in Backends
  /\ rung \in 0 .. 15
  /\ record \in Records
  /\ spec \in {"off", "coblocks", "beside"}

CallTyped ==
  /\ pc \in PCs
  /\ cur \in Keys \cup {NoKey}
  /\ hit \in BOOLEAN
  /\ seeding \in BOOLEAN
  /\ round \in 1 .. 5
  /\ failed \in BOOLEAN
  /\ outcome \in Outcomes
  /\ abort \in BOOLEAN

MemoryTyped ==
  /\ last \in Keys \cup {NoKey}
  /\ delta \in 0 .. W
  /\ specKey \in Keys \cup {NoKey}
  /\ specPp \in Keys \cup {NoKey}
  /\ stride \in 0 .. W

QueueTyped ==
  /\ queue \in Seq(0 .. 6)
  /\ beside \in {"idle", "asked", "ready", "running"}

SetsTyped ==
  /\ entry \in [key : Keys \cup {NoKey}, whole : BOOLEAN]
  /\ set \in [0 .. 1 -> (0 .. 4) \cup {Stale}]
  /\ plane \in (0 .. 4) \cup {Stale}
  /\ rows \subseteq 1 .. 5
  /\ surv \in BOOLEAN

LEMMA TypeInParts ==
  TypeOK <=> SolverTyped /\ CallTyped /\ MemoryTyped /\ QueueTyped /\ SetsTyped
<1>1. Len(Ladder) = 15
  BY DEF Ladder
<1> QED BY <1>1 DEF TypeOK, SolverTyped, CallTyped, MemoryTyped, QueueTyped, SetsTyped

Calling ==
  {"entry", "seed", "round", "release", "poll", "terminal", "check", "read", "recover"}

\* Which round is next at each place of the host.
Places ==
  /\ pc = "alloc" => rung \in 1 .. 15
  /\ pc \in {"entry", "seed"} => round = 1
  /\ pc = "round" => round \in 1 .. 4
  /\ pc = "release" => round = 3
  /\ pc = "poll" => round \in 2 .. 5
  /\ pc \in {"terminal", "check", "read", "recover"} => round = 5
  /\ pc \in Calling => cur \in Keys

LEMMA InitPlaces == Init => Places
<1> SUFFICES ASSUME Init PROVE Places
  OBVIOUS
<1>1. rung \in 1 .. 15
  BY FirstRungsFit DEF Init
<1> QED BY <1>1 DEF Init, Places, Calling

LEMMA NextPlaces == Places /\ [Next]_vars => Places'
<1> SUFFICES ASSUME Places, [Next]_vars PROVE Places'
  OBVIOUS
<1> USE DEF Places, Calling
<1>l. Len(Ladder) = 15
  BY DEF Ladder
<1>1. CASE Refused
  BY <1>1, <1>l DEF Refused, callVars
<1>2. CASE AppendRound
  BY <1>2 DEF AppendRound
<1>3. CASE PollAbort
  BY <1>3 DEF PollAbort, Return
<1>4. CASE EntryPass \/ SeedPrePow \/ ReleaseBeside \/ AppendTerminal
  BY <1>4 DEF EntryPass, SeedPrePow, ReleaseBeside, AppendTerminal, callVars
<1>5. CASE CheckLaunches \/ ReadSurvivors
  BY <1>5 DEF CheckLaunches, ReadSurvivors, Return
<1>6. CASE \E k \in Keys : Call(k)
  BY <1>6 DEF Call
<1>7. CASE pc' = "idle"
  BY <1>7
<1>8. CASE UNCHANGED <<pc, rung, round, cur>>
  BY <1>8
<1>9. CASE Allocate \/ Recover \/ Throws \/ DispatchError
  BY <1>7, <1>9 DEF Allocate, Recover, Throws, DispatchError, Return
<1>10. CASE UNCHANGED vars \/ RequestAbort \/ Device \/ BesideStarts \/ BesideEnds
  BY <1>8, <1>10 DEF vars, solverVars, callVars, RequestAbort, Device, BesideStarts, BesideEnds
<1>11. CASE ContextLost
  BY <1>11 DEF ContextLost
<1> QED BY <1>1, <1>2, <1>3, <1>4, <1>5, <1>6, <1>9, <1>10, <1>11 DEF Next, Host

LEMMA SolverType == SolverTyped /\ Places /\ [Next]_vars => SolverTyped'
<1> SUFFICES ASSUME SolverTyped, Places, [Next]_vars PROVE SolverTyped'
  OBVIOUS
<1>l. Len(Ladder) = 15
  BY DEF Ladder
<1>1. CASE Allocate
  <2>1. Ladder[rung].record \in Records
    <3>1. \A i \in 1 .. 15 : Ladder[i].record \in Records
      <4>1. \A i \in 1 .. 15 : \/ i = 1 \/ i = 2 \/ i = 3 \/ i = 4 \/ i = 5 \/ i = 6 \/ i = 7
                              \/ i = 8 \/ i = 9 \/ i = 10 \/ i = 11 \/ i = 12 \/ i = 13
                              \/ i = 14 \/ i = 15
        OBVIOUS
      <4> QED BY <4>1 DEF Ladder, Rung, Records
    <3> QED BY <1>1, <3>1 DEF Allocate, Places
  <2>2. spec' \in {"off", "coblocks", "beside"}
    BY <1>1, SolvePipelineAssumption
       DEF Allocate, SpecForms, SolvePipelineAssumption, SolverTyped
  <2> QED BY <1>1, <2>1, <2>2 DEF Allocate, SolverTyped
<1>2. CASE Refused
  BY <1>2, <1>l DEF Refused, SolverTyped
<1>3. CASE UNCHANGED solverVars
  BY <1>3 DEF solverVars, SolverTyped
<1>4. Allocate \/ Refused \/ UNCHANGED solverVars
  BY DEF Next, Host, vars, solverVars, Call, EntryPass, SeedPrePow, AppendRound, ReleaseBeside,
         PollAbort, AppendTerminal, CheckLaunches, ReadSurvivors, Recover, Throws,
         RequestAbort, Device, DispatchError, ContextLost, BesideStarts, BesideEnds
<1> QED BY <1>1, <1>2, <1>3, <1>4

LEMMA CallType == CallTyped /\ Places /\ [Next]_vars => CallTyped'
<1> SUFFICES ASSUME CallTyped, Places, [Next]_vars PROVE CallTyped'
  OBVIOUS
<1> USE DEF CallTyped, callVars, PCs, Outcomes
<1>1. CASE UNCHANGED <<pc, callVars, abort>>
  BY <1>1
<1>2. CASE Allocate \/ Refused \/ RequestAbort
  <2>1. CASE Allocate
    BY <2>1 DEF Allocate
  <2>2. CASE Refused
    BY <2>2 DEF Refused
  <2>3. CASE RequestAbort
    BY <2>3 DEF RequestAbort
  <2> QED BY <1>2, <2>1, <2>2, <2>3
<1>3. ASSUME NEW k \in Keys, Call(k) PROVE CallTyped'
  <2>1. hit' \in BOOLEAN /\ seeding' \in BOOLEAN
    BY <1>3 DEF Call, Hits
  <2>2. pc' \in PCs /\ cur' \in Keys /\ round' \in 1 .. 5 /\ outcome' \in Outcomes
    BY <1>3 DEF Call
  <2>3. failed' \in BOOLEAN /\ abort' \in BOOLEAN
    BY <1>3 DEF Call
  <2> QED BY <2>1, <2>2, <2>3
<1>4. CASE EntryPass \/ SeedPrePow
  BY <1>4 DEF EntryPass, SeedPrePow, Launch
<1>5. CASE AppendRound
  <2>1. pc = "round" => round # 5
    BY DEF Places
  <2>2. round' \in 1 .. 5
    BY <1>5, <2>1 DEF AppendRound
  <2> QED BY <1>5, <2>2 DEF AppendRound, Launch
<1>6. CASE ReleaseBeside
  BY <1>6 DEF ReleaseBeside
<1>7. CASE PollAbort
  BY <1>7 DEF PollAbort, Return
<1>8. CASE AppendTerminal \/ CheckLaunches
  BY <1>8 DEF AppendTerminal, CheckLaunches, Launch, Return
<1>9. CASE ReadSurvivors \/ Recover \/ Throws \/ DispatchError \/ ContextLost
  BY <1>9 DEF ReadSurvivors, Recover, Throws, DispatchError, ContextLost, Return
<1>10. CASE Device \/ BesideStarts \/ BesideEnds
  BY <1>10 DEF Device, BesideStarts, BesideEnds
<1>11. CASE UNCHANGED vars
  BY <1>11 DEF vars
<1> QED BY <1>2, <1>3, <1>4, <1>5, <1>6, <1>7, <1>8, <1>9, <1>10, <1>11 DEF Next, Host

LEMMA MemoryType == MemoryTyped /\ CallTyped /\ Places /\ [Next]_vars => MemoryTyped'
<1> SUFFICES ASSUME MemoryTyped, CallTyped, Places, [Next]_vars PROVE MemoryTyped'
  OBVIOUS
<1> USE DEF MemoryTyped, memoryVars
<1>1. CASE UNCHANGED <<memoryVars, specPp, stride>>
  BY <1>1
<1>2. ASSUME NEW k \in Keys, Call(k) PROVE MemoryTyped'
  <2>1. k.nonce \in 0 .. W - 1 /\ k.input \in Inputs
    BY DEF Keys
  <2>2. \A j \in Keys : Minus(k.nonce, j.nonce) \in 0 .. W
    <3> SUFFICES ASSUME NEW j \in Keys PROVE Minus(k.nonce, j.nonce) \in 0 .. W
      OBVIOUS
    <3>1. j.nonce \in 0 .. W - 1 /\ W \in Nat
      BY SolvePipelineAssumption DEF Keys, SolvePipelineAssumption
    <3>2. j.nonce \in 0 .. W /\ j.nonce < W
      BY <3>1
    <3>3. Minus(k.nonce, j.nonce) \in 0 .. W - 1
      BY <2>1, <3>2, Strides
    <3> QED BY <3>1, <3>3
  <2>3. Learned(k) \in 0 .. W /\ Observed(k) \in 0 .. W
    BY <2>2 DEF Learned, Observed, CallTyped
  <2> QED BY <1>2, <2>3 DEF Call
<1>3. CASE SeedPrePow
  <2>1. specPp' \in Keys \cup {NoKey}
    <3>1. cur \in Keys
      BY <1>3 DEF SeedPrePow, Places, Calling
    <3> QED BY <1>3, <3>1, ExpectedIsAKey DEF SeedPrePow
  <2> QED BY <1>3, <2>1 DEF SeedPrePow
<1>4. CASE PollAbort \/ CheckLaunches \/ ReadSurvivors
  <2>1. pc \in Calling
    BY <1>4 DEF PollAbort, CheckLaunches, ReadSurvivors, Calling
  <2>2. Expects(cur, delta) \in Keys
    BY <2>1, ExpectedIsAKey DEF Places
  <2>3. specKey' \in Keys \cup {NoKey}
    BY <1>4, <2>2 DEF PollAbort, CheckLaunches, ReadSurvivors, Remember
  <2> QED BY <1>4, <2>3 DEF PollAbort, CheckLaunches, ReadSurvivors
<1>5. CASE ContextLost
  BY <1>5 DEF ContextLost
<1> QED BY <1>1, <1>2, <1>3, <1>4, <1>5
        DEF Next, Host, vars, Allocate, Refused, EntryPass, AppendRound, ReleaseBeside,
            AppendTerminal, Recover, Throws, RequestAbort, Device, DispatchError,
            BesideStarts, BesideEnds

LEMMA QueueType == QueueTyped /\ CallTyped /\ [Next]_vars => QueueTyped'
<1> SUFFICES ASSUME QueueTyped, CallTyped, [Next]_vars PROVE QueueTyped'
  OBVIOUS
<1> USE DEF QueueTyped
<1>1. CASE UNCHANGED <<queue, beside>>
  BY <1>1
<1>2. ASSUME NEW c \in 0 .. 6, Launch(c), UNCHANGED beside PROVE QueueTyped'
  <2>1. queue \in Seq(0 .. 6)
    OBVIOUS
  <2>2. Append(queue, c) \in Seq(0 .. 6)
    BY <2>1
  <2>3. queue' \in Seq(0 .. 6)
    BY <1>2, <2>1, <2>2 DEF Launch
  <2> QED BY <1>2, <2>3
<1>3. CASE EntryPass
  BY <1>1, <1>2, <1>3 DEF EntryPass, Entry
<1>4. CASE AppendRound
  BY <1>2, <1>4 DEF AppendRound, CallTyped
<1>5. CASE AppendTerminal
  BY <1>2, <1>5 DEF AppendTerminal, Terminal
<1>6. CASE ReleaseBeside
  BY <1>6 DEF ReleaseBeside, SpecReady
<1>7. CASE Device
  BY <1>7 DEF Device
<1>8. CASE DispatchError \/ ContextLost
  <2>1. queue' = <<>> /\ beside' \in {"idle", "asked", "ready", "running"}
    BY <1>8 DEF DispatchError, ContextLost
  <2>2. <<>> \in Seq(0 .. 6)
    OBVIOUS
  <2> QED BY <2>1, <2>2
<1>9. CASE BesideStarts \/ BesideEnds
  BY <1>9 DEF BesideStarts, BesideEnds
<1> QED BY <1>1, <1>3, <1>4, <1>5, <1>6, <1>7, <1>8, <1>9
        DEF Next, Host, vars, Allocate, Refused, Call, SeedPrePow, PollAbort, CheckLaunches,
            ReadSurvivors, Recover, Throws, RequestAbort

\* What the device does to its sets, by the command it takes off the queue.
LEMMA DeviceSteps ==
  ASSUME Device
  PROVE  /\ Head(queue) = Entry => RunEntry
         /\ Head(queue) \in 1 .. 4 => RunRound(Head(queue))
         /\ Head(queue) = Terminal => RunTerminal
         /\ Head(queue) = SpecReady => UNCHANGED deviceVars
         /\ Head(queue) \in {Entry, Terminal, SpecReady} \cup 1 .. 4
BY DEF Device, Entry, Terminal, SpecReady

LEMMA SetsType ==
  SetsTyped /\ CallTyped /\ MemoryTyped /\ QueueTyped /\ [Next]_vars => SetsTyped'
<1> SUFFICES ASSUME SetsTyped, CallTyped, MemoryTyped, QueueTyped, [Next]_vars PROVE SetsTyped'
  OBVIOUS
<1> USE DEF SetsTyped, deviceVars
<1>1. CASE UNCHANGED deviceVars
  BY <1>1
<1>2. ASSUME NEW k \in Keys, Call(k) PROVE SetsTyped'
  BY <1>2 DEF Call
<1>3. CASE Device
  <2>1. CASE RunEntry
    <3>1. set' \in [0 .. 1 -> (0 .. 4) \cup {Stale}]
      BY <2>1 DEF RunEntry
    <3>2. entry' \in [key : Keys \cup {NoKey}, whole : BOOLEAN]
      <4>1. \A k \in Keys \cup {NoKey}, b \in BOOLEAN :
               [key |-> k, whole |-> b] \in [key : Keys \cup {NoKey}, whole : BOOLEAN]
        OBVIOUS
      <4>2. cur \in Keys \cup {NoKey} /\ entry \in [key : Keys \cup {NoKey}, whole : BOOLEAN]
        BY DEF CallTyped
      <4>3. CASE spec = "off"
        BY <2>1, <4>2, <4>3 DEF RunEntry
      <4>4. CASE spec # "off" /\ beside = "running"
        BY <2>1, <4>1, <4>4 DEF RunEntry
      <4>5. CASE spec # "off" /\ beside # "running"
        BY <2>1, <4>1, <4>2, <4>5 DEF RunEntry
      <4> QED BY <4>3, <4>4, <4>5
    <3> QED BY <2>1, <3>1, <3>2 DEF RunEntry
  <2>2. ASSUME NEW n \in 1 .. 4, RunRound(n) PROVE SetsTyped'
    <3> DEFINE result == IF InputIsGood(n) THEN n ELSE Stale
    <3>1. result \in (0 .. 4) \cup {Stale} /\ n % 2 \in 0 .. 1
      OBVIOUS
    <3>2. plane' \in (0 .. 4) \cup {Stale} /\ set' \in [0 .. 1 -> (0 .. 4) \cup {Stale}]
      BY <2>2, <3>1 DEF RunRound
    <3>3. rows' \subseteq 1 .. 5 /\ surv' \in BOOLEAN
      BY <2>2 DEF RunRound
    <3>4. entry' \in [key : Keys \cup {NoKey}, whole : BOOLEAN]
      BY <2>2 DEF RunRound, MemoryTyped
    <3> QED BY <3>2, <3>3, <3>4
  <2>3. CASE RunTerminal
    BY <2>3 DEF RunTerminal
  <2> QED BY <1>1, <1>3, <2>1, <2>2, <2>3, DeviceSteps
<1>4. CASE BesideStarts \/ BesideEnds
  <2>1. entry' \in [key : Keys \cup {NoKey}, whole : BOOLEAN]
    <3>1. CASE BesideStarts
      BY <3>1 DEF BesideStarts, MemoryTyped
    <3>2. CASE BesideEnds
      BY <3>2 DEF BesideEnds
    <3> QED BY <1>4, <3>1, <3>2
  <2> QED BY <1>4, <2>1 DEF BesideStarts, BesideEnds
<1> QED BY <1>1, <1>2, <1>3, <1>4
        DEF Next, Host, vars, Allocate, Refused, EntryPass, SeedPrePow, AppendRound,
            ReleaseBeside, PollAbort, AppendTerminal, CheckLaunches, ReadSurvivors, Recover,
            Throws, RequestAbort, DispatchError, ContextLost

LEMMA NextType == TypeOK /\ Places /\ [Next]_vars => TypeOK' /\ Places'
<1> SUFFICES ASSUME TypeOK, Places, [Next]_vars PROVE TypeOK' /\ Places'
  OBVIOUS
<1>1. SolverTyped /\ CallTyped /\ MemoryTyped /\ QueueTyped /\ SetsTyped
  BY TypeInParts
<1>2. SolverTyped' /\ CallTyped' /\ MemoryTyped' /\ QueueTyped' /\ SetsTyped'
  BY <1>1, SolverType, CallType, MemoryType, QueueType, SetsType
<1>3. (TypeOK <=> SolverTyped /\ CallTyped /\ MemoryTyped /\ QueueTyped /\ SetsTyped)'
  BY TypeInParts, PTL
<1> QED BY <1>2, <1>3, NextPlaces

(* The solver's variables stay in their types: no command is left on the queue  *)
(* that the device does not know, and no seed names a nonce outside the range.  *)
THEOREM TypeCorrect == Spec => []TypeOK
<1> QED BY InitType, InitPlaces, NextType, PTL DEF Spec
-----------------------------------------------------------------------------
(* What the device has yet to do for this call.                            *)

Done == 7

\* The command that follows another one in a call.
After(c) ==
  CASE c = 2 -> IF seeding /\ spec = "beside" THEN SpecReady ELSE 3
    [] c = SpecReady -> 3
    [] c \in {Terminal, Done} -> Done
    [] OTHER -> c + 1

Rank(c) == IF c = SpecReady THEN 5 ELSE 2 * c

\* The command the host appends next; a call cut short before the terminal round
\* leaves the device there.
Coming ==
  CASE pc = "entry" -> IF hit THEN 1 ELSE Entry
    [] pc \in {"seed", "round", "poll", "terminal"} -> round
    [] pc = "release" -> SpecReady
    [] OTHER -> IF pc = "idle" /\ outcome = "cut" THEN Terminal ELSE Done

\* The command the device takes off the queue next.
NextUp == IF queue = <<>> THEN Coming ELSE Head(queue)

\* The device's sets matter: to a call that has lost no launch, or to the next one.
Live == ~failed /\ (pc \in Calling \/ specKey # NoKey)

\* What is queued is a stretch of one call's commands, up to the next one.
QueueInv ==
  /\ queue # <<>> => After(queue[Len(queue)]) = Coming
  /\ \A i \in 1 .. Len(queue) - 1 : queue[i + 1] = After(queue[i])
  /\ \A i \in 1 .. Len(queue) : Rank(queue[i]) < Rank(Coming)

EntryIs(k) == entry = [key |-> k, whole |-> TRUE]

SeedInv == seeding /\ pc # "entry" /\ pc # "seed" => specPp = Expects(cur, delta)

\* The stream beside has been asked for an entry pass in this call.
Released == seeding /\ spec = "beside" /\ Coming \in {3, 4, Terminal, Done}

BesideInv ==
  /\ ~Released => beside = "idle"
  /\ Released /\ NextUp \in {0, 1, 2, SpecReady} => beside = "asked"
  /\ Released /\ NextUp \notin {0, 1, 2, SpecReady} =>
       \/ beside = "ready"
       \/ beside = "running" /\ entry.key = specPp
       \/ beside = "idle" /\ EntryIs(specPp)

\* The set each command is to read, and what recovery is to find.
InputInv ==
  /\ NextUp = 1 => IF spec = "off" THEN set[0] = 0 ELSE EntryIs(cur)
  /\ NextUp = 2 => set[1] = 1
  /\ NextUp \in {3, SpecReady} => set[0] = 2
  /\ NextUp = 4 => set[1] = 3 /\ (OwnPlane => set[0] = 2)
  /\ NextUp \in {Terminal, Done} => set[1] = 3
  /\ NextUp \in {Terminal, Done} /\ OwnPlane => set[0] = 2 /\ plane = 4
  /\ NextUp \in {Terminal, Done} /\ ~OwnPlane => set[0] = 4
  /\ NextUp = Done => surv
  /\ NextUp \in {Terminal, Done} /\ seeding /\ spec = "coblocks" => EntryIs(specPp)

RowsInv == \A n \in RowsWritten : n \in rows \/ Rank(NextUp) <= Rank(n)

LiveInv == Live => QueueInv /\ SeedInv /\ BesideInv /\ InputInv /\ RowsInv

\* What a back-end does not do, and what has become of the queue.
Roles ==
  /\ spec = "beside" => backend = "CUDA"
  /\ backend = "Metal" => spec = "off"
  /\ seeding \/ hit => spec # "off"
  /\ failed => backend = "CUDA"
  /\ pc = "poll" => backend # "CUDA"
  /\ pc = "check" => backend = "CUDA"
  /\ pc = "release" => seeding /\ spec = "beside"
  /\ pc \in {"read", "recover"} => ~failed
  /\ pc \in {"entry", "recover"} => queue = <<>>
  /\ pc = "alloc" => ~seeding /\ ~hit

\* The entry pass a next call may rely on.
PromiseInv ==
  specKey # NoKey =>
    /\ specKey = Expects(cur, delta)
    /\ seeding /\ ~failed /\ cur \in Keys
    /\ \/ pc = "idle" /\ round = 5
       \/ pc = "recover"
       \/ pc = "read" /\ backend = "CUDA"

OutcomeInv == outcome \in {"empty", "found"} => pc = "idle" /\ queue = <<>> /\ surv

SolveInv == TypeOK /\ Places /\ Roles /\ PromiseInv /\ LiveInv /\ OutcomeInv

LEMMA InitSolve == Init => SolveInv
<1> SUFFICES ASSUME Init PROVE SolveInv
  OBVIOUS
<1>1. TypeOK /\ Places
  BY InitType, InitPlaces
<1>2. Roles /\ PromiseInv /\ OutcomeInv /\ LiveInv
  BY DEF Init, Roles, PromiseInv, OutcomeInv, LiveInv, Live, Calling
<1> QED BY <1>1, <1>2 DEF SolveInv

LEMMA NextRoles == Roles /\ TypeOK /\ Places /\ [Next]_vars => Roles'
<1> SUFFICES ASSUME Roles, TypeOK, Places, [Next]_vars PROVE Roles'
  OBVIOUS
<1> USE DEF Roles, solverVars, callVars
<1>0. backend \in {"OpenCL", "CUDA", "Metal"}
  BY SolvePipelineAssumption DEF TypeOK, SolvePipelineAssumption
<1>1. CASE Allocate
  BY <1>0, <1>1 DEF Allocate, SpecForms
<1>2. CASE Refused
  BY <1>2 DEF Refused
<1>3. ASSUME NEW k \in Keys, Call(k) PROVE Roles'
  BY <1>3 DEF Call, Hits, Settled
<1>4. CASE EntryPass
  BY <1>4 DEF EntryPass, Launch
<1>5. CASE SeedPrePow
  BY <1>5 DEF SeedPrePow
<1>6. CASE AppendRound
  BY <1>6 DEF AppendRound, Launch, Places
<1>7. CASE ReleaseBeside
  BY <1>7 DEF ReleaseBeside
<1>8. CASE PollAbort
  BY <1>8 DEF PollAbort, Return
<1>9. CASE AppendTerminal
  BY <1>9 DEF AppendTerminal, Launch
<1>10. CASE CheckLaunches
  BY <1>10 DEF CheckLaunches, Return
<1>11. CASE ReadSurvivors
  BY <1>11 DEF ReadSurvivors, Return
<1>12. CASE Recover \/ Throws
  BY <1>12 DEF Recover, Throws, Return
<1>13. CASE Device \/ DispatchError \/ ContextLost
  BY <1>13 DEF Device, DispatchError, ContextLost, Return
<1>14. CASE UNCHANGED vars \/ RequestAbort \/ BesideStarts \/ BesideEnds
  BY <1>14 DEF vars, RequestAbort, BesideStarts, BesideEnds
<1> QED BY <1>1, <1>2, <1>3, <1>4, <1>5, <1>6, <1>7, <1>8, <1>9, <1>10, <1>11, <1>12, <1>13, <1>14
        DEF Next, Host

LEMMA NextPromise == PromiseInv /\ Roles /\ TypeOK /\ Places /\ [Next]_vars => PromiseInv'
<1> SUFFICES ASSUME PromiseInv, Roles, TypeOK, Places, [Next]_vars PROVE PromiseInv'
  OBVIOUS
<1> USE DEF PromiseInv, memoryVars, callVars, Expects
<1>0. backend \in {"OpenCL", "CUDA", "Metal"}
  BY SolvePipelineAssumption DEF TypeOK, SolvePipelineAssumption
<1>1. CASE Allocate \/ Refused
  BY <1>1 DEF Allocate, Refused
<1>2. ASSUME NEW k \in Keys, Call(k) PROVE PromiseInv'
  BY <1>2 DEF Call
<1>3. CASE EntryPass \/ SeedPrePow \/ AppendRound \/ ReleaseBeside \/ AppendTerminal
  <2>1. specKey = NoKey /\ specKey' = specKey
    BY <1>3 DEF EntryPass, SeedPrePow, AppendRound, ReleaseBeside, AppendTerminal
  <2> QED BY <2>1
<1>4. CASE PollAbort
  BY <1>0, <1>4 DEF PollAbort, Return, Remember, Seeded, Places, Calling, Roles
<1>5. CASE CheckLaunches
  BY <1>5 DEF CheckLaunches, Return, Remember, Places, Calling, Roles, solverVars
<1>6. CASE ReadSurvivors
  BY <1>6 DEF ReadSurvivors, Return, Remember, Seeded, Places, Calling, Roles
<1>7. CASE Recover \/ Throws
  BY <1>7 DEF Recover, Throws, Return, Places
<1>8. CASE DispatchError \/ ContextLost
  BY <1>8 DEF DispatchError, ContextLost, Return, Roles
<1>9. CASE UNCHANGED vars \/ RequestAbort \/ BesideStarts \/ BesideEnds \/ Device
  BY <1>9 DEF vars, RequestAbort, BesideStarts, BesideEnds, Device, solverVars
<1> QED BY <1>1, <1>2, <1>3, <1>4, <1>5, <1>6, <1>7, <1>8, <1>9 DEF Next, Host

\* A command is appended, taken off, or neither.
LEMMA Appending ==
  ASSUME TypeOK, QueueInv, queue' = Append(queue, Coming), Coming \in 0 .. 6,
         Coming' = After(Coming), UNCHANGED <<seeding, spec>>
  PROVE  QueueInv' /\ NextUp' = NextUp
<1>1. queue \in Seq(0 .. 6) /\ queue' # <<>> /\ Len(queue') = Len(queue) + 1 /\ Len(queue) \in Nat
  BY DEF TypeOK
<1>2. \A i \in 1 .. Len(queue) : queue'[i] = queue[i]
  BY <1>1
<1>3. queue'[Len(queue')] = Coming
  BY <1>1
<1>4. \A c : After(c)' = After(c)
  BY DEF After
<1>5. Rank(Coming) < Rank(Coming')
  BY DEF After, Rank, Terminal, Done, SpecReady
<1>6. NextUp' = NextUp
  <2>1. CASE queue = <<>>
    BY <1>1, <1>3, <2>1 DEF NextUp
  <2>2. CASE queue # <<>>
    BY <1>1, <1>2, <2>2 DEF NextUp
  <2> QED BY <2>1, <2>2
<1>7. \A i \in 1 .. Len(queue') - 1 : queue'[i + 1] = After(queue'[i])
  <2> SUFFICES ASSUME NEW i \in 1 .. Len(queue') - 1 PROVE queue'[i + 1] = After(queue'[i])
    OBVIOUS
  <2>1. CASE i = Len(queue)
    BY <1>1, <1>2, <1>3, <2>1 DEF QueueInv
  <2>2. CASE i # Len(queue)
    BY <1>1, <1>2, <2>2 DEF QueueInv
  <2> QED BY <2>1, <2>2
<1>8. \A i \in 1 .. Len(queue') : Rank(queue'[i]) < Rank(Coming')
  <2> SUFFICES ASSUME NEW i \in 1 .. Len(queue') PROVE Rank(queue'[i]) < Rank(Coming')
    OBVIOUS
  <2>1. Rank(queue'[i]) \in Int /\ Rank(Coming) \in Int /\ Rank(Coming') \in Int
    <3>1. queue'[i] \in 0 .. 6 /\ Coming' \in 0 .. 7
      BY <1>1, <1>2, <1>3 DEF After, Terminal, Done, SpecReady
    <3> QED BY <3>1 DEF Rank
  <2>2. CASE i = Len(queue')
    BY <1>3, <1>5, <2>2
  <2>3. CASE i # Len(queue')
    BY <1>1, <1>2, <1>5, <2>1, <2>3 DEF QueueInv
  <2> QED BY <2>2, <2>3
<1> QED BY <1>1, <1>3, <1>4, <1>6, <1>7, <1>8 DEF QueueInv, Rank

LEMMA Holding ==
  ASSUME QueueInv, queue' = queue, Coming' = Coming, UNCHANGED <<seeding, spec>>
  PROVE  QueueInv' /\ NextUp' = NextUp
BY DEF QueueInv, NextUp, After, Rank

LEMMA TakingOff ==
  ASSUME TypeOK, QueueInv, queue # <<>>, queue' = Tail(queue), Coming' = Coming,
         UNCHANGED <<seeding, spec>>
  PROVE  /\ QueueInv'
         /\ NextUp = Head(queue)
         /\ NextUp' = After(Head(queue))
<1>1. queue \in Seq(0 .. 6) /\ Len(queue) \in Nat \ {0} /\ Len(queue') = Len(queue) - 1
  BY DEF TypeOK
<1>2. \A i \in 1 .. Len(queue') : queue'[i] = queue[i + 1]
  BY <1>1
<1>3. \A c : After(c)' = After(c)
  BY DEF After
<1>4. queue' = <<>> <=> Len(queue) = 1
  <2>1. PICK t \in Seq(0 .. 6) : t = queue'
    BY <1>1, HeadTailProperties
  <2>2. t = <<>> <=> Len(t) = 0
    BY EmptySeq
  <2> QED BY <1>1, <2>1, <2>2
<1>5. NextUp = Head(queue) /\ Head(queue) = queue[1]
  BY DEF NextUp
<1>6. NextUp' = After(Head(queue))
  <2>1. CASE Len(queue) = 1
    <3>1. NextUp' = Coming
      BY <1>4, <2>1 DEF NextUp
    <3>2. Head(queue) = queue[Len(queue)]
      BY <1>5, <2>1
    <3> QED BY <3>1, <3>2 DEF QueueInv
  <2>2. CASE Len(queue) # 1
    <3>1. queue' # <<>> /\ Head(queue') = queue'[1] /\ queue'[1] = queue[2] /\ 1 \in 1 .. Len(queue) - 1
      BY <1>1, <1>2, <1>4, <2>2
    <3>2. queue[2] = After(queue[1])
      BY <3>1 DEF QueueInv
    <3> QED BY <1>5, <3>1, <3>2 DEF NextUp
  <2> QED BY <2>1, <2>2
<1>7. queue' # <<>> => After(queue'[Len(queue')]) = Coming'
  BY <1>1, <1>2, <1>4 DEF QueueInv
<1>8. \A i \in 1 .. Len(queue') - 1 : queue'[i + 1] = After(queue'[i])
  BY <1>1, <1>2 DEF QueueInv
<1>9. \A i \in 1 .. Len(queue') : Rank(queue'[i]) < Rank(Coming')
  BY <1>1, <1>2 DEF QueueInv
<1> QED BY <1>3, <1>5, <1>6, <1>7, <1>8, <1>9 DEF QueueInv, Rank

\* A step of the host, which leaves the sets alone.
LEMMA HostStep ==
  ASSUME LiveInv, Live' => Live, Live' => QueueInv' /\ NextUp' = NextUp,
         Live' => SeedInv' /\ BesideInv',
         UNCHANGED <<solverVars, cur, seeding, deviceVars>>,
         specPp' = specPp \/ NextUp \notin {Terminal, Done}
  PROVE  LiveInv'
<1> SUFFICES ASSUME Live' PROVE InputInv' /\ RowsInv'
  BY DEF LiveInv
<1>1. InputInv /\ RowsInv /\ NextUp' = NextUp
  BY DEF LiveInv
<1>2. OwnPlane' = OwnPlane /\ RowsWritten' = RowsWritten
  BY DEF OwnPlane, RowsWritten, solverVars
<1>3. InputInv'
  BY <1>1, <1>2 DEF InputInv, EntryIs, solverVars, deviceVars
<1>4. RowsInv'
  BY <1>1, <1>2 DEF RowsInv, Rank, deviceVars
<1> QED BY <1>3, <1>4

\* What the stream beside is about is settled by the next command.
LEMMA BesideStays ==
  ASSUME BesideInv, NextUp' = NextUp, Released' <=> Released,
         UNCHANGED <<beside, specPp, entry>>
  PROVE  BesideInv'
BY DEF BesideInv, EntryIs

\* A step that changes none of what Coming, Live and the sets' invariant are about.
LEMMA QuietStep ==
  ASSUME LiveInv, UNCHANGED <<solverVars, specKey, delta, pc, callVars, queue, beside, specPp, deviceVars>>
  PROVE  LiveInv'
<1> USE DEF callVars, solverVars
<1>1. Coming' = Coming /\ Live' = Live
  BY DEF Coming, Live
<1>2. QueueInv => QueueInv' /\ NextUp' = NextUp
  BY <1>1, Holding
<1>3. Live => SeedInv' /\ (Released' <=> Released)
  BY <1>1 DEF LiveInv, SeedInv, Released, Expects
<1>4. Live => BesideInv'
  BY <1>2, <1>3, BesideStays DEF LiveInv, deviceVars
<1> QED BY <1>1, <1>2, <1>3, <1>4, HostStep DEF LiveInv

LEMMA LiveEntryPass == LiveInv /\ Roles /\ TypeOK /\ Places /\ EntryPass => LiveInv'
<1> SUFFICES ASSUME LiveInv, Roles, TypeOK, Places, EntryPass PROVE LiveInv'
  OBVIOUS
<1> USE DEF EntryPass, callVars
<1>1. Live' => Live
  BY DEF Live, Calling, Launch, memoryVars
<1>2. Coming = IF hit THEN 1 ELSE Entry
  BY DEF Coming
<1>3. Coming' = 1
  BY DEF Coming, Places
<1>4. Live' => QueueInv' /\ NextUp' = NextUp
  <2> SUFFICES ASSUME Live' PROVE QueueInv' /\ NextUp' = NextUp
    OBVIOUS
  <2>1. CASE hit
    BY <1>1, <1>2, <1>3, <2>1, Holding DEF LiveInv, solverVars
  <2>2. CASE ~hit
    <3>1. queue' = Append(queue, Entry) /\ Coming = 0 /\ After(0) = 1
      BY <1>2, <2>2 DEF Launch, Live, After, Entry, Terminal, Done, SpecReady
    <3> QED BY <1>1, <1>2, <1>3, <3>1, Appending DEF LiveInv, Entry, solverVars
  <2> QED BY <2>1, <2>2
<1>5. SeedInv'
  BY DEF SeedInv
<1>6. Live => BesideInv
  BY DEF LiveInv
<1>7. ~Released /\ ~Released'
  BY <1>2, <1>3 DEF Released, Entry, Terminal, Done
<1>8. Live' => BesideInv'
  BY <1>1, <1>4, <1>6, <1>7, BesideStays DEF deviceVars
<1> QED BY <1>1, <1>4, <1>5, <1>8, HostStep

LEMMA LiveSeedPrePow == LiveInv /\ TypeOK /\ Places /\ SeedPrePow => LiveInv'
<1> SUFFICES ASSUME LiveInv, TypeOK, Places, SeedPrePow PROVE LiveInv'
  OBVIOUS
<1> USE DEF SeedPrePow, callVars, solverVars
<1>1. Live' => Live
  BY DEF Live, Calling, memoryVars
<1>2. Coming = 1 /\ Coming' = 1
  BY DEF Coming, Places
<1>3. Live => QueueInv' /\ NextUp' = NextUp
  BY <1>2, Holding DEF LiveInv
<1>4. Live => NextUp \in {0, 1}
  <2> SUFFICES ASSUME Live, queue # <<>> PROVE Head(queue) \in {0, 1}
    BY <1>2 DEF NextUp
  <2>1. queue \in Seq(0 .. 6) /\ Len(queue) \in Nat \ {0}
    BY DEF TypeOK
  <2>2. Head(queue) = queue[1] /\ queue[1] \in 0 .. 6 /\ 1 \in 1 .. Len(queue)
    BY <2>1
  <2>3. Rank(queue[1]) < Rank(1)
    BY <1>2, <2>2 DEF LiveInv, QueueInv
  <2> QED BY <2>2, <2>3 DEF Rank, SpecReady
<1>5. SeedInv'
  BY DEF SeedInv, memoryVars, Expects
<1>6. ~Released /\ ~Released'
  BY <1>2 DEF Released, Terminal, Done
<1>7. Live => BesideInv'
  BY <1>6 DEF LiveInv, BesideInv
<1>8. ~Live \/ NextUp \notin {Terminal, Done}
  BY <1>4 DEF Terminal, Done
<1>9. CASE ~Live
  BY <1>1, <1>9 DEF LiveInv
<1>10. CASE Live
  BY <1>1, <1>3, <1>5, <1>7, <1>8, <1>10, HostStep
<1> QED BY <1>9, <1>10

LEMMA LiveAppendRound == LiveInv /\ Roles /\ TypeOK /\ Places /\ AppendRound => LiveInv'
<1> SUFFICES ASSUME LiveInv, Roles, TypeOK, Places, AppendRound PROVE LiveInv'
  OBVIOUS
<1> USE DEF AppendRound, callVars, solverVars
<1>1. Live' => Live
  BY DEF Live, Calling, Launch, memoryVars
<1>2. Coming = round /\ round \in 1 .. 4
  BY DEF Coming, Places
<1>3. backend \in {"OpenCL", "CUDA", "Metal"}
  BY SolvePipelineAssumption DEF TypeOK, SolvePipelineAssumption
<1>4. After(round) = IF round = 2 /\ seeding /\ spec = "beside" THEN SpecReady ELSE round + 1
  BY <1>2 DEF After, Terminal, Done, SpecReady
<1>5. Coming' = After(Coming)
  <2>1. CASE backend # "CUDA"
    BY <1>2, <1>4, <2>1 DEF Coming, Roles
  <2>2. CASE backend = "CUDA"
    BY <1>2, <1>4, <2>2 DEF Coming
  <2> QED BY <2>1, <2>2
<1>6. Live' => QueueInv' /\ NextUp' = NextUp
  <2> SUFFICES ASSUME Live' PROVE QueueInv' /\ NextUp' = NextUp
    OBVIOUS
  <2>1. queue' = Append(queue, Coming)
    BY <1>2 DEF Launch, Live
  <2>2. QueueInv /\ Coming \in 0 .. 6
    BY <1>1, <1>2 DEF LiveInv
  <2> QED BY <1>5, <2>1, <2>2, Appending
<1>7. Live => SeedInv'
  BY DEF LiveInv, SeedInv, memoryVars, Expects
<1>8. Released' <=> Released
  BY <1>2, <1>4, <1>5 DEF Released, SpecReady, Terminal, Done
<1>9. Live' => BesideInv'
  BY <1>1, <1>6, <1>8, BesideStays DEF LiveInv, deviceVars
<1> QED BY <1>1, <1>6, <1>7, <1>9, HostStep

LEMMA LiveReleaseBeside == LiveInv /\ Roles /\ TypeOK /\ Places /\ ReleaseBeside => LiveInv'
<1> SUFFICES ASSUME LiveInv, Roles, TypeOK, Places, ReleaseBeside PROVE LiveInv'
  OBVIOUS
<1> USE DEF ReleaseBeside, callVars, solverVars
<1>1. Live' => Live
  BY DEF Live, Calling, memoryVars
<1>2. Coming = SpecReady /\ Coming' = 3 /\ After(SpecReady) = 3
  BY DEF Coming, Places, After, SpecReady, Terminal, Done
<1>3. Live' => QueueInv' /\ NextUp' = NextUp
  BY <1>1, <1>2, Appending DEF LiveInv, SpecReady
<1>4. Live => SeedInv'
  BY DEF LiveInv, SeedInv, memoryVars, Expects
<1>5. Live => NextUp \in {0, 1, 2, SpecReady}
  <2> SUFFICES ASSUME Live, queue # <<>> PROVE Head(queue) \in {0, 1, 2, SpecReady}
    BY <1>2 DEF NextUp
  <2>1. queue \in Seq(0 .. 6) /\ Len(queue) \in Nat \ {0}
    BY DEF TypeOK
  <2>2. Head(queue) = queue[1] /\ queue[1] \in 0 .. 6 /\ 1 \in 1 .. Len(queue)
    BY <2>1
  <2>3. Rank(queue[1]) < Rank(SpecReady)
    BY <1>2, <2>2 DEF LiveInv, QueueInv
  <2> QED BY <2>2, <2>3 DEF Rank, SpecReady
<1>6. Live' => BesideInv'
  <2> SUFFICES ASSUME Live' PROVE BesideInv'
    OBVIOUS
  <2>1. Released'
    BY <1>2 DEF Released, Roles
  <2>2. beside' = "asked" /\ NextUp' \in {0, 1, 2, SpecReady}
    BY <1>1, <1>3, <1>5 DEF Live
  <2> QED BY <2>1, <2>2 DEF BesideInv
<1> QED BY <1>1, <1>3, <1>4, <1>6, HostStep

\* A step of the host that appends nothing, and after which the same comes next.
LEMMA WaitingStep ==
  ASSUME LiveInv, Live' => Live, Live' => Coming' = Coming, pc \in Calling \ {"entry", "seed"},
         UNCHANGED <<solverVars, delta, cur, hit, seeding, queue, beside, specPp, deviceVars>>
  PROVE  LiveInv'
<1> USE DEF solverVars
<1>1. Live' => QueueInv' /\ NextUp' = NextUp
  BY Holding DEF LiveInv
<1>2. Live => SeedInv'
  BY DEF LiveInv, SeedInv, Expects, Calling
<1>3. Live' => (Released' <=> Released)
  BY DEF Released
<1>4. Live' => BesideInv'
  BY <1>1, <1>3, BesideStays DEF LiveInv, deviceVars
<1> QED BY <1>1, <1>2, <1>4, HostStep

LEMMA LivePollAbort == LiveInv /\ Roles /\ PromiseInv /\ Places /\ PollAbort => LiveInv'
<1> SUFFICES ASSUME LiveInv, Roles, PromiseInv, Places, PollAbort PROVE LiveInv'
  OBVIOUS
<1> USE DEF PollAbort, Return
<1>1. Live' => Live
  BY DEF Live, Calling
<1>2. Live' => Coming' = Coming
  <2>1. Coming = round
    BY DEF Coming
  <2>2. CASE abort
    <3> SUFFICES ASSUME Live' PROVE Coming' = 5
      BY <2>1, <2>2 DEF Remember, Seeded, Live, Calling
    <3> QED BY <2>2 DEF Coming, Terminal
  <2>3. CASE ~abort
    BY <2>1, <2>3 DEF Coming
  <2> QED BY <2>2, <2>3
<1> QED BY <1>1, <1>2, WaitingStep DEF Calling

LEMMA LiveAppendTerminal == LiveInv /\ Roles /\ TypeOK /\ Places /\ AppendTerminal => LiveInv'
<1> SUFFICES ASSUME LiveInv, Roles, TypeOK, Places, AppendTerminal PROVE LiveInv'
  OBVIOUS
<1> USE DEF AppendTerminal, callVars, solverVars
<1>1. Live' => Live
  BY DEF Live, Calling, Launch, memoryVars
<1>2. Coming = Terminal /\ Coming' = Done /\ After(Terminal) = Done
  BY DEF Coming, Places, After, Terminal, Done, SpecReady
<1>3. Live' => QueueInv' /\ NextUp' = NextUp
  <2> SUFFICES ASSUME Live' PROVE QueueInv' /\ NextUp' = NextUp
    OBVIOUS
  <2>1. queue' = Append(queue, Coming) /\ Coming \in 0 .. 6
    BY <1>2 DEF Launch, Live, Terminal
  <2> QED BY <1>1, <1>2, <2>1, Appending DEF LiveInv
<1>4. Live => SeedInv'
  BY DEF LiveInv, SeedInv, memoryVars, Expects
<1>5. Released' <=> Released
  BY <1>2 DEF Released
<1>6. Live' => BesideInv'
  BY <1>1, <1>3, <1>5, BesideStays DEF LiveInv, deviceVars
<1> QED BY <1>1, <1>3, <1>4, <1>6, HostStep

LEMMA LiveAtTheEnd ==
  LiveInv /\ Roles /\ PromiseInv /\ Places
  /\ (CheckLaunches \/ ReadSurvivors \/ Recover \/ Throws) => LiveInv'
<1> SUFFICES ASSUME LiveInv, Roles, PromiseInv, Places,
                    CheckLaunches \/ ReadSurvivors \/ Recover \/ Throws
             PROVE  LiveInv'
  OBVIOUS
<1> USE DEF Return, memoryVars, callVars
<1>1. CASE CheckLaunches
  <2>1. (Live' => Live) /\ (Live' => Coming' = Coming)
    BY <1>1 DEF CheckLaunches, Live, Calling, Coming, PromiseInv
  <2> QED BY <1>1, <2>1, WaitingStep DEF CheckLaunches, Calling
<1>2. CASE ReadSurvivors
  <2>1. (Live' => Live) /\ (Live' => Coming' = Coming)
    BY <1>2 DEF ReadSurvivors, Live, Calling, Coming
  <2> QED BY <1>2, <2>1, WaitingStep DEF ReadSurvivors, Calling
<1>3. CASE Recover
  <2>1. (Live' => Live) /\ (Live' => Coming' = Coming)
    BY <1>3 DEF Recover, Live, Calling, Coming
  <2> QED BY <1>3, <2>1, WaitingStep DEF Recover, Calling
<1>4. CASE Throws
  <2>1. Live' => pc = "recover"
    BY <1>4 DEF Throws, Live, Calling, PromiseInv
  <2>2. (Live' => Live) /\ (Live' => Coming' = Coming)
    BY <1>4, <2>1 DEF Throws, Live, Calling, Coming
  <2>3. CASE Live'
    BY <1>4, <2>1, <2>2, <2>3, WaitingStep DEF Throws, Calling
  <2> QED BY <2>3 DEF LiveInv
<1> QED BY <1>1, <1>2, <1>3, <1>4

\* Between two calls: the next one finds the entry pass it was promised.
LEMMA LiveCall ==
  ASSUME LiveInv, PromiseInv, Roles, TypeOK, NEW k \in Keys, Call(k)
  PROVE  LiveInv'
<1> USE DEF Call, solverVars
<1>1. queue = <<>> /\ queue' = <<>> /\ beside = "idle" /\ beside' = "idle"
  BY DEF Settled
<1>2. Coming' = IF hit' THEN 1 ELSE Entry
  BY DEF Coming
<1>3. QueueInv'
  <2>1. Len(queue') = 0
    BY <1>1
  <2> QED BY <1>1, <2>1 DEF QueueInv
<1>4. SeedInv' /\ BesideInv'
  <2>1. ~Released'
    BY <1>2 DEF Released, Entry, Terminal, Done
  <2> QED BY <1>1, <2>1 DEF SeedInv, BesideInv
<1>5. NextUp' = IF hit' THEN 1 ELSE 0
  BY <1>1, <1>2 DEF NextUp, Entry
<1>6. hit' => spec # "off" /\ EntryIs(k)
  <2> SUFFICES ASSUME hit' PROVE spec # "off" /\ EntryIs(k)
    OBVIOUS
  <2>1. spec # "off" /\ specKey = k /\ specKey # NoKey
    BY KeysAreKeys DEF Hits
  <2>2. Live /\ seeding /\ specPp = k
    BY <2>1 DEF PromiseInv, Live, LiveInv, SeedInv
  <2>3. NextUp \in {Terminal, Done} /\ Coming \in {Terminal, Done}
    BY <1>1 DEF NextUp, Coming
  <2>4. CASE spec = "coblocks"
    BY <2>2, <2>3, <2>4 DEF LiveInv, InputInv
  <2>5. CASE spec = "beside"
    <3>1. Released /\ NextUp \notin {0, 1, 2, SpecReady}
      BY <2>2, <2>3, <2>5 DEF Released, Terminal, Done, SpecReady
    <3> QED BY <1>1, <2>1, <2>2, <3>1 DEF LiveInv, BesideInv
  <2> QED BY <2>1, <2>4, <2>5 DEF TypeOK
<1>7. InputInv'
  BY <1>5, <1>6 DEF InputInv, EntryIs, Terminal, Done, SpecReady
<1>8. RowsInv'
  <2> SUFFICES ASSUME NEW n \in RowsWritten' PROVE Rank(NextUp)' <= Rank(n)'
    BY DEF RowsInv
  <2>1. n \in 1 .. 5
    BY DEF RowsWritten
  <2> QED BY <1>5, <2>1 DEF Rank, SpecReady
<1> QED BY <1>3, <1>4, <1>7, <1>8 DEF LiveInv

\* One round on the device: it finds the set before it, and leaves its own.
LEMMA LiveRound ==
  ASSUME TypeOK, BesideInv, InputInv, RowsInv, Device, queue # <<>>, Head(queue) \in 1 .. 4,
         NextUp = Head(queue), NextUp' = After(Head(queue)), RowsWritten \subseteq 1 .. 5,
         OwnPlane' = OwnPlane, RowsWritten' = RowsWritten
  PROVE  InputInv' /\ RowsInv'
<1> DEFINE n == Head(queue)
<1>1. RunRound(n)
  BY DeviceSteps
<1>2. InputIsGood(n)
  <2>1. CASE n = 1
    <3>1. beside # "running"
      BY <2>1 DEF BesideInv
    <3> QED BY <2>1, <3>1 DEF InputInv, InputIsGood, EntryIs
  <2>2. CASE n = 2
    BY <2>2 DEF InputInv, InputIsGood
  <2>3. CASE n = 3
    BY <2>3 DEF InputInv, InputIsGood
  <2>4. CASE n = 4
    BY <2>4 DEF InputInv, InputIsGood
  <2> QED BY <2>1, <2>2, <2>3, <2>4
<1>3. /\ IF n = 4 /\ OwnPlane THEN plane' = n /\ set' = set
         ELSE set' = [set EXCEPT ![n % 2] = n] /\ plane' = plane
      /\ rows' = IF n \in RowsWritten THEN rows \cup {n} ELSE rows
      /\ entry' = IF n = 4 /\ seeding /\ spec = "coblocks"
                  THEN [key |-> specPp, whole |-> TRUE] ELSE entry
  BY <1>1, <1>2 DEF RunRound
<1>4. UNCHANGED <<spec, seeding, specPp, cur>>
  BY DEF Device, solverVars, callVars
<1>5. set \in [0 .. 1 -> (0 .. 4) \cup {Stale}]
  BY DEF TypeOK
<1>6. InputInv'
  <2>1. CASE n = 1
    <3>1. NextUp' = 2 /\ set'[1] = 1
      BY <1>3, <1>5, <2>1 DEF After, SpecReady, Terminal, Done
    <3> QED BY <3>1 DEF InputInv, SpecReady, Terminal, Done
  <2>2. CASE n = 2
    <3>1. NextUp' \in {3, SpecReady} /\ set'[0] = 2
      BY <1>3, <1>5, <2>2 DEF After, SpecReady, Terminal, Done
    <3> QED BY <3>1 DEF InputInv, SpecReady, Terminal, Done
  <2>3. CASE n = 3
    <3>1. NextUp' = 4 /\ set'[1] = 3 /\ set'[0] = 2
      BY <1>3, <1>5, <2>3 DEF After, InputInv, SpecReady, Terminal, Done
    <3> QED BY <3>1 DEF InputInv, SpecReady, Terminal, Done
  <2>4. CASE n = 4
    <3>1. NextUp' = Terminal /\ set[1] = 3 /\ (OwnPlane => set[0] = 2)
      BY <2>4 DEF After, InputInv, SpecReady, Terminal, Done
    <3>2. set'[1] = 3 /\ IF OwnPlane THEN set'[0] = 2 /\ plane' = 4 ELSE set'[0] = 4
      BY <1>3, <1>5, <2>4, <3>1
    <3>3. seeding' /\ spec' = "coblocks" => EntryIs(specPp)'
      BY <1>3, <1>4, <2>4 DEF EntryIs
    <3> QED BY <3>1, <3>2, <3>3 DEF InputInv, SpecReady, Terminal, Done
  <2> QED BY <2>1, <2>2, <2>3, <2>4
<1>7. RowsInv'
  <2> SUFFICES ASSUME NEW m \in RowsWritten, m \notin rows' PROVE Rank(NextUp') <= Rank(m)
    BY DEF RowsInv, Rank
  <2>1. m \notin rows /\ m # n /\ m \in 1 .. 5
    BY <1>3
  <2>2. n < m
    BY <2>1 DEF RowsInv, Rank, SpecReady
  <2>3. NextUp' \in {n + 1, SpecReady} /\ (NextUp' = SpecReady => n = 2)
    BY DEF After, SpecReady, Terminal, Done
  <2> QED BY <2>1, <2>2, <2>3 DEF Rank, SpecReady
<1> QED BY <1>6, <1>7

\* One command of the device.
LEMMA LiveDevice == LiveInv /\ Roles /\ TypeOK /\ Device => LiveInv'
<1> SUFFICES ASSUME LiveInv, Roles, TypeOK, Device, Live PROVE LiveInv'
  BY DEF LiveInv, Live, Device, callVars, memoryVars
<1> USE DEF solverVars, memoryVars, callVars
<1>1. queue # <<>> /\ queue' = Tail(queue) /\ Coming' = Coming /\ Live'
  BY DEF Device, Coming, Live
<1>2. QueueInv' /\ NextUp = Head(queue) /\ NextUp' = After(Head(queue))
  BY <1>1, TakingOff DEF Device, LiveInv
<1>3. /\ SeedInv /\ BesideInv /\ InputInv /\ RowsInv
      /\ OwnPlane' = OwnPlane /\ RowsWritten' = RowsWritten /\ RowsWritten \subseteq 1 .. 5
  BY DEF LiveInv, OwnPlane, RowsWritten, Device
<1>4. SeedInv' /\ (Released' <=> Released)
  BY <1>1, <1>3 DEF SeedInv, Released, Device, Expects
<1>5. Head(queue) \in 0 .. 6
  BY <1>1 DEF TypeOK
<1>6. /\ After(0) = 1 /\ After(1) = 2 /\ After(3) = 4 /\ After(4) = Terminal
      /\ After(2) = IF seeding /\ spec = "beside" THEN SpecReady ELSE 3
      /\ After(SpecReady) = 3 /\ After(Terminal) = Done
  BY <1>5 DEF After, SpecReady, Terminal, Done
<1>7. (spec = "beside" => UNCHANGED entry \/ Head(queue) = Entry) /\ UNCHANGED specPp
  BY DEF Device, RunEntry, RunRound, RunTerminal, deviceVars
<1>8. BesideInv'
  <2>1. CASE ~Released
    BY <1>3, <1>4, <2>1 DEF BesideInv, Device
  <2>2. CASE Released /\ Head(queue) \in {0, 1, 2}
    <3>1. beside = "asked" /\ beside' = "asked"
      BY <1>2, <1>3, <2>2 DEF BesideInv, Device, SpecReady
    <3>2. NextUp' \in {1, 2, SpecReady}
      BY <1>2, <1>6, <2>2 DEF Released, SpecReady
    <3> QED BY <1>4, <2>2, <3>1, <3>2 DEF BesideInv
  <2>3. CASE Released /\ Head(queue) = SpecReady
    <3>1. beside' = "ready"
      BY <1>2, <1>3, <2>3 DEF BesideInv, Device
    <3>2. NextUp' = 3
      BY <1>2, <1>6, <2>3 DEF SpecReady
    <3> QED BY <1>4, <2>3, <3>1, <3>2 DEF BesideInv, SpecReady
  <2>4. CASE Released /\ Head(queue) \in {3, 4, Terminal}
    <3>1. NextUp \notin {0, 1, 2, SpecReady} /\ NextUp' \notin {0, 1, 2, SpecReady}
      BY <1>2, <1>6, <2>4 DEF SpecReady, Terminal, Done
    <3>2. UNCHANGED <<beside, entry, specPp>>
      BY <1>7, <2>4 DEF Device, Released, SpecReady, Terminal, Entry
    <3> QED BY <1>3, <1>4, <2>4, <3>1, <3>2 DEF BesideInv, EntryIs
  <2> QED BY <1>5, <2>1, <2>2, <2>3, <2>4 DEF SpecReady, Terminal
<1>9. InputInv' /\ RowsInv'
  <2>1. CASE Head(queue) = Entry
    <3>1. NextUp' = 1 /\ RunEntry
      BY <1>2, <1>6, <2>1, DeviceSteps DEF Entry
    <3>2. beside # "running"
      BY <1>2, <1>3, <2>1 DEF BesideInv, Entry
    <3>3. InputInv'
      BY <3>1, <3>2 DEF InputInv, RunEntry, EntryIs, TypeOK, Device, SpecReady, Terminal, Done
    <3>4. RowsInv'
      BY <1>3, <3>1 DEF RowsInv, RunEntry, Rank, SpecReady
    <3> QED BY <3>3, <3>4
  <2>2. CASE Head(queue) \in 1 .. 4
    BY <1>1, <1>2, <1>3, <1>6, <2>2, LiveRound, DeviceSteps DEF LiveInv
  <2>3. CASE Head(queue) = Terminal
    <3>1. NextUp' = Done /\ RunTerminal
      BY <1>2, <1>6, <2>3, DeviceSteps DEF Terminal
    <3>2. surv'
      BY <1>2, <1>3, <2>3, <3>1 DEF RunTerminal, InputInv
    <3>3. InputInv'
      BY <1>2, <1>3, <2>3, <3>1, <3>2
         DEF InputInv, RunTerminal, EntryIs, Device, Terminal, Done, SpecReady
    <3>4. RowsInv'
      <4> SUFFICES ASSUME NEW n \in RowsWritten PROVE n \in rows'
        BY <1>3 DEF RowsInv
      <4>1. n \in rows \/ n = 5
        BY <1>2, <1>3, <2>3 DEF RowsInv, Rank, SpecReady, Terminal
      <4> QED BY <3>1, <3>2, <4>1 DEF RunTerminal
    <3> QED BY <3>3, <3>4
  <2>4. CASE Head(queue) = SpecReady
    <3>1. NextUp' = 3 /\ UNCHANGED deviceVars
      BY <1>2, <1>6, <2>4, DeviceSteps DEF SpecReady
    <3>2. InputInv'
      BY <1>2, <1>3, <2>4, <3>1 DEF InputInv, deviceVars, Terminal, Done, SpecReady
    <3>3. RowsInv'
      BY <1>2, <1>3, <2>4, <3>1 DEF RowsInv, Rank, deviceVars, SpecReady
    <3> QED BY <3>2, <3>3
  <2> QED BY <1>5, <2>1, <2>2, <2>3, <2>4 DEF Entry, SpecReady, Terminal
<1> QED BY <1>2, <1>4, <1>8, <1>9 DEF LiveInv

\* The stream beside.
LEMMA LiveBeside ==
  LiveInv /\ PromiseInv /\ TypeOK /\ Places /\ (BesideStarts \/ BesideEnds) => LiveInv'
<1> SUFFICES ASSUME LiveInv, PromiseInv, TypeOK, Places, BesideStarts \/ BesideEnds, Live
             PROVE  LiveInv'
  BY DEF LiveInv, Live, BesideStarts, BesideEnds, callVars, memoryVars
<1> USE DEF solverVars, memoryVars, callVars
<1>1. Coming' = Coming /\ queue' = queue
  BY DEF BesideStarts, BesideEnds, Coming
<1>2. QueueInv' /\ NextUp' = NextUp
  BY <1>1, Holding DEF LiveInv, BesideStarts, BesideEnds
<1>3. SeedInv /\ BesideInv /\ InputInv /\ RowsInv
  BY DEF LiveInv
<1>4. beside # "idle" /\ beside # "asked"
  BY DEF BesideStarts, BesideEnds
<1>5. Released /\ NextUp \notin {0, 1, 2, SpecReady}
  BY <1>3, <1>4 DEF BesideInv
<1>6. SeedInv' /\ Released'
  BY <1>1, <1>3, <1>5 DEF SeedInv, Released, BesideStarts, BesideEnds, Expects
<1>7. BesideInv'
  <2>1. CASE BesideStarts
    <3>1. beside' = "running" /\ entry'.key = specPp' /\ specPp' = specPp
      BY <2>1 DEF BesideStarts
    <3> QED BY <1>2, <1>5, <1>6, <3>1 DEF BesideInv
  <2>2. CASE BesideEnds
    <3>1. beside = "running" /\ beside' = "idle" /\ entry.key = specPp /\ specPp' = specPp
      BY <1>3, <1>5, <2>2 DEF BesideInv, BesideEnds
    <3>2. specPp # NoKey
      <4>1. specPp = Expects(cur, delta)
        BY <1>3, <1>5 DEF SeedInv, Released, Coming, Places, Entry, Terminal, Done
      <4>2. cur \in Keys
        BY DEF Live, Places, PromiseInv
      <4> QED BY <4>1, <4>2, ExpectedIsAKey, KeysAreKeys DEF TypeOK
    <3>3. entry' = [entry EXCEPT !.whole = TRUE]
      BY <2>2, <3>1, <3>2 DEF BesideEnds
    <3>4. EntryIs(specPp)'
      BY <3>1, <3>3 DEF EntryIs, TypeOK
    <3> QED BY <1>2, <1>5, <1>6, <3>1, <3>4 DEF BesideInv
  <2> QED BY <2>1, <2>2
<1>8. InputInv'
  BY <1>2, <1>3, <1>5 DEF InputInv, Released, OwnPlane, BesideStarts, BesideEnds
<1>9. RowsInv'
  BY <1>2, <1>3 DEF RowsInv, RowsWritten, Rank, BesideStarts, BesideEnds
<1> QED BY <1>2, <1>6, <1>7, <1>8, <1>9 DEF LiveInv

LEMMA NextLive ==
  LiveInv /\ Roles /\ PromiseInv /\ TypeOK /\ Places /\ [Next]_vars => LiveInv'
<1> SUFFICES ASSUME LiveInv, Roles, PromiseInv, TypeOK, Places, [Next]_vars PROVE LiveInv'
  OBVIOUS
<1>1. CASE Allocate \/ Refused
  <2>1. ~Live'
    BY <1>1 DEF Allocate, Refused, Live, PromiseInv, Calling, memoryVars, callVars
  <2> QED BY <2>1 DEF LiveInv
<1>2. CASE \E k \in Keys : Call(k)
  BY <1>2, LiveCall
<1>3. CASE EntryPass
  BY <1>3, LiveEntryPass
<1>4. CASE SeedPrePow
  BY <1>4, LiveSeedPrePow
<1>5. CASE AppendRound
  BY <1>5, LiveAppendRound
<1>6. CASE ReleaseBeside
  BY <1>6, LiveReleaseBeside
<1>7. CASE PollAbort
  BY <1>7, LivePollAbort
<1>8. CASE AppendTerminal
  BY <1>8, LiveAppendTerminal
<1>9. CASE CheckLaunches \/ ReadSurvivors \/ Recover \/ Throws
  BY <1>9, LiveAtTheEnd
<1>10. CASE Device
  BY <1>10, LiveDevice
<1>11. CASE BesideStarts \/ BesideEnds
  BY <1>11, LiveBeside
<1>12. CASE DispatchError \/ ContextLost
  <2>1. ~Live'
    BY <1>12 DEF DispatchError, ContextLost, Return, Live, Roles, PromiseInv, Calling,
                 memoryVars
  <2> QED BY <2>1 DEF LiveInv
<1>13. CASE RequestAbort \/ UNCHANGED vars
  BY <1>13, QuietStep DEF RequestAbort, vars, memoryVars
<1> QED BY <1>1, <1>2, <1>3, <1>4, <1>5, <1>6, <1>7, <1>8, <1>9, <1>10, <1>11, <1>12, <1>13
        DEF Next, Host

LEMMA NextOutcome == OutcomeInv /\ LiveInv /\ Roles /\ Places /\ [Next]_vars => OutcomeInv'
<1> SUFFICES ASSUME OutcomeInv, LiveInv, Roles, Places, [Next]_vars PROVE OutcomeInv'
  OBVIOUS
<1> USE DEF OutcomeInv, callVars, deviceVars
<1>1. CASE Allocate \/ Refused
  BY <1>1 DEF Allocate, Refused
<1>2. CASE \E k \in Keys : Call(k)
  BY <1>2 DEF Call
<1>3. CASE EntryPass \/ SeedPrePow \/ AppendRound \/ ReleaseBeside \/ AppendTerminal
  BY <1>3 DEF EntryPass, SeedPrePow, AppendRound, ReleaseBeside, AppendTerminal
<1>4. CASE PollAbort \/ CheckLaunches \/ Throws \/ DispatchError \/ ContextLost
  BY <1>4 DEF PollAbort, CheckLaunches, Throws, DispatchError, ContextLost, Return
<1>5. CASE ReadSurvivors \/ Recover
  <2>1. pc \in {"read", "recover"} /\ queue = <<>>
    BY <1>5 DEF ReadSurvivors, Recover, Roles
  <2>2. Live /\ Coming = Done
    BY <2>1 DEF Live, Calling, Coming, Roles
  <2>3. surv
    BY <2>1, <2>2 DEF LiveInv, InputInv, NextUp
  <2> QED BY <1>5, <2>1, <2>3 DEF ReadSurvivors, Recover, Return
<1>6. CASE Device
  BY <1>6 DEF Device
<1>7. CASE RequestAbort \/ BesideStarts \/ BesideEnds \/ UNCHANGED vars
  BY <1>7 DEF RequestAbort, BesideStarts, BesideEnds, vars
<1> QED BY <1>1, <1>2, <1>3, <1>4, <1>5, <1>6, <1>7 DEF Next, Host

LEMMA SolveInvHolds == Spec => []SolveInv
<1>1. SolveInv /\ [Next]_vars => SolveInv'
  BY NextType, NextRoles, NextPromise, NextLive, NextOutcome DEF SolveInv
<1> QED BY InitSolve, <1>1, PTL DEF Spec

(* A call that says it looked had every round read what the round before it in  *)
(* the same call wrote, from an entry pass of its own input and nonce, whether  *)
(* that ran in this call or was speculated in the call before                   *)
(* (gpu_solver.cpp 101-213, cuda_solver.cu 796-1214).                           *)
THEOREM LooksAtWhatWasAsked == Spec => []SearchedWhatWasAsked
<1>1. SolveInv => SearchedWhatWasAsked
  BY DEF SolveInv, OutcomeInv, SearchedWhatWasAsked
<1> QED BY <1>1, SolveInvHolds, PTL

(* When recovery walks back from the survivors, the rows and record sets the    *)
(* rung's recovery reads are still those of this call, whatever the device was  *)
(* given after them (cuda_solver.cu 1145-1174, round_pipeline.cpp 1163-1222).   *)
THEOREM RecoveryReadsThisCall == Spec => []RecoveryFindsItsSources
<1>1. SolveInv => RecoveryFindsItsSources
  <2> SUFFICES ASSUME SolveInv, pc = "recover" PROVE RecoveryFindsItsSources
    BY DEF RecoveryFindsItsSources
  <2>1. Live /\ NextUp = Done
    BY DEF SolveInv, Roles, Live, Calling, NextUp, Coming
  <2>2. InputInv /\ RowsInv
    BY <2>1 DEF SolveInv, LiveInv
  <2>3. RowsWritten \subseteq rows
    <3> SUFFICES ASSUME NEW n \in RowsWritten PROVE n \in rows
      OBVIOUS
    <3>1. n \in 1 .. 5
      BY DEF RowsWritten
    <3> QED BY <2>1, <2>2, <3>1 DEF RowsInv, Rank, Done, SpecReady
  <2>4. /\ set[1] = 3
        /\ OwnPlane => set[0] = 2 /\ plane = 4
        /\ ~OwnPlane => set[0] = 4
    BY <2>1, <2>2 DEF InputInv
  <2>5. record \in {"implicit", "packed", "quad", "octo"}
    BY DEF SolveInv, TypeOK, Records
  <2>6. CASE record = "octo"
    BY <2>3, <2>4, <2>6 DEF RecoveryFindsItsSources, Walks, RowsWritten
  <2>7. CASE record = "implicit" /\ backend = "CUDA"
    BY <2>4, <2>7 DEF RecoveryFindsItsSources, Walks, OwnPlane, Stale
  <2>8. CASE record \in {"packed", "quad"} /\ backend = "CUDA"
    BY <2>3, <2>4, <2>8 DEF RecoveryFindsItsSources, Walks, RowsWritten, OwnPlane
  <2>9. CASE record # "octo" /\ backend # "CUDA"
    BY <2>3, <2>9 DEF RecoveryFindsItsSources, Walks, RowsWritten
  <2> QED BY <2>5, <2>6, <2>7, <2>8, <2>9
<1> QED BY <1>1, SolveInvHolds, PTL
-----------------------------------------------------------------------------
(* Speculation.                                                            *)

\* The stride the solver learns is the one its caller walks at.
StrideInv ==
  /\ last = cur
  /\ delta = stride
  /\ pc \in Calling \/ outcome \in {"empty", "found"} =>
       (seeding <=> spec # "off" /\ delta # NoDelta)

\* A call that looked has promised the next one its entry pass.
SeededInv ==
  /\ \/ outcome \in {"empty", "found"}
     \/ pc = "recover"
     \/ pc = "read" /\ backend = "CUDA"
  /\ seeding
  => specKey = Expects(cur, delta)

LEMMA InitSpeculation == Init => StrideInv /\ SeededInv
BY DEF Init, StrideInv, SeededInv, Calling, NoDelta

LEMMA NextStride == StrideInv /\ SolveInv /\ [Next]_vars => StrideInv'
<1> SUFFICES ASSUME StrideInv, OutcomeInv, [Next]_vars PROVE StrideInv'
  BY DEF SolveInv
<1> USE DEF StrideInv, solverVars, memoryVars, callVars, NoDelta
<1>1. CASE Allocate \/ Refused
  BY <1>1 DEF Allocate, Refused, OutcomeInv, Calling
<1>2. ASSUME NEW k \in Keys, Call(k) PROVE StrideInv'
  <2>1. Learned(k) = Observed(k)
    BY DEF Learned, Observed
  <2> QED BY <1>2, <2>1 DEF Call
<1>3. CASE EntryPass \/ SeedPrePow \/ AppendRound \/ ReleaseBeside \/ AppendTerminal
  BY <1>3 DEF EntryPass, SeedPrePow, AppendRound, ReleaseBeside, AppendTerminal, Calling
<1>4. CASE PollAbort \/ CheckLaunches
  BY <1>4 DEF PollAbort, CheckLaunches, Return, Calling
<1>5. CASE ReadSurvivors \/ Recover
  BY <1>5 DEF ReadSurvivors, Recover, Return, Calling
<1>6. CASE Throws \/ DispatchError \/ ContextLost
  BY <1>6 DEF Throws, DispatchError, ContextLost, Return, Calling
<1>7. CASE RequestAbort \/ Device \/ BesideStarts \/ BesideEnds \/ UNCHANGED vars
  BY <1>7 DEF RequestAbort, Device, BesideStarts, BesideEnds, vars
<1> QED BY <1>1, <1>2, <1>3, <1>4, <1>5, <1>6, <1>7 DEF Next, Host

LEMMA NextSeeded == SeededInv /\ SolveInv /\ [Next]_vars => SeededInv'
<1> SUFFICES ASSUME SeededInv, OutcomeInv, Roles, Places, TypeOK, [Next]_vars PROVE SeededInv'
  BY DEF SolveInv
<1> USE DEF SeededInv, solverVars, memoryVars, callVars, Expects
<1>0. backend \in {"OpenCL", "CUDA", "Metal"}
  BY SolvePipelineAssumption DEF TypeOK, SolvePipelineAssumption
<1>1. CASE Allocate \/ Refused
  BY <1>1 DEF Allocate, Refused, Roles
<1>2. ASSUME NEW k \in Keys, Call(k) PROVE SeededInv'
  BY <1>2 DEF Call
<1>3. CASE EntryPass \/ SeedPrePow \/ AppendRound \/ ReleaseBeside
  BY <1>3 DEF EntryPass, SeedPrePow, AppendRound, ReleaseBeside, OutcomeInv
<1>4. CASE AppendTerminal
  BY <1>4 DEF AppendTerminal, OutcomeInv
<1>5. CASE PollAbort \/ CheckLaunches
  BY <1>5 DEF PollAbort, CheckLaunches, Remember, Return, OutcomeInv, Roles
<1>6. CASE ReadSurvivors
  BY <1>0, <1>6 DEF ReadSurvivors, Remember, Seeded, Return, OutcomeInv, Roles, Places
<1>7. CASE Recover \/ Throws \/ DispatchError \/ ContextLost
  BY <1>7 DEF Recover, Throws, DispatchError, ContextLost, Return
<1>8. CASE RequestAbort \/ Device \/ BesideStarts \/ BesideEnds \/ UNCHANGED vars
  BY <1>8 DEF RequestAbort, Device, BesideStarts, BesideEnds, vars
<1> QED BY <1>1, <1>2, <1>3, <1>4, <1>5, <1>6, <1>7, <1>8 DEF Next, Host

(* A caller that walks at a fixed stride finds every entry pass after the first *)
(* two run by the call before, also across a change of job (gpu_solver.h        *)
(* 35-39).                                                                      *)
THEOREM SpeculationHits == Spec => PredictedCallsHit
<1> DEFINE Predicted ==
      spec # "off" /\ stride # NoDelta /\ outcome \in {"empty", "found"}
      /\ pc = "idle" /\ pc' = "entry" /\ cur' = Expects(cur, stride)
<1>1. SolveInv /\ StrideInv /\ SeededInv /\ [Next]_vars => (Predicted => hit')
  <2> SUFFICES ASSUME StrideInv, SeededInv, [Next]_vars, Predicted PROVE hit'
    OBVIOUS
  <2>1. \E k \in Keys : Call(k)
    BY DEF Next, Host, vars, Return, Allocate, Refused, EntryPass, SeedPrePow, AppendRound,
           ReleaseBeside, PollAbort, AppendTerminal, CheckLaunches, ReadSurvivors, Recover,
           Throws, RequestAbort, Device, DispatchError, ContextLost, BesideStarts, BesideEnds
  <2>2. specKey = Expects(cur, stride)
    BY DEF StrideInv, SeededInv
  <2> QED BY <2>1, <2>2 DEF Call, Hits
<1>2. SolveInv /\ StrideInv /\ SeededInv /\ [Next]_vars => [Predicted => hit']_vars
  BY <1>1
<1>3. Spec => [](StrideInv /\ SeededInv /\ SolveInv)
  BY InitSpeculation, SolveInvHolds, NextStride, NextSeeded, PTL DEF Spec
<1> QED BY <1>2, <1>3, PTL DEF Spec, PredictedCallsHit

-----------------------------------------------------------------------------
(***************************************************************************)
(* FusedRound and Replay, for any number of threads and buckets, any       *)
(* elements and every capacity.                                            *)
(***************************************************************************)

\* Rows of C slots each: a row begins behind the end of the one before.
LEMMA RowsFollow ==
  ASSUME NEW C \in Nat \ {0}, NEW b \in Nat, NEW c \in Nat, b < c
  PROVE  b * C + C <= c * C /\ b * C \in Nat /\ c * C \in Nat
<1>1. PICK d \in Nat : c = b + 1 + d
  <2>1. c - b - 1 \in Nat /\ c = b + 1 + (c - b - 1)
    OBVIOUS
  <2> QED BY <2>1
<1>2. c * C = b * C + C + d * C
  BY <1>1
<1>3. d * C >= 0 /\ d * C \in Int
  OBVIOUS
<1>4. b * C \in Nat /\ c * C \in Nat
  OBVIOUS
<1> QED BY <1>2, <1>3, <1>4

LEMMA RowsApart ==
  ASSUME NEW C \in Nat \ {0}, NEW b \in Nat, NEW c \in Nat,
         NEW i \in 0 .. C - 1, NEW j \in 0 .. C - 1, b * C + i = c * C + j
  PROVE  b = c /\ i = j
<1>1. b * C \in Nat /\ c * C \in Nat
  OBVIOUS
<1>2. CASE b < c
  <2>1. b * C + C <= c * C
    BY <1>2, RowsFollow
  <2> QED BY <1>1, <2>1
<1>3. CASE c < b
  <2>1. c * C + C <= b * C
    BY <1>3, RowsFollow
  <2> QED BY <1>1, <2>1
<1>4. CASE b = c
  BY <1>1, <1>4
<1> QED BY <1>2, <1>3, <1>4

(***************************************************************************)
(* The children's slots.  Those of a bucket lie below its count, those of  *)
(* the pool below the pool's, so a slot an atomic returns is not taken.    *)
(***************************************************************************)
OutRow(s, b) == \E p \in 0 .. OutCap - 1 : p < outCount[b] /\ s = b * OutCap + p
OutPool(s) == \E a \in 0 .. ArenaCap - 1 : a < outActr /\ s = OutBuckets * OutCap + a

OutInv ==
  /\ outCount \in [0 .. OutBuckets - 1 -> Nat] /\ outActr \in Nat
  /\ \A c \in out : OutPool(c.slot) \/ \E b \in 0 .. OutBuckets - 1 : OutRow(c.slot, b)
  /\ \A c, d \in out : c.slot = d.slot => c = d

LEMMA OutSizes ==
  /\ OutBuckets \in Nat \ {0} /\ OutCap \in Nat \ {0} /\ ArenaCap \in Nat
  /\ OutBuckets * OutCap \in Nat
<1>1. OutBuckets \in Nat \ {0} /\ OutCap \in Nat \ {0} /\ ArenaCap \in Nat
  BY FusedRoundAssumption DEF FusedRoundAssumption
<1> QED BY <1>1

\* A bucket's slots end where the next ones, and the pool's, begin.
LEMMA OutRowIsLow ==
  ASSUME NEW b \in 0 .. OutBuckets - 1, NEW p \in 0 .. OutCap - 1
  PROVE  b * OutCap + p \in Nat /\ b * OutCap + p < OutBuckets * OutCap
<1>1. b * OutCap + OutCap <= OutBuckets * OutCap /\ b * OutCap \in Nat
  BY OutSizes, RowsFollow
<1> QED BY <1>1, OutSizes

LEMMA EmitKeeps ==
  ASSUME OutInv, NEW cb \in 0 .. OutBuckets - 1, NEW s, NEW t, NEW whole, Emit(cb, s, t, whole)
  PROVE  OutInv'
<1> DEFINE Taken(x) == \E c \in out : c.slot = x
<1>1. PICK pos : pos = outCount[cb]
  OBVIOUS
<1>2. /\ pos \in Nat /\ outActr \in Nat /\ outCount \in [0 .. OutBuckets - 1 -> Nat]
      /\ outCount' = [outCount EXCEPT ![cb] = pos + 1]
      /\ outActr' \in {outActr, outActr + 1}
  BY <1>1 DEF OutInv, Emit
<1>3. outCount' \in [0 .. OutBuckets - 1 -> Nat] /\ outActr' \in Nat
  BY <1>2
<1>4. \A b \in 0 .. OutBuckets - 1 : outCount[b] \in Nat /\ outCount[b] <= outCount'[b]
  BY <1>1, <1>2
<1>5. \A c \in out : OutPool(c.slot)' \/ \E b \in 0 .. OutBuckets - 1 : OutRow(c.slot, b)'
  <2> SUFFICES ASSUME NEW c \in out
               PROVE  OutPool(c.slot)' \/ \E b \in 0 .. OutBuckets - 1 : OutRow(c.slot, b)'
    OBVIOUS
  <2>1. CASE OutPool(c.slot)
    BY <1>2, <2>1, OutSizes DEF OutPool
  <2>2. ASSUME NEW b \in 0 .. OutBuckets - 1, OutRow(c.slot, b) PROVE OutRow(c.slot, b)'
    <3>1. outCount[b] \in Nat /\ outCount'[b] \in Nat /\ outCount[b] <= outCount'[b]
      BY <1>3, <1>4
    <3>2. PICK p \in 0 .. OutCap - 1 : p < outCount[b] /\ c.slot = b * OutCap + p
      BY <2>2 DEF OutRow
    <3>3. p < outCount'[b]
      BY <3>1, <3>2, OutSizes
    <3> QED BY <3>2, <3>3 DEF OutRow
  <2> QED BY <2>1, <2>2 DEF OutInv
<1>6. ASSUME NEW slot, out' = out \cup {Child(slot, s, t, whole)}, ~Taken(slot),
             OutPool(slot)' \/ \E b \in 0 .. OutBuckets - 1 : OutRow(slot, b)'
      PROVE  OutInv'
  <2>1. PICK e : e = Child(slot, s, t, whole)
    OBVIOUS
  <2>2. e.slot = slot
    BY <2>1 DEF Child
  <2>3. out' = out \cup {e}
    BY <1>6, <2>1
  <2>4. \A c, d \in out' : c.slot = d.slot => c = d
    BY <1>6, <2>2, <2>3 DEF OutInv
  <2> QED BY <1>3, <1>5, <1>6, <2>2, <2>3, <2>4 DEF OutInv
<1>7. CASE pos < OutCap /\ out' = out \cup {Child(cb * OutCap + pos, s, t, whole)}
  <2>1. pos \in 0 .. OutCap - 1 /\ pos < outCount'[cb]
    BY <1>2, <1>7, OutSizes
  <2>2. OutRow(cb * OutCap + pos, cb)'
    BY <2>1 DEF OutRow
  <2>3. ASSUME NEW c \in out, c.slot = cb * OutCap + pos PROVE FALSE
    <3>1. CASE OutPool(c.slot)
      <4>1. cb * OutCap + pos < OutBuckets * OutCap /\ cb * OutCap + pos \in Nat
        BY <2>1, OutRowIsLow
      <4>2. PICK a \in 0 .. ArenaCap - 1 : c.slot = OutBuckets * OutCap + a
        BY <3>1 DEF OutPool
      <4> QED BY <2>3, <4>1, <4>2, OutSizes
    <3>2. ASSUME NEW b \in 0 .. OutBuckets - 1, OutRow(c.slot, b) PROVE FALSE
      <4>1. PICK p \in 0 .. OutCap - 1 : p < outCount[b] /\ c.slot = b * OutCap + p
        BY <3>2 DEF OutRow
      <4>2. cb \in Nat /\ b \in Nat
        BY OutSizes
      <4>3. cb = b /\ pos = p
        BY <2>1, <2>3, <4>1, <4>2, OutSizes, RowsApart
      <4> QED BY <1>1, <1>2, <4>1, <4>3
    <3> QED BY <3>1, <3>2 DEF OutInv
  <2> QED BY <1>6, <1>7, <2>2, <2>3
<1>8. ASSUME NEW n, n = outActr, n < ArenaCap, outActr' = n + 1,
             out' = out \cup {Child(OutBuckets * OutCap + n, s, t, whole)}
      PROVE  OutInv'
  <2>1. n \in 0 .. ArenaCap - 1 /\ n < outActr'
    BY <1>2, <1>8, OutSizes
  <2>2. OutPool(OutBuckets * OutCap + n)'
    BY <2>1 DEF OutPool
  <2>3. ASSUME NEW c \in out, c.slot = OutBuckets * OutCap + n PROVE FALSE
    <3>1. CASE OutPool(c.slot)
      BY <1>2, <1>8, <2>3, <3>1, OutSizes DEF OutPool
    <3>2. ASSUME NEW b \in 0 .. OutBuckets - 1, OutRow(c.slot, b) PROVE FALSE
      <4>1. PICK p \in 0 .. OutCap - 1 : c.slot = b * OutCap + p
        BY <3>2 DEF OutRow
      <4>2. b * OutCap + p < OutBuckets * OutCap /\ b * OutCap + p \in Nat
        BY OutRowIsLow
      <4> QED BY <2>1, <2>3, <4>1, <4>2, OutSizes
    <3> QED BY <3>1, <3>2 DEF OutInv
  <2> QED BY <1>6, <1>8, <2>2, <2>3
<1>9. CASE UNCHANGED out
  BY <1>3, <1>5, <1>9 DEF OutInv
<1> QED BY <1>1, <1>7, <1>8, <1>9 DEF Emit

LEMMA OutStep == OutInv /\ [ReplayNext]_<<roundVars, replayVars>> => OutInv'
<1> SUFFICES ASSUME OutInv, [ReplayNext]_<<roundVars, replayVars>> PROVE OutInv'
  OBVIOUS
<1>1. CASE UNCHANGED outVars
  BY <1>1 DEF outVars, OutInv, OutRow, OutPool
<1>2. ASSUME NEW l \in LaneIds, Walk(l) PROVE OutInv'
  <2>1. \/ UNCHANGED outVars
        \/ \E cb \in 0 .. OutBuckets - 1 : \E s, t, whole : Emit(cb, s, t, whole)
    BY <1>2, Zenon DEF Walk
  <2> QED BY <1>1, <2>1, EmitKeeps
<1>3. ASSUME NEW l \in LaneIds, Thread(l) PROVE OutInv'
  <2>1. Walk(l) \/ UNCHANGED outVars
    BY <1>3, Zenon DEF Thread, Fetch, Clear, Census, Stage, LoopEnds, Decide, Tally, Choose, Compact,
       Expand
  <2> QED BY <1>1, <1>2, <2>1
<1>4. CASE RoundNext
  <2>1. (\E l \in LaneIds : Thread(l)) \/ UNCHANGED outVars
    BY <1>4, Zenon DEF RoundNext, Scatter, ArenaLink, EntryEnds, LaunchBlock, SyncThreads
  <2> QED BY <1>1, <1>3, <2>1
<1>5. CASE Recovery \/ UNCHANGED <<roundVars, replayVars>>
  <2>1. UNCHANGED outVars
    BY <1>5 DEF Recovery, roundVars
  <2> QED BY <1>1, <2>1
<1> QED BY <1>4, <1>5 DEF ReplayNext, Round

\* SlotsAreExclusive: no two children are written to one slot, and none beyond the set's
\* memory (the counters and slots of fused_round.cuh's emission).
THEOREM ChildrenHaveTheirSlots == ReplaySpec => []SlotsAreExclusive
<1>1. ReplayInit => OutInv
  <2> SUFFICES ASSUME ReplayInit PROVE OutInv
    OBVIOUS
  <2>1. outCount = [b \in 0 .. OutBuckets - 1 |-> 0] /\ outActr = 0 /\ out = {}
    BY DEF ReplayInit, RoundInit
  <2> QED BY <2>1 DEF OutInv
<1>2. OutInv => SlotsAreExclusive
  <2> SUFFICES ASSUME OutInv, NEW c \in out PROVE c.slot < OutBuckets * OutCap + ArenaCap
    BY DEF OutInv, SlotsAreExclusive
  <2>1. CASE OutPool(c.slot)
    BY <2>1, OutSizes DEF OutPool
  <2>2. ASSUME NEW b \in 0 .. OutBuckets - 1, OutRow(c.slot, b)
        PROVE  c.slot < OutBuckets * OutCap + ArenaCap
    <3>1. PICK p \in 0 .. OutCap - 1 : c.slot = b * OutCap + p
      BY <2>2 DEF OutRow
    <3>2. b * OutCap + p \in Nat /\ b * OutCap + p < OutBuckets * OutCap
      BY OutRowIsLow
    <3> QED BY <3>1, <3>2, OutSizes
  <2> QED BY <2>1, <2>2 DEF OutInv
<1> QED BY <1>1, <1>2, OutStep, PTL DEF ReplaySpec

-----------------------------------------------------------------------------
(***************************************************************************)
(* Every two elements of one key have one child.  The invariant follows a  *)
(* round from end to end: what the set holds (SetInv), whom a block takes  *)
(* for its members (MembersInv), how far the lanes are between two         *)
(* barriers (PhaseInv) and which children there are (MadeInv).             *)
(***************************************************************************)

\* Every set of naturals has a least member: Min is its value.
LEMMA MinIsLeast ==
  ASSUME NEW S \in SUBSET Nat, S # {}
  PROVE  Min(S) \in S /\ \A y \in S : Min(S) <= y
<1>1. \E k \in S : \A m \in S : <<m, k>> \notin OpToRel(<, Nat)
  BY NatLessThanWellFounded, WFMin
<1>2. PICK k \in S : \A m \in S : ~(m < k)
  BY <1>1 DEF OpToRel
<1>3. \A y \in S : k <= y
  BY <1>2
<1> QED BY <1>3 DEF Min

LEMMA MinOfTwo ==
  ASSUME NEW a \in Nat, NEW b \in Nat
  PROVE  /\ Min({a, b}) \in Nat /\ Min({a, b}) <= a /\ Min({a, b}) <= b
         /\ Min({a, b}) \in {a, b}
<1>1. {a, b} \in SUBSET Nat /\ {a, b} # {}
  OBVIOUS
<1>2. Min({a, b}) \in {a, b} /\ \A y \in {a, b} : Min({a, b}) <= y
  BY <1>1, MinIsLeast
<1> QED BY <1>2

\* 2 ^ n is the number of subsets of n things.
LEMMA TwoPowers == 2 ^ 0 = 1 /\ \A n \in Nat : 2 ^ n \in Nat \ {0}
<1>1. ASSUME NEW n \in Nat PROVE 2 ^ n \in Nat \ {0}
  <2>1. PICK S : S = 1 .. n
    OBVIOUS
  <2>2. IsFiniteSet(S) /\ Cardinality(S) = n
    <3>1. 1 \in Int /\ n \in Int /\ n - 1 + 1 = n
      OBVIOUS
    <3>2. Cardinality(1 .. n) = IF 1 <= n THEN n - 1 + 1 ELSE 0
      BY <3>1, FS_Interval
    <3>3. IsFiniteSet(1 .. n)
      BY <3>1, FS_Interval
    <3> QED BY <2>1, <3>1, <3>2, <3>3
  <2>3. IsFiniteSet(SUBSET S) /\ Cardinality(SUBSET S) = 2 ^ n
    BY <2>2, FS_SUBSET
  <2>4. Cardinality(SUBSET S) \in Nat /\ Cardinality(SUBSET S) # 0
    BY <2>3, FS_CardinalityType, FS_EmptySet
  <2> QED BY <2>3, <2>4
<1>2. 2 ^ 0 = 1
  <2>1. IsFiniteSet({}) /\ Cardinality({}) = 0
    BY FS_EmptySet
  <2>2. Cardinality(SUBSET {}) = 2 ^ Cardinality({})
    BY <2>1, FS_SUBSET
  <2>3. SUBSET {} = {{}}
    OBVIOUS
  <2>4. Cardinality({{}}) = 1
    BY FS_Singleton
  <2> QED BY <2>1, <2>2, <2>3, <2>4
<1> QED BY <1>1, <1>2

\* A key is its sub-mask and its slot of the table: the table is a perfect hash.
RoundKeys == 0 .. 2 ^ SubBits * 2 ^ TabBits - 1

LEMMA Divides ==
  ASSUME NEW a \in Nat, NEW b \in Nat \ {0}, NEW c \in Nat, a < b * c
  PROVE  a \div b < c /\ a \div b \in Nat /\ a % b \in 0 .. b - 1
OBVIOUS

LEMMA DivisionIsExact ==
  ASSUME NEW a \in Nat, NEW b \in Nat \ {0}, NEW c \in Nat, a \div b = c \div b, a % b = c % b
  PROVE  a = c
OBVIOUS

LEMMA SmallRemainder == ASSUME NEW a \in Nat, NEW b \in Nat \ {0}, a < b PROVE a % b = a
OBVIOUS

LEMMA KeyBits ==
  ASSUME NEW k \in RoundKeys
  PROVE  /\ k \in Nat /\ SubMask(k) \in 0 .. 2 ^ SubBits - 1 /\ TabSlot(k) \in Slots
         /\ TabSlot(k) = k \div 2 ^ SubBits
         /\ \A bits \in Nat : Part(k, bits) \in 0 .. 2 ^ bits - 1
<1>1. SubBits \in Nat /\ TabBits \in Nat
  BY FusedRoundAssumption DEF FusedRoundAssumption
<1>2. PICK b \in Nat \ {0} : b = 2 ^ SubBits
  BY <1>1, TwoPowers
<1>3. PICK c \in Nat \ {0} : c = 2 ^ TabBits
  BY <1>1, TwoPowers
<1>4. k \in Nat /\ k < b * c
  BY <1>2, <1>3 DEF RoundKeys
<1>5. k \div b < c /\ k \div b \in Nat /\ k % b \in 0 .. b - 1
  BY <1>4, Divides
<1>6. (k \div b) % c = k \div b
  BY <1>5, SmallRemainder
<1>7. TabSlot(k) = k \div b /\ SubMask(k) = k % b
  BY <1>2, <1>3, <1>6 DEF TabSlot, SubMask
<1>8. TabSlot(k) \in 0 .. c - 1 /\ TabSlot(k) \in Nat
  BY <1>5, <1>7
<1>9. ASSUME NEW bits \in Nat PROVE Part(k, bits) \in 0 .. 2 ^ bits - 1
  <2>1. PICK d \in Nat \ {0} : d = 2 ^ bits
    BY TwoPowers
  <2>2. TabSlot(k) % d \in 0 .. d - 1
    BY <1>8
  <2> QED BY <2>1, <2>2 DEF Part
<1> QED BY <1>2, <1>3, <1>4, <1>5, <1>7, <1>8, <1>9 DEF Slots

LEMMA KeyIsItsBits ==
  ASSUME NEW k \in RoundKeys, NEW m \in RoundKeys, SubMask(k) = SubMask(m), TabSlot(k) = TabSlot(m)
  PROVE  k = m
<1>1. PICK b \in Nat \ {0} : b = 2 ^ SubBits
  BY TwoPowers, FusedRoundAssumption DEF FusedRoundAssumption
<1>2. k \in Nat /\ m \in Nat /\ k \div b = m \div b /\ k % b = m % b
  BY <1>1, KeyBits DEF SubMask
<1> QED BY <1>2, DivisionIsExact

(***************************************************************************)
(* Chains occur twice: the pool's entries of a bucket, and the staged      *)
(* elements of a slot of the table.  Both are built by exchanging a head   *)
(* for the newest entry, so a chain is a list of distinct entries that     *)
(* begins with its head, each followed by the one its link names.          *)
(***************************************************************************)
Links(n, w, nx) == \A i \in 1 .. n : nx[w[i]] = IF i = n THEN None ELSE w[i + 1]
IsChain(n, w, h, nx) ==
  /\ \A i, j \in 1 .. n : w[i] = w[j] => i = j
  /\ h = IF n = 0 THEN None ELSE w[1]
  /\ Links(n, w, nx)
Lists(n, w, S) == w \in [1 .. n -> S] /\ \A s \in S : \E i \in 1 .. n : w[i] = s
ChainIs(S, h, nx) == \E n \in Nat : \E w \in [1 .. n -> S] : Lists(n, w, S) /\ IsChain(n, w, h, nx)

LEMMA ChainEmpty == \A nx : ChainIs({}, None, nx)
<1> SUFFICES ASSUME NEW nx PROVE ChainIs({}, None, nx)
  OBVIOUS
<1>1. PICK n \in Nat : n = 0
  OBVIOUS
<1>2. PICK w : w = [i \in 1 .. n |-> None]
  OBVIOUS
<1>3. 1 .. n = {}
  BY <1>1
<1>4. w \in [1 .. n -> {}]
  BY <1>2, <1>3
<1>5. Lists(n, w, {}) /\ IsChain(n, w, None, nx)
  BY <1>1, <1>3, <1>4 DEF Lists, IsChain, Links
<1> QED BY <1>4, <1>5 DEF ChainIs

LEMMA ChainKept ==
  ASSUME NEW S, NEW h, NEW nx, NEW mx, ChainIs(S, h, nx), \A s \in S : mx[s] = nx[s]
  PROVE  ChainIs(S, h, mx)
<1>0. PICK n \in Nat : \E w \in [1 .. n -> S] : Lists(n, w, S) /\ IsChain(n, w, h, nx)
  BY DEF ChainIs
<1>1. PICK w \in [1 .. n -> S] : Lists(n, w, S) /\ IsChain(n, w, h, nx)
  BY <1>0
<1>2. IsChain(n, w, h, mx)
  BY <1>1 DEF IsChain, Links
<1> QED BY <1>1, <1>2 DEF ChainIs

\* What an atomicExch of the head does.
LEMMA ChainGrows ==
  ASSUME NEW S, NEW h, NEW nx, NEW mx, NEW x, ChainIs(S, h, nx), x \notin S,
         mx[x] = h, \A s \in S : mx[s] = nx[s]
  PROVE  ChainIs(S \cup {x}, x, mx)
<1>0. PICK n \in Nat : \E w \in [1 .. n -> S] : Lists(n, w, S) /\ IsChain(n, w, h, nx)
  BY DEF ChainIs
<1>1. PICK w \in [1 .. n -> S] : Lists(n, w, S) /\ IsChain(n, w, h, nx)
  BY <1>0
<1>2. PICK m \in Nat : m = n + 1
  OBVIOUS
<1>3. PICK v : v = [i \in 1 .. m |-> IF i = 1 THEN x ELSE w[i - 1]]
  OBVIOUS
<1>4. v[1] = x /\ \A i \in 1 .. n : i + 1 \in 1 .. m /\ v[i + 1] = w[i]
  BY <1>2, <1>3
<1>5. \A i \in 1 .. m : i = 1 \/ \E j \in 1 .. n : i = j + 1
  <2> SUFFICES ASSUME NEW i \in 1 .. m, i # 1 PROVE \E j \in 1 .. n : i = j + 1
    OBVIOUS
  <2>1. i - 1 \in 1 .. n /\ i = (i - 1) + 1
    BY <1>2
  <2> QED BY <2>1
<1>6. \A j \in 1 .. n : w[j] \in S
  OBVIOUS
<1>7. v \in [1 .. m -> S \cup {x}]
  <2>1. \A i \in 1 .. m : (IF i = 1 THEN x ELSE w[i - 1]) \in S \cup {x}
    BY <1>2, <1>6
  <2> QED BY <1>3, <2>1
<1>8. \A s \in S \cup {x} : \E i \in 1 .. m : v[i] = s
  <2>1. 1 \in 1 .. m
    BY <1>2
  <2>2. \A s \in S : \E i \in 1 .. n : w[i] = s
    BY <1>1 DEF Lists
  <2>3. ASSUME NEW s \in S PROVE \E i \in 1 .. m : v[i] = s
    <3>1. PICK i \in 1 .. n : w[i] = s
      BY <2>2
    <3>2. i + 1 \in 1 .. m /\ v[i + 1] = s
      BY <1>4, <3>1
    <3> QED BY <3>2
  <2> QED BY <1>4, <2>1, <2>3
<1>9. ASSUME NEW i \in 1 .. m, NEW j \in 1 .. m, v[i] = v[j] PROVE i = j
  <2>1. \A a, b \in 1 .. n : w[a] = w[b] => a = b
    BY <1>1 DEF IsChain
  <2>2. ASSUME NEW a \in 1 .. n PROVE v[a + 1] # x
    <3>1. v[a + 1] = w[a] /\ w[a] \in S
      BY <1>4, <1>6
    <3> QED BY <3>1
  <2>3. CASE i = 1 \/ j = 1
    <3>1. ASSUME NEW k \in 1 .. m, v[k] = x PROVE k = 1
      <4>1. ASSUME NEW a \in 1 .. n, k = a + 1 PROVE FALSE
        BY <2>2, <3>1, <4>1
      <4> QED BY <1>5, <4>1
    <3>2. v[i] = x /\ v[j] = x
      BY <1>4, <1>9, <2>3
    <3> QED BY <3>1, <3>2
  <2>4. ASSUME NEW a \in 1 .. n, NEW b \in 1 .. n, i = a + 1, j = b + 1 PROVE i = j
    <3>1. w[a] = w[b]
      BY <1>4, <1>9, <2>4
    <3> QED BY <2>1, <2>4, <3>1
  <2> QED BY <1>5, <2>3, <2>4
<1>10. ASSUME NEW i \in 1 .. m PROVE mx[v[i]] = IF i = m THEN None ELSE v[i + 1]
  <2>1. CASE i = 1
    <3>1. mx[v[i]] = h /\ h = IF n = 0 THEN None ELSE w[1]
      BY <1>1, <1>4, <2>1 DEF IsChain
    <3>2. CASE n = 0
      BY <1>2, <2>1, <3>1, <3>2
    <3>3. CASE n # 0
      BY <1>2, <1>4, <2>1, <3>1, <3>3
    <3> QED BY <3>2, <3>3
  <2>2. ASSUME NEW j \in 1 .. n, i = j + 1 PROVE mx[v[i]] = IF i = m THEN None ELSE v[i + 1]
    <3>1. v[i] = w[j] /\ w[j] \in S
      BY <1>4, <1>6, <2>2
    <3>2. mx[v[i]] = IF j = n THEN None ELSE w[j + 1]
      BY <1>1, <3>1 DEF IsChain, Links
    <3>3. CASE j = n
      BY <1>2, <2>2, <3>2, <3>3
    <3>4. CASE j # n
      <4>1. j + 1 \in 1 .. n /\ v[(j + 1) + 1] = w[j + 1] /\ i + 1 = (j + 1) + 1 /\ i # m
        BY <1>2, <1>4, <2>2, <3>4
      <4> QED BY <3>2, <3>4, <4>1
    <3> QED BY <3>3, <3>4
  <2> QED BY <1>5, <2>1, <2>2
<1>11. Lists(m, v, S \cup {x}) /\ IsChain(m, v, x, mx)
  <2>1. m # 0
    BY <1>2
  <2> QED BY <1>4, <1>7, <1>8, <1>9, <1>10, <2>1 DEF Lists, IsChain, Links
<1> QED BY <1>7, <1>11 DEF ChainIs

\* A trail is a chain from one of its entries on.  An entry has but one.
Trail(n, w, a, nx, D) == n \in Nat \ {0} /\ w \in [1 .. n -> D] /\ w[1] = a /\ Links(n, w, nx)

LEMMA TrailsAgree ==
  ASSUME NEW D, None \notin D, NEW nx, NEW a, NEW n, NEW w, NEW m, NEW v,
         Trail(n, w, a, nx, D), Trail(m, v, a, nx, D)
  PROVE  n = m /\ w = v
<1>1. /\ n \in Nat \ {0} /\ m \in Nat \ {0} /\ w \in [1 .. n -> D] /\ v \in [1 .. m -> D]
      /\ w[1] = a /\ v[1] = a
      /\ \A i \in 1 .. n : nx[w[i]] = IF i = n THEN None ELSE w[i + 1]
      /\ \A i \in 1 .. m : nx[v[i]] = IF i = m THEN None ELSE v[i + 1]
  BY DEF Trail, Links
<1> DEFINE Bad == {i \in Nat : i \in 1 .. n /\ ~(i <= m /\ w[i] = v[i])}
<1>2. Bad = {}
  <2> SUFFICES ASSUME Bad # {} PROVE FALSE
    OBVIOUS
  <2>1. PICK k : k \in Bad /\ \A y \in Bad : k <= y
    <3>1. Bad \in SUBSET Nat
      OBVIOUS
    <3> HIDE DEF Bad
    <3> QED BY <3>1, MinIsLeast
  <2>2. k \in 1 .. n /\ ~(k <= m /\ w[k] = v[k])
    BY <2>1
  <2>3. k # 1
    BY <1>1, <2>2
  <2>4. k - 1 \in 1 .. n /\ k - 1 \in Nat /\ k - 1 < k
    BY <1>1, <2>2, <2>3
  <2>5. k - 1 <= m /\ w[k - 1] = v[k - 1]
    BY <2>1, <2>2, <2>4
  <2>6. k - 1 \in 1 .. m /\ nx[w[k - 1]] = w[k] /\ w[k] \in D
    BY <1>1, <2>2, <2>4, <2>5
  <2>7. nx[v[k - 1]] = IF k - 1 = m THEN None ELSE v[k]
    BY <1>1, <2>2, <2>6
  <2>8. k - 1 # m /\ w[k] = v[k]
    BY <2>5, <2>6, <2>7
  <2> QED BY <1>1, <2>2, <2>5, <2>8
<1>3. ASSUME NEW i \in 1 .. n PROVE i <= m /\ w[i] = v[i]
  <2>1. i \in Nat
    OBVIOUS
  <2> QED BY <1>2, <2>1
<1>4. n = m
  <2>1. n \in 1 .. n /\ n \in 1 .. m /\ w[n] = v[n]
    BY <1>1, <1>3
  <2>2. nx[v[n]] = None
    BY <1>1, <2>1
  <2>3. n # m => nx[v[n]] = v[n + 1] /\ n + 1 \in 1 .. m
    BY <1>1, <2>1
  <2> QED BY <1>1, <2>2, <2>3
<1> QED BY <1>1, <1>3, <1>4

LEMMA TrailGrows ==
  ASSUME NEW D, NEW nx, NEW a \in D, NEW n, NEW w, Trail(n, w, nx[a], nx, D)
  PROVE  Trail(n + 1, [i \in 1 .. n + 1 |-> IF i = 1 THEN a ELSE w[i - 1]], a, nx, D)
<1>1. /\ n \in Nat \ {0} /\ w \in [1 .. n -> D] /\ w[1] = nx[a]
      /\ \A i \in 1 .. n : nx[w[i]] = IF i = n THEN None ELSE w[i + 1]
  BY DEF Trail, Links
<1>2. PICK m \in Nat \ {0} : m = n + 1
  BY <1>1
<1>3. PICK v : v = [i \in 1 .. m |-> IF i = 1 THEN a ELSE w[i - 1]]
  OBVIOUS
<1>4. v \in [1 .. m -> D] /\ v[1] = a
  BY <1>1, <1>2, <1>3
<1>5. ASSUME NEW i \in 1 .. m PROVE nx[v[i]] = IF i = m THEN None ELSE v[i + 1]
  <2>1. CASE i = 1
    BY <1>1, <1>2, <1>3, <2>1
  <2>2. CASE i # 1
    <3>1. i - 1 \in 1 .. n /\ v[i] = w[i - 1]
      BY <1>1, <1>2, <1>3, <2>2
    <3>2. nx[v[i]] = IF i - 1 = n THEN None ELSE w[i]
      BY <1>1, <3>1
    <3>3. i # m => i + 1 \in 1 .. m /\ v[i + 1] = w[i]
      BY <1>2, <1>3, <2>2
    <3> QED BY <1>1, <1>2, <3>2, <3>3
  <2> QED BY <2>1, <2>2
<1>6. Trail(m, v, a, nx, D)
  BY <1>4, <1>5 DEF Trail, Links
<1> QED BY <1>2, <1>3, <1>6

\* What follows an entry of a trail is a trail.
LEMMA TrailEnds ==
  ASSUME NEW D, NEW nx, NEW n \in Nat \ {0}, NEW w \in [1 .. n -> D], Links(n, w, nx), NEW i \in 1 .. n
  PROVE  Trail(n - i + 1, [j \in 1 .. n - i + 1 |-> w[j + i - 1]], w[i], nx, D)
<1>1. PICK m \in Nat \ {0} : m = n - i + 1
  OBVIOUS
<1>2. PICK v : v = [j \in 1 .. m |-> w[j + i - 1]]
  OBVIOUS
<1>3. v \in [1 .. m -> D] /\ v[1] = w[i]
  BY <1>1, <1>2
<1>4. ASSUME NEW j \in 1 .. m PROVE nx[v[j]] = IF j = m THEN None ELSE v[j + 1]
  <2>1. j + i - 1 \in 1 .. n /\ v[j] = w[j + i - 1]
    BY <1>1, <1>2
  <2>2. nx[v[j]] = IF j + i - 1 = n THEN None ELSE w[(j + i - 1) + 1]
    BY <2>1 DEF Links
  <2>3. j # m => j + 1 \in 1 .. m /\ v[j + 1] = w[(j + i - 1) + 1]
    BY <1>1, <1>2
  <2> QED BY <1>1, <2>2, <2>3
<1> QED BY <1>1, <1>2, <1>3, <1>4 DEF Trail, Links

(***************************************************************************)
(* The two walks along a chain are recursive functions: a CHOOSE of a      *)
(* function that satisfies their equation.  One exists, since every entry  *)
(* has a trail, and the equation gives what it is along a trail.           *)
(***************************************************************************)
PoolIds == 0 .. ArenaCap - 1

LEMMA Prepends ==
  ASSUME NEW D, NEW n \in Nat, NEW w \in Seq(D), Len(w) = n, NEW a \in D
  PROVE  /\ <<a>> \o w \in Seq(D) /\ Len(<<a>> \o w) = n + 1
         /\ <<a>> \o w = [i \in 1 .. n + 1 |-> IF i = 1 THEN a ELSE w[i - 1]]
<1>1. <<a>> \in Seq(D) /\ Len(<<a>>) = 1 /\ <<a>>[1] = a
  OBVIOUS
<1>2. PICK v : v = <<a>> \o w
  OBVIOUS
<1>3. /\ v \in Seq(D) /\ Len(v) = 1 + n
      /\ \A i \in 1 .. 1 + n : v[i] = IF i <= 1 THEN <<a>>[i] ELSE w[i - 1]
  BY <1>1, <1>2, ConcatProperties
<1>4. v = [i \in 1 .. Len(v) |-> v[i]]
  BY <1>3, LenProperties
<1>5. PICK m : m = n + 1
  OBVIOUS
<1>6. Len(v) = m
  BY <1>3, <1>5
<1>7. \A i \in 1 .. m : v[i] = IF i = 1 THEN a ELSE w[i - 1]
  BY <1>1, <1>3, <1>5
<1>8. v = [i \in 1 .. m |-> IF i = 1 THEN a ELSE w[i - 1]]
  BY <1>4, <1>6, <1>7
<1> QED BY <1>2, <1>3, <1>5, <1>8

Follows(from, nx, D) == \A a \in {None} \cup D : from[a] = IF a = None THEN <<>> ELSE <<a>> \o from[nx[a]]

LEMMA SequenceAlongATrail ==
  ASSUME NEW D, None \notin D, NEW nx \in [D -> {None} \cup D], NEW from, Follows(from, nx, D),
         NEW n \in Nat \ {0}, NEW w \in [1 .. n -> D], Links(n, w, nx)
  PROVE  /\ from[w[1]] \in Seq(D) /\ Len(from[w[1]]) = n
         /\ \A j \in 1 .. n : from[w[1]][j] = w[j]
<1> DEFINE Rest(i) == /\ from[w[i]] \in Seq(D) /\ Len(from[w[i]]) = n - i + 1
                      /\ \A j \in 1 .. n - i + 1 : from[w[i]][j] = w[i + j - 1]
           Bad == {k \in Nat : k < n /\ ~Rest(n - k)}
<1>1. \A i \in 1 .. n : w[i] \in D /\ w[i] # None /\ nx[w[i]] = IF i = n THEN None ELSE w[i + 1]
  BY DEF Links
<1>2. from[None] = <<>> /\ \A i \in 1 .. n : from[w[i]] = <<w[i]>> \o from[nx[w[i]]]
  BY <1>1 DEF Follows
<1>3. Rest(n)
  <2>1. n \in 1 .. n /\ nx[w[n]] = None /\ n - n + 1 = 1
    BY <1>1
  <2>2. from[w[n]] = <<w[n]>> \o <<>>
    BY <1>2, <2>1
  <2>3. <<w[n]>> \in Seq(D)
    BY <1>1, <2>1
  <2>4. from[w[n]] = <<w[n]>>
    BY <2>2, <2>3, ConcatEmptySeq
  <2>5. Len(<<w[n]>>) = 1 /\ <<w[n]>>[1] = w[n]
    OBVIOUS
  <2>6. \A j \in 1 .. n - n + 1 : j = 1 /\ n + j - 1 = n
    BY <2>1
  <2> QED BY <2>1, <2>3, <2>4, <2>5, <2>6
<1>4. ASSUME NEW i \in 1 .. n, i # n, Rest(i + 1) PROVE Rest(i)
  <2>1. PICK r : r = from[w[i + 1]]
    OBVIOUS
  <2>2. PICK m \in Nat : m = n - i
    OBVIOUS
  <2>3. r \in Seq(D) /\ Len(r) = m /\ \A j \in 1 .. m : r[j] = w[i + j]
    <3>1. n - (i + 1) + 1 = m
      BY <2>2
    <3>2. \A j \in 1 .. m : (i + 1) + j - 1 = i + j
      OBVIOUS
    <3> QED BY <1>4, <2>1, <3>1, <3>2
  <2>4. PICK a \in D : a = w[i]
    BY <1>1
  <2>5. from[w[i]] = <<a>> \o r
    BY <1>1, <1>2, <1>4, <2>1, <2>4
  <2>6. <<a>> \o r \in Seq(D) /\ Len(<<a>> \o r) = m + 1
        /\ <<a>> \o r = [j \in 1 .. m + 1 |-> IF j = 1 THEN a ELSE r[j - 1]]
    BY <2>3, Prepends
  <2>7. n - i + 1 = m + 1
    BY <2>2
  <2>8. ASSUME NEW j \in 1 .. m + 1 PROVE from[w[i]][j] = w[i + j - 1]
    <3>1. from[w[i]][j] = IF j = 1 THEN a ELSE r[j - 1]
      BY <2>5, <2>6
    <3>2. CASE j = 1
      <4>1. i + j - 1 = i
        BY <3>2
      <4> QED BY <2>4, <3>1, <3>2, <4>1
    <3>3. CASE j # 1
      <4>1. j - 1 \in 1 .. m /\ i + (j - 1) = i + j - 1
        BY <3>3
      <4> QED BY <2>3, <3>1, <3>3, <4>1
    <3> QED BY <3>2, <3>3
  <2> QED BY <2>5, <2>6, <2>7, <2>8
<1>5. Bad = {}
  <2> SUFFICES ASSUME Bad # {} PROVE FALSE
    OBVIOUS
  <2>1. PICK k : k \in Bad /\ \A y \in Bad : k <= y
    <3>1. Bad \in SUBSET Nat
      OBVIOUS
    <3> HIDE DEF Bad
    <3> QED BY <3>1, MinIsLeast
  <2>2. k \in Nat /\ k < n /\ ~Rest(n - k)
    BY <2>1
  <2> HIDE DEF Rest
  <2>3. k # 0
    BY <1>3, <2>2
  <2>4. k - 1 \in Nat /\ k - 1 < n /\ k - 1 < k
    BY <2>2, <2>3
  <2>5. Rest(n - (k - 1))
    <3>1. k - 1 \notin Bad
      <4> HIDE DEF Bad
      <4> QED BY <2>1, <2>2, <2>4
    <3> QED BY <2>4, <3>1
  <2>6. PICK i \in 1 .. n : i = n - k /\ i # n
    BY <2>2, <2>3
  <2>7. n - (k - 1) = i + 1
    BY <2>2, <2>6
  <2> QED BY <1>4, <2>2, <2>5, <2>6, <2>7
<1>6. Rest(1)
  <2> HIDE DEF Rest
  <2>1. n - 1 \in Nat /\ n - 1 < n /\ n - (n - 1) = 1
    OBVIOUS
  <2> QED BY <1>5, <2>1
<1>7. n - 1 + 1 = n /\ \A j \in 1 .. n : 1 + j - 1 = j
  OBVIOUS
<1> QED BY <1>6, <1>7

Trailed(D, nx) == \A a \in D : \E n : \E w : Trail(n, w, a, nx, D)
SequencesOf(D, nx, from) ==
  from = [a \in {None} \cup D |-> IF a = None THEN <<>> ELSE <<a>> \o from[nx[a]]]

LEMMA SequencesExist ==
  ASSUME NEW D, None \notin D, NEW nx \in [D -> {None} \cup D], Trailed(D, nx)
  PROVE  \E from : SequencesOf(D, nx, from)
<1> DEFINE Path(a) == CHOOSE w : \E n : Trail(n, w, a, nx, D)
<1>1. ASSUME NEW a \in D PROVE \E n : Trail(n, Path(a), a, nx, D)
  BY DEF Trailed
<1>2. PICK from : from = [a \in {None} \cup D |-> IF a = None THEN <<>> ELSE Path(a)]
  OBVIOUS
<1> HIDE DEF Path
<1>3. from[None] = <<>> /\ \A a \in D : from[a] = Path(a)
  BY <1>2
<1>4. ASSUME NEW a \in D PROVE from[a] = <<a>> \o from[nx[a]]
  <2>1. PICK n : Trail(n, Path(a), a, nx, D)
    BY <1>1
  <2>2. n \in Nat \ {0} /\ Path(a) \in [1 .. n -> D] /\ Path(a)[1] = a
        /\ \A i \in 1 .. n : nx[Path(a)[i]] = IF i = n THEN None ELSE Path(a)[i + 1]
    BY <2>1 DEF Trail, Links
  <2>3. CASE nx[a] = None
    <3>1. PICK w : w = <<a>>
      OBVIOUS
    <3>2. w \in [1 .. 1 -> D] /\ w[1] = a
      BY <3>1
    <3>3. Trail(1, w, a, nx, D)
      BY <2>3, <3>2 DEF Trail, Links
    <3>4. Path(a) = w
      BY <2>1, <3>3, TrailsAgree
    <3>5. <<a>> \in Seq(D)
      OBVIOUS
    <3> QED BY <1>3, <2>3, <3>1, <3>4, <3>5, ConcatEmptySeq
  <2>4. CASE nx[a] \in D
    <3>1. PICK m : Trail(m, Path(nx[a]), nx[a], nx, D)
      BY <1>1, <2>4
    <3>2. Trail(m + 1, [i \in 1 .. m + 1 |-> IF i = 1 THEN a ELSE Path(nx[a])[i - 1]], a, nx, D)
      BY <3>1, TrailGrows
    <3>3. Path(a) = [i \in 1 .. m + 1 |-> IF i = 1 THEN a ELSE Path(nx[a])[i - 1]]
      BY <2>1, <3>2, TrailsAgree
    <3>4. m \in Nat /\ Path(nx[a]) \in [1 .. m -> D]
      BY <3>1 DEF Trail
    <3>5. Path(nx[a]) \in Seq(D) /\ Len(Path(nx[a])) = m
      BY <3>4
    <3>6. <<a>> \o Path(nx[a]) = [i \in 1 .. m + 1 |-> IF i = 1 THEN a ELSE Path(nx[a])[i - 1]]
      BY <3>4, <3>5, Prepends
    <3> QED BY <1>3, <2>4, <3>3, <3>6
  <2> QED BY <2>3, <2>4
<1>5. \A a \in {None} \cup D : from[a] = IF a = None THEN <<>> ELSE <<a>> \o from[nx[a]]
  BY <1>3, <1>4
<1>6. from = [a \in {None} \cup D |-> from[a]]
  BY <1>2
<1>7. from = [a \in {None} \cup D |-> IF a = None THEN <<>> ELSE <<a>> \o from[nx[a]]]
  BY <1>5, <1>6, Zenon
<1>8. SequencesOf(D, nx, from)
  BY <1>7, Zenon DEF SequencesOf
<1> QED BY <1>8, Zenon

LEMMA PoolChainIs ==
  ASSUME anext \in [PoolIds -> {None} \cup PoolIds],
         \A a \in PoolIds : \E n : \E w : Trail(n, w, a, anext, PoolIds),
         NEW n \in Nat, NEW w \in [1 .. n -> PoolIds], IsChain(n, w, ahead[block.bucket], anext)
  PROVE  /\ PoolChain \in Seq(PoolIds) /\ Len(PoolChain) = n
         /\ \A i \in 1 .. n : PoolChain[i] = w[i]
<1> DEFINE Body(f) == [a \in {None} \cup 0 .. ArenaCap - 1 |-> IF a = None THEN <<>> ELSE <<a>> \o f[anext[a]]]
<1>1. PICK from : from = CHOOSE f : f = Body(f)
  OBVIOUS
<1>2. None \notin PoolIds
  BY DEF None, PoolIds
<1>3. \E f : f = Body(f)
  <2>1. PoolIds = 0 .. ArenaCap - 1
    BY DEF PoolIds
  <2>2. Trailed(PoolIds, anext)
    BY Zenon DEF Trailed
  <2>3. PICK f : SequencesOf(PoolIds, anext, f)
    BY <1>2, <2>2, SequencesExist, Zenon
  <2>4. f = Body(f)
    BY <2>1, <2>3, Zenon DEF SequencesOf
  <2> QED BY <2>4
<1>4. from = Body(from)
  <2> HIDE DEF Body
  <2> QED BY <1>1, <1>3
<1>5. PoolChain = from[ahead[block.bucket]]
  BY <1>1 DEF PoolChain
<1>6. CASE n = 0
  <2>1. PoolChain = <<>>
    BY <1>4, <1>5, <1>6 DEF IsChain
  <2> QED BY <1>6, <2>1
<1>7. CASE n # 0
  <2>1. Links(n, w, anext) /\ ahead[block.bucket] = w[1]
    BY <1>7 DEF IsChain
  <2>2. Follows(from, anext, PoolIds)
    BY <1>4 DEF PoolIds, Follows
  <2>3. n \in Nat \ {0}
    BY <1>7
  <2>4. /\ from[w[1]] \in Seq(PoolIds) /\ Len(from[w[1]]) = n
        /\ \A j \in 1 .. n : from[w[1]][j] = w[j]
    <3> HIDE DEF Body
    <3> QED BY <1>2, <2>1, <2>2, <2>3, SequenceAlongATrail
  <2> QED BY <1>5, <2>1, <2>4
<1> QED BY <1>6, <1>7

Nothing == {}
Grown(a, S) == {a} \cup S
Entries(n, w) == {w[i] : i \in 1 .. n}

LEMMA SetAlongATrail ==
  ASSUME NEW D, None \notin D, NEW nx \in [D -> {None} \cup D], NEW from,
         \A a \in {None} \cup D : from[a] = IF a = None THEN Nothing ELSE Grown(a, from[nx[a]]),
         NEW n \in Nat \ {0}, NEW w \in [1 .. n -> D], Links(n, w, nx)
  PROVE  from[w[1]] = Entries(n, w)
<1> DEFINE Rest(i) == from[w[i]] = {w[j] : j \in i .. n}
           Bad == {k \in Nat : k < n /\ ~Rest(n - k)}
<1>1. \A i \in 1 .. n : w[i] \in D /\ w[i] # None /\ nx[w[i]] = IF i = n THEN None ELSE w[i + 1]
  BY DEF Links
<1>2. from[None] = {} /\ \A i \in 1 .. n : from[w[i]] = {w[i]} \cup from[nx[w[i]]]
  BY <1>1 DEF Nothing, Grown
<1>3. Rest(n)
  <2>1. n \in 1 .. n /\ nx[w[n]] = None /\ n .. n = {n}
    BY <1>1
  <2> QED BY <1>2, <2>1
<1>4. ASSUME NEW i \in 1 .. n, i # n, Rest(i + 1) PROVE Rest(i)
  <2>1. from[w[i]] = {w[i]} \cup {w[j] : j \in i + 1 .. n}
    BY <1>1, <1>2, <1>4
  <2>2. PICK A, B : A = i .. n /\ B = i + 1 .. n
    OBVIOUS
  <2>3. A = {i} \cup B
    BY <2>2
  <2>4. {w[j] : j \in A} = {w[i]} \cup {w[j] : j \in B}
    <3>1. \A x : x \in {w[j] : j \in A} <=> x \in {w[i]} \cup {w[j] : j \in B}
      BY <2>3
    <3> QED BY <3>1
  <2> QED BY <2>1, <2>2, <2>4
<1>5. Bad = {}
  <2> SUFFICES ASSUME Bad # {} PROVE FALSE
    OBVIOUS
  <2>1. PICK k : k \in Bad /\ \A y \in Bad : k <= y
    <3>1. Bad \in SUBSET Nat
      OBVIOUS
    <3> HIDE DEF Bad
    <3> QED BY <3>1, MinIsLeast
  <2>2. k \in Nat /\ k < n /\ ~Rest(n - k)
    BY <2>1
  <2> HIDE DEF Rest
  <2>3. k # 0
    BY <1>3, <2>2
  <2>4. k - 1 \in Nat /\ k - 1 < n /\ k - 1 < k
    BY <2>2, <2>3
  <2>5. Rest(n - (k - 1))
    <3>1. k - 1 \notin Bad
      <4> HIDE DEF Bad
      <4> QED BY <2>1, <2>2, <2>4
    <3> QED BY <2>4, <3>1
  <2>6. PICK i \in 1 .. n : i = n - k /\ i # n
    BY <2>2, <2>3
  <2>7. n - (k - 1) = i + 1
    BY <2>2, <2>6
  <2> QED BY <1>4, <2>2, <2>5, <2>6, <2>7
<1>6. Rest(1)
  <2> HIDE DEF Rest
  <2>1. n - 1 \in Nat /\ n - 1 < n /\ n - (n - 1) = 1
    OBVIOUS
  <2>2. n - 1 \notin Bad
    BY <1>5
  <2>3. Rest(n - (n - 1))
    BY <2>1, <2>2
  <2> QED BY <2>1, <2>3
<1> QED BY <1>6 DEF Entries

LEMMA SetsExist ==
  ASSUME NEW D, None \notin D, NEW nx \in [D -> {None} \cup D],
         \A a \in D : \E n : \E w : Trail(n, w, a, nx, D)
  PROVE  \E from : from = [a \in {None} \cup D |-> IF a = None THEN Nothing ELSE Grown(a, from[nx[a]])]
<1> DEFINE On(a, x) == \E n : \E w : Trail(n, w, a, nx, D) /\ \E i \in 1 .. n : w[i] = x
           Reached(a) == {x \in D : On(a, x)}
<1>1. PICK from : from = [a \in {None} \cup D |-> IF a = None THEN {} ELSE Reached(a)]
  OBVIOUS
<1>2. from[None] = {} /\ \A a \in D : from[a] = Reached(a)
  BY <1>1
<1>3. ASSUME NEW a \in D PROVE from[a] = {a} \cup from[nx[a]]
  <2>1. PICK n, w : Trail(n, w, a, nx, D)
    OBVIOUS
  <2>2. n \in Nat \ {0} /\ w \in [1 .. n -> D] /\ w[1] = a /\ Links(n, w, nx)
    BY <2>1 DEF Trail
  <2>3. Reached(a) = {w[i] : i \in 1 .. n}
    <3>1. \A x \in Reached(a) : \E i \in 1 .. n : w[i] = x
      BY <2>1, TrailsAgree
    <3> QED BY <2>1, <2>2, <3>1
  <2>4. CASE nx[a] = None
    <3>1. PICK v : v = <<a>>
      OBVIOUS
    <3>2. v \in [1 .. 1 -> D] /\ v[1] = a
      BY <3>1
    <3>3. Trail(1, v, a, nx, D)
      BY <2>4, <3>2 DEF Trail, Links
    <3>4. n = 1
      BY <2>1, <3>3, TrailsAgree
    <3>5. Reached(a) = {a}
      BY <2>2, <2>3, <3>4
    <3> QED BY <1>2, <2>4, <3>5
  <2>5. CASE nx[a] \in D
    <3>1. PICK m, v : Trail(m, v, nx[a], nx, D)
      BY <2>5
    <3>2. m \in Nat \ {0} /\ v \in [1 .. m -> D]
      BY <3>1 DEF Trail
    <3>3. Reached(nx[a]) = {v[i] : i \in 1 .. m}
      <4>1. \A x \in Reached(nx[a]) : \E i \in 1 .. m : v[i] = x
        BY <3>1, TrailsAgree
      <4> QED BY <3>1, <3>2, <4>1
    <3>4. Trail(m + 1, [i \in 1 .. m + 1 |-> IF i = 1 THEN a ELSE v[i - 1]], a, nx, D)
      BY <3>1, TrailGrows
    <3>5. n = m + 1 /\ w = [i \in 1 .. m + 1 |-> IF i = 1 THEN a ELSE v[i - 1]]
      BY <2>1, <3>4, TrailsAgree
    <3>6. w[1] = a /\ \A i \in 1 .. m : i + 1 \in 1 .. n /\ w[i + 1] = v[i]
      BY <3>2, <3>5
    <3>7. \A i \in 1 .. n : i = 1 \/ (i - 1 \in 1 .. m /\ w[i] = v[i - 1])
      BY <3>2, <3>5
    <3>8. {w[i] : i \in 1 .. n} = {a} \cup {v[i] : i \in 1 .. m}
      BY <2>2, <3>6, <3>7
    <3> QED BY <1>2, <2>3, <2>5, <3>3, <3>8
  <2> QED BY <2>4, <2>5
<1> HIDE DEF Reached
<1>4. \A a \in {None} \cup D : from[a] = IF a = None THEN Nothing ELSE Grown(a, from[nx[a]])
  BY <1>2, <1>3 DEF Nothing, Grown
<1>5. from = [a \in {None} \cup D |-> from[a]]
  BY <1>1
<1>6. from = [a \in {None} \cup D |-> IF a = None THEN Nothing ELSE Grown(a, from[nx[a]])]
  BY <1>4, <1>5
<1> QED BY <1>6

FPos == 0 .. FCap - 1

LEMMA NoneIsNoPlace == None \notin FPos /\ None \notin PoolIds
BY DEF None, FPos, PoolIds

LEMMA SlotSetsExist ==
  ASSUME lchain \in [FPos -> {None} \cup FPos],
         \A a \in FPos : \E n : \E w : Trail(n, w, a, lchain, FPos)
  PROVE  \E from : from = [a \in {None} \cup FPos |-> IF a = None THEN Nothing ELSE Grown(a, from[lchain[a]])]
BY NoneIsNoPlace, SetsExist

LEMMA SlotSetIs ==
  ASSUME lchain \in [FPos -> {None} \cup FPos], NEW from,
         \A a \in {None} \cup FPos : from[a] = IF a = None THEN Nothing ELSE Grown(a, from[lchain[a]]),
         NEW n \in Nat \ {0}, NEW w \in [1 .. n -> FPos], Links(n, w, lchain)
  PROVE  from[w[1]] = Entries(n, w)
BY NoneIsNoPlace, SetAlongATrail

LEMMA ChainOfIs ==
  ASSUME lchain \in [FPos -> {None} \cup FPos],
         \A a \in FPos : \E n : \E w : Trail(n, w, a, lchain, FPos),
         NEW n \in Nat \ {0}, NEW w \in [1 .. n -> FPos], Links(n, w, lchain)
  PROVE  ChainOf(w[1]) = {w[i] : i \in 1 .. n}
<1> DEFINE Body(f) == [a \in {None} \cup FPos |-> IF a = None THEN Nothing ELSE Grown(a, f[lchain[a]])]
<1>1. PICK from : from = CHOOSE f : f = Body(f)
  OBVIOUS
<1>2. \E f : f = Body(f)
  BY SlotSetsExist
<1>3. from = Body(from)
  BY <1>1, <1>2
<1>4. ChainOf(w[1]) = from[w[1]]
  BY <1>1 DEF ChainOf, Nothing, Grown, FPos
<1>5. \A a \in {None} \cup FPos : from[a] = IF a = None THEN Nothing ELSE Grown(a, from[lchain[a]])
  BY <1>3
<1> HIDE DEF Body
<1>6. from[w[1]] = Entries(n, w)
  BY <1>5, SlotSetIs
<1> QED BY <1>4, <1>6 DEF Entries

(***************************************************************************)
(* The set.  A slot holds an element of bucket b if it is one of the       *)
(* bucket's below its count or a place of the pool with its tag.  No       *)
(* element is in two; one that has been scattered is in one, or counted.   *)
(***************************************************************************)
SlotIds == 0 .. Buckets * InCap + ArenaCap - 1
BucketIds == 0 .. Buckets - 1
InRow(s, b) == \E p \in 0 .. InCap - 1 : p < count[b] /\ s = b * InCap + p
InPool(s, b) == \E a \in 0 .. Pooled - 1 : atag[a] = b /\ s = PoolSlot(a)
Holds(s, b) == InRow(s, b) \/ InPool(s, b)
Scattered(i) == ~(step = "entry" /\ i \in todo)

SetTypes ==
  /\ input \in Elements /\ kind \in Kinds
  /\ step \in {"entry", "link", "block"}
  /\ step = "entry" => todo \subseteq DOMAIN input
  /\ step = "link" => todo \subseteq 0 .. Pooled - 1
  /\ step = "block" => todo = {}
  /\ count \in [BucketIds -> Nat] /\ actr \in Nat /\ (kind.arena \/ actr = 0)
  /\ atag \in [PoolIds -> BucketIds]
  /\ DOMAIN elem = SlotIds
  /\ ahead \in [BucketIds -> {None} \cup PoolIds]
  /\ anext \in [PoolIds -> {None} \cup PoolIds]
SlotInv ==
  /\ \A b \in BucketIds, s \in SlotIds : Holds(s, b) =>
       elem[s] \in DOMAIN input /\ Scattered(elem[s]) /\ input[elem[s]].bucket = b
  /\ \A b, c \in BucketIds, s, t \in SlotIds :
       Holds(s, b) /\ Holds(t, c) /\ elem[s] = elem[t] => s = t
  /\ \A i \in DOMAIN input : Scattered(i) =>
       "entry" \in drops \/ \E s \in SlotIds : Holds(s, input[i].bucket) /\ elem[s] = i

Linked == IF step = "entry" THEN {} ELSE IF step = "link" THEN (0 .. Pooled - 1) \ todo ELSE 0 .. Pooled - 1
LinkedTo(b) == {a \in Linked : atag[a] = b}
PoolInv ==
  /\ \A b \in BucketIds : ChainIs(LinkedTo(b), ahead[b], anext)
  /\ \A a \in PoolIds \ Linked : anext[a] = None

SetInv == SetTypes /\ SlotInv /\ PoolInv

LEMMA InSizes ==
  /\ Buckets \in Nat \ {0} /\ InCap \in Nat \ {0} /\ ArenaCap \in Nat
  /\ Buckets * InCap \in Nat
<1>1. Buckets \in Nat \ {0} /\ InCap \in Nat \ {0} /\ ArenaCap \in Nat
  BY FusedRoundAssumption DEF FusedRoundAssumption
<1> QED BY <1>1

LEMMA RowIsLow ==
  ASSUME NEW b \in BucketIds, NEW p \in 0 .. InCap - 1
  PROVE  b * InCap + p \in Nat /\ b * InCap + p < Buckets * InCap /\ b * InCap + p \in SlotIds
<1>1. b \in Nat /\ b < Buckets /\ Buckets \in Nat
  BY InSizes DEF BucketIds
<1>2. b * InCap + InCap <= Buckets * InCap /\ b * InCap \in Nat
  BY <1>1, InSizes, RowsFollow
<1>3. b * InCap + p \in Nat /\ b * InCap + p < Buckets * InCap
  BY <1>2, InSizes
<1> QED BY <1>3, InSizes DEF SlotIds

LEMMA PoolIsHigh ==
  ASSUME NEW a \in PoolIds
  PROVE  PoolSlot(a) \in Nat /\ PoolSlot(a) >= Buckets * InCap /\ PoolSlot(a) \in SlotIds
BY InSizes DEF PoolIds, PoolSlot, SlotIds

LEMMA PoolSlotsApart == \A a, c \in PoolIds : PoolSlot(a) = PoolSlot(c) => a = c
BY InSizes DEF PoolIds, PoolSlot

LEMMA InRowsApart ==
  ASSUME NEW b \in BucketIds, NEW c \in BucketIds, NEW p \in 0 .. InCap - 1, NEW r \in 0 .. InCap - 1,
         b * InCap + p = c * InCap + r
  PROVE  b = c /\ p = r
<1>1. b \in Nat /\ c \in Nat
  BY InSizes DEF BucketIds
<1> QED BY <1>1, InSizes, RowsApart

LEMMA PooledFits == SetTypes => /\ Pooled \in Nat /\ Pooled <= ArenaCap /\ Pooled <= actr
                                /\ 0 .. Pooled - 1 \subseteq PoolIds
                                /\ (actr < ArenaCap => Pooled = actr)
                                /\ (actr >= ArenaCap => Pooled = ArenaCap)
BY InSizes DEF SetTypes, Pooled, PoolIds

LEMMA InputTypes ==
  ASSUME SetTypes, NEW i \in DOMAIN input
  PROVE  input[i].bucket \in BucketIds /\ input[i].key \in RoundKeys /\ input[i].lead \in Nat
BY FusedRoundAssumption DEF FusedRoundAssumption, SetTypes, BucketIds, RoundKeys

\* What an element that finds a slot changes.
LEMMA StoreKeeps ==
  ASSUME SlotInv, SetTypes, NEW i \in todo, step = "entry", step' = step, input' = input,
         todo' = todo \ {i}, drops' = drops, NEW slot \in SlotIds,
         elem' = [elem EXCEPT ![slot] = i],
         \A b \in BucketIds : ~Holds(slot, b),
         \A s \in SlotIds : \A b \in BucketIds :
           Holds(s, b)' <=> Holds(s, b) \/ (s = slot /\ b = input[i].bucket)
  PROVE  SlotInv'
<1>1. i \in DOMAIN input /\ input[i].bucket \in BucketIds
  BY InputTypes DEF SetTypes
<1>2. elem'[slot] = i /\ \A s \in SlotIds \ {slot} : elem'[s] = elem[s]
  BY DEF SetTypes
<1>3. \A j : Scattered(j)' <=> Scattered(j) \/ j = i
  BY DEF Scattered
<1>4. ~Scattered(i)
  BY DEF Scattered
<1>5. ASSUME NEW b \in BucketIds, NEW s \in SlotIds, Holds(s, b)'
      PROVE  elem'[s] \in DOMAIN input' /\ elem'[s] \notin todo' /\ input'[elem'[s]].bucket = b
  <2>1. CASE s = slot
    <3>1. b = input[i].bucket
      BY <1>5, <2>1
    <3> QED BY <1>1, <1>2, <2>1, <3>1
  <2>2. CASE s # slot
    <3>1. Holds(s, b) /\ elem'[s] = elem[s]
      BY <1>2, <1>5, <2>2
    <3>2. elem[s] \in DOMAIN input /\ elem[s] \notin todo /\ input[elem[s]].bucket = b
      BY <3>1 DEF SlotInv, Scattered
    <3> QED BY <3>1, <3>2
  <2> QED BY <2>1, <2>2
<1>6. ASSUME NEW b \in BucketIds, NEW c \in BucketIds, NEW s \in SlotIds, NEW t \in SlotIds,
             Holds(s, b)', Holds(t, c)', elem'[s] = elem'[t]
      PROVE  s = t
  <2>1. \A x \in SlotIds, d \in BucketIds : Holds(x, d) => Scattered(elem[x])
    BY DEF SlotInv
  <2>2. CASE s # slot /\ t # slot
    BY <1>2, <1>6, <2>2 DEF SlotInv
  <2>3. CASE s = slot /\ t # slot
    BY <1>2, <1>4, <1>6, <2>1, <2>3
  <2>4. CASE s # slot /\ t = slot
    BY <1>2, <1>4, <1>6, <2>1, <2>4
  <2> QED BY <2>2, <2>3, <2>4
<1>7. ASSUME NEW j \in DOMAIN input, Scattered(j)', "entry" \notin drops
      PROVE  \E s \in SlotIds : Holds(s, input[j].bucket)' /\ elem'[s] = j
  <2>1. CASE j = i
    <3>1. Holds(slot, input[i].bucket)'
      BY <1>1
    <3> QED BY <1>2, <2>1, <3>1
  <2>2. CASE j # i
    <3>1. PICK s \in SlotIds : Holds(s, input[j].bucket) /\ elem[s] = j
      BY <1>3, <1>7, <2>2 DEF SlotInv
    <3>2. input[j].bucket \in BucketIds
      BY InputTypes
    <3>3. s # slot
      BY <3>1, <3>2
    <3>4. Holds(s, input[j].bucket)' /\ elem'[s] = j
      BY <1>2, <3>1, <3>2, <3>3
    <3> QED BY <3>4
  <2> QED BY <2>1, <2>2
<1>8. \A b \in BucketIds, s \in SlotIds : Holds(s, b)' =>
        elem'[s] \in DOMAIN input' /\ ~(step' = "entry" /\ elem'[s] \in todo') /\ input'[elem'[s]].bucket = b
  BY <1>5
<1>9. (\A j \in DOMAIN input : Scattered(j) =>
         "entry" \in drops \/ \E s \in SlotIds : Holds(s, input[j].bucket) /\ elem[s] = j)'
  BY <1>7
<1> QED BY <1>6, <1>8, <1>9 DEF SlotInv, Scattered

LEMMA RowGrows ==
  ASSUME SetTypes, NEW b \in BucketIds, count' = [count EXCEPT ![b] = count[b] + 1],
         NEW s, NEW c \in BucketIds
  PROVE  InRow(s, c)' <=> InRow(s, c) \/ (c = b /\ count[b] < InCap /\ s = b * InCap + count[b])
<1>1. count \in [BucketIds -> Nat] /\ InCap \in Nat \ {0}
  BY InSizes DEF SetTypes
<1>2. CASE c # b
  <2>1. count'[c] = count[c]
    BY <1>1, <1>2
  <2> QED BY <1>2, <2>1 DEF InRow
<1>3. CASE c = b
  <2>1. PICK n \in Nat : n = count[b]
    BY <1>1
  <2>2. count'[b] = n + 1
    BY <1>1, <2>1
  <2>3. \A p \in 0 .. InCap - 1 : p < n + 1 <=> p < n \/ p = n
    BY <1>1
  <2>4. n < InCap <=> n \in 0 .. InCap - 1
    BY <1>1
  <2> QED BY <1>3, <2>1, <2>2, <2>3, <2>4 DEF InRow
<1> QED BY <1>2, <1>3

LEMMA ScatterSets == ASSUME SetInv, NEW i \in todo, Scatter(i) PROVE SetInv'
<1> DEFINE b == input[i].bucket
<1>1. /\ step = "entry" /\ step' = step /\ todo' = todo \ {i} /\ i \in DOMAIN input
      /\ input' = input /\ kind' = kind /\ ahead' = ahead /\ anext' = anext
      /\ count' = [count EXCEPT ![b] = count[b] + 1]
  BY DEF Scatter, SetInv, SetTypes, inputVars
<1>2. b \in BucketIds /\ SetTypes
  BY <1>1, InputTypes DEF SetInv
<1> HIDE DEF b
<1>3. \A s : \A c \in BucketIds : InRow(s, c)' <=>
        InRow(s, c) \/ (c = b /\ count[b] < InCap /\ s = b * InCap + count[b])
  BY <1>1, <1>2, RowGrows
<1>4. count' \in [BucketIds -> Nat] /\ count[b] \in Nat /\ actr \in Nat /\ InCap \in Nat /\ ArenaCap \in Nat
  BY <1>1, <1>2, InSizes DEF SetTypes
<1>5. ASSUME actr' \in Nat, kind.arena \/ actr' = 0, atag' \in [PoolIds -> BucketIds], DOMAIN elem' = SlotIds
      PROVE  SetTypes'
  <2>1. todo' \subseteq DOMAIN input'
    BY <1>1, <1>2 DEF SetTypes
  <2> QED BY <1>1, <1>2, <1>4, <1>5, <2>1 DEF SetTypes
<1>6. PoolInv'
  <2>1. Linked = {} /\ Linked' = {}
    BY <1>1 DEF Linked
  <2>2. \A c : LinkedTo(c) = {} /\ LinkedTo(c)' = {}
    BY <2>1 DEF LinkedTo
  <2> QED BY <1>1, <2>1, <2>2 DEF PoolInv, SetInv
<1>7. CASE /\ count[b] < InCap /\ elem' = [elem EXCEPT ![b * InCap + count[b]] = i]
           /\ UNCHANGED <<actr, atag, drops>>
  <2>1. count[b] \in 0 .. InCap - 1
    BY <1>4, <1>7
  <2>2. PICK slot \in SlotIds : slot = b * InCap + count[b] /\ slot < Buckets * InCap /\ slot \in Nat
    BY <1>2, <2>1, RowIsLow
  <2>3. \A s : \A c \in BucketIds : InPool(s, c)' <=> InPool(s, c)
    BY <1>7 DEF InPool, Pooled
  <2>4. \A s \in SlotIds : \A c \in BucketIds : Holds(s, c)' <=> Holds(s, c) \/ (s = slot /\ c = b)
    BY <1>3, <1>7, <2>2, <2>3 DEF Holds
  <2>5. ASSUME NEW c \in BucketIds, Holds(slot, c) PROVE FALSE
    <3>1. CASE InRow(slot, c)
      <4>1. PICK p \in 0 .. InCap - 1 : p < count[c] /\ slot = c * InCap + p
        BY <3>1 DEF InRow
      <4>2. b = c /\ count[b] = p
        BY <1>2, <2>1, <2>2, <4>1, InRowsApart
      <4> QED BY <1>4, <4>1, <4>2
    <3>2. CASE InPool(slot, c)
      <4>1. PICK a \in 0 .. Pooled - 1 : slot = PoolSlot(a)
        BY <3>2 DEF InPool
      <4>2. a \in PoolIds
        BY <1>2, <4>1, PooledFits
      <4> QED BY <2>2, <4>1, <4>2, PoolIsHigh, InSizes
    <3> QED BY <2>5, <3>1, <3>2 DEF Holds
  <2>6. elem' = [elem EXCEPT ![slot] = i]
    BY <1>7, <2>2
  <2>7. SlotInv'
    BY <1>1, <1>2, <1>7, <2>4, <2>5, <2>6, StoreKeeps DEF SetInv, b
  <2> QED BY <1>2, <1>5, <1>6, <1>7, <2>7 DEF SetInv, SetTypes
<1>8. CASE /\ count[b] >= InCap /\ kind.arena /\ actr < ArenaCap /\ actr' = actr + 1
           /\ atag' = [atag EXCEPT ![actr] = b] /\ elem' = [elem EXCEPT ![PoolSlot(actr)] = i]
           /\ UNCHANGED drops
  <2>1. actr \in PoolIds
    BY <1>4, <1>8 DEF PoolIds
  <2>2. PICK slot \in SlotIds : slot = PoolSlot(actr) /\ slot >= Buckets * InCap /\ slot \in Nat
    BY <2>1, PoolIsHigh
  <2>3. /\ 0 .. Pooled - 1 = 0 .. actr - 1
        /\ 0 .. Pooled' - 1 = 0 .. actr
    <3>1. Pooled = actr /\ Pooled' = actr + 1
      BY <1>4, <1>8 DEF Pooled
    <3> QED BY <1>4, <3>1
  <2>4. atag'[actr] = b /\ \A a \in PoolIds : a # actr => atag'[a] = atag[a]
    BY <1>2, <1>8, <2>1 DEF SetTypes
  <2>5. \A s : \A c \in BucketIds : InPool(s, c)' <=> InPool(s, c) \/ (s = slot /\ c = b)
    <3>1. \A a : a \in 0 .. actr <=> a \in 0 .. actr - 1 \/ a = actr
      BY <1>4
    <3>2. \A a \in 0 .. actr - 1 : a # actr /\ a \in PoolIds
      BY <1>4, <1>8 DEF PoolIds
    <3>3. \A s, c : InPool(s, c)' <=> \E a \in 0 .. actr : atag'[a] = c /\ s = PoolSlot(a)
      BY <2>3 DEF InPool, PoolSlot
    <3>4. \A s, c : InPool(s, c) <=> \E a \in 0 .. actr - 1 : atag[a] = c /\ s = PoolSlot(a)
      BY <2>3 DEF InPool
    <3> HIDE DEF InPool
    <3> QED BY <2>2, <2>4, <3>1, <3>2, <3>3, <3>4
  <2>6. \A s \in SlotIds : \A c \in BucketIds : Holds(s, c)' <=> Holds(s, c) \/ (s = slot /\ c = b)
    <3>1. ~(count[b] < InCap)
      BY <1>4, <1>8
    <3> QED BY <1>3, <2>5, <3>1 DEF Holds
  <2>7. ASSUME NEW c \in BucketIds, Holds(slot, c) PROVE FALSE
    <3>1. CASE InRow(slot, c)
      <4>1. PICK p \in 0 .. InCap - 1 : slot = c * InCap + p
        BY <3>1 DEF InRow
      <4> QED BY <2>2, <4>1, RowIsLow, InSizes
    <3>2. CASE InPool(slot, c)
      <4>1. PICK a \in 0 .. actr - 1 : slot = PoolSlot(a)
        BY <2>3, <3>2 DEF InPool
      <4>2. a \in PoolIds /\ a # actr
        BY <1>4, <1>8, <4>1 DEF PoolIds
      <4> QED BY <2>1, <2>2, <4>1, <4>2, PoolSlotsApart
    <3> QED BY <2>7, <3>1, <3>2 DEF Holds
  <2>8. elem' = [elem EXCEPT ![slot] = i]
    BY <1>8, <2>2
  <2>9. SlotInv'
    BY <1>1, <1>2, <1>8, <2>6, <2>7, <2>8, StoreKeeps DEF SetInv, b
  <2>10. actr' \in Nat /\ atag' \in [PoolIds -> BucketIds] /\ DOMAIN elem' = SlotIds
    BY <1>2, <1>4, <1>8, <2>1 DEF SetTypes
  <2> QED BY <1>5, <1>6, <1>8, <2>9, <2>10 DEF SetInv
<1>9. CASE /\ count[b] >= InCap /\ (kind.arena => actr >= ArenaCap)
           /\ actr' = (IF kind.arena THEN actr + 1 ELSE actr)
           /\ drops' = drops \cup {"entry"} /\ UNCHANGED <<atag, elem>>
  <2>1. Pooled' = Pooled /\ actr' \in Nat
    BY <1>4, <1>9 DEF Pooled
  <2>2. \A s : \A c \in BucketIds : InPool(s, c)' <=> InPool(s, c)
    BY <1>9, <2>1 DEF InPool, PoolSlot
  <2>3. \A s : \A c \in BucketIds : Holds(s, c)' <=> Holds(s, c)
    <3>1. ~(count[b] < InCap)
      BY <1>4, <1>9
    <3> QED BY <1>3, <2>2, <3>1 DEF Holds
  <2>4. "entry" \in drops'
    BY <1>9
  <2>5. \A c \in BucketIds, s \in SlotIds : Holds(s, c)' =>
          elem'[s] \in DOMAIN input' /\ ~(step' = "entry" /\ elem'[s] \in todo') /\ input'[elem'[s]].bucket = c
    BY <1>1, <1>9, <2>3 DEF SetInv, SlotInv, Scattered
  <2>6. \A c, d \in BucketIds, s, t \in SlotIds :
          Holds(s, c)' /\ Holds(t, d)' /\ elem'[s] = elem'[t] => s = t
    BY <1>9, <2>3 DEF SetInv, SlotInv
  <2>7. SlotInv'
    BY <2>4, <2>5, <2>6 DEF SlotInv, Scattered
  <2>8. (kind.arena \/ actr' = 0) /\ atag' \in [PoolIds -> BucketIds] /\ DOMAIN elem' = SlotIds
    BY <1>2, <1>9 DEF SetTypes
  <2> QED BY <1>5, <1>6, <2>1, <2>7, <2>8 DEF SetInv
<1> QED BY <1>7, <1>8, <1>9 DEF Scatter, Drop, b

\* The set keeps what it holds; only a counter may be raised.
LEMMA HoldsKept ==
  ASSUME SetInv, UNCHANGED <<input, kind, count, actr, atag, elem>>, drops \subseteq drops',
         step' # "entry", step = "entry" => todo = {}
  PROVE  SlotInv'
<1>1. \A s, c : Holds(s, c)' <=> Holds(s, c)
  BY DEF Holds, InRow, InPool, Pooled, PoolSlot
<1>2. \A j : Scattered(j) /\ Scattered(j)'
  BY DEF Scattered
<1>3. \A c \in BucketIds, s \in SlotIds : Holds(s, c)' =>
        elem'[s] \in DOMAIN input' /\ ~(step' = "entry" /\ elem'[s] \in todo') /\ input'[elem'[s]].bucket = c
  BY <1>1 DEF SetInv, SlotInv
<1>4. \A c, d \in BucketIds, s, t \in SlotIds :
        Holds(s, c)' /\ Holds(t, d)' /\ elem'[s] = elem'[t] => s = t
  BY <1>1 DEF SetInv, SlotInv
<1>5. (\A i \in DOMAIN input : Scattered(i) =>
         "entry" \in drops \/ \E s \in SlotIds : Holds(s, input[i].bucket) /\ elem[s] = i)'
  <2>1. \A i \in DOMAIN input : "entry" \in drops \/ \E s \in SlotIds : Holds(s, input[i].bucket) /\ elem[s] = i
    BY <1>2 DEF SetInv, SlotInv
  <2>2. \A i \in DOMAIN input' : "entry" \in drops' \/ \E s \in SlotIds : Holds(s, input'[i].bucket) /\ elem'[s] = i
    BY <2>1
  <2> QED BY <1>1, <2>2
<1> QED BY <1>3, <1>4, <1>5 DEF SlotInv, Scattered

LEMMA EntryEndsSets == ASSUME SetInv, EntryEnds PROVE SetInv'
<1>1. /\ step = "entry" /\ todo = {} /\ step' = "link"
      /\ todo' = IF kind.arena THEN 0 .. Pooled - 1 ELSE {}
      /\ UNCHANGED <<input, kind, count, elem, actr, atag, ahead, anext, drops>>
  BY DEF EntryEnds, inputVars, setVars
<1>2. SetTypes
  BY DEF SetInv
<1>3. Pooled' = Pooled /\ Pooled \in Nat
  BY <1>1, <1>2, PooledFits DEF Pooled
<1>4. SlotInv'
  BY <1>1, HoldsKept
<1>5. ~kind.arena => 0 .. Pooled - 1 = {}
  <2> SUFFICES ASSUME ~kind.arena PROVE 0 .. Pooled - 1 = {}
    OBVIOUS
  <2>1. Pooled = 0
    BY <1>2, InSizes DEF SetTypes, Pooled
  <2> QED BY <2>1
<1>6. Linked = {} /\ Linked' = {}
  BY <1>1, <1>3, <1>5 DEF Linked
<1>7. \A c : LinkedTo(c) = {} /\ LinkedTo(c)' = {}
  BY <1>6 DEF LinkedTo
<1>8. PoolInv'
  BY <1>1, <1>6, <1>7 DEF PoolInv, SetInv
<1>9. SetTypes'
  BY <1>1, <1>2, <1>3 DEF SetTypes
<1> QED BY <1>4, <1>8, <1>9 DEF SetInv

LEMMA ArenaLinkSets == ASSUME SetInv, NEW i \in todo, ArenaLink(i) PROVE SetInv'
<1> DEFINE b == atag[i]
<1>1. /\ step = "link" /\ step' = step /\ todo' = todo \ {i}
      /\ anext' = [anext EXCEPT ![i] = ahead[b]] /\ ahead' = [ahead EXCEPT ![b] = i]
      /\ UNCHANGED <<input, kind, count, elem, actr, atag, drops>>
  BY DEF ArenaLink, inputVars
<1>2. SetTypes
  BY DEF SetInv
<1>3. Pooled' = Pooled /\ i \in 0 .. Pooled - 1 /\ i \in PoolIds /\ b \in BucketIds
  <2>1. Pooled' = Pooled
    BY <1>1 DEF Pooled
  <2>2. i \in 0 .. Pooled - 1
    BY <1>1, <1>2 DEF SetTypes
  <2> QED BY <1>2, <2>1, <2>2, PooledFits DEF SetTypes
<1>4. SlotInv'
  BY <1>1, HoldsKept
<1>5. i \notin Linked /\ Linked' = Linked \cup {i}
  BY <1>1, <1>3 DEF Linked
<1>6. Linked \subseteq PoolIds
  BY <1>1, <1>2, PooledFits DEF Linked
<1>7. anext'[i] = ahead[b] /\ \A a \in PoolIds : a # i => anext'[a] = anext[a]
  BY <1>1, <1>2, <1>3 DEF SetTypes
<1>8. ahead'[b] = i /\ \A c \in BucketIds : c # b => ahead'[c] = ahead[c]
  BY <1>1, <1>2, <1>3 DEF SetTypes
<1>9. ASSUME NEW c \in BucketIds PROVE ChainIs(LinkedTo(c)', ahead'[c], anext')
  <2>1. ChainIs(LinkedTo(c), ahead[c], anext)
    BY DEF SetInv, PoolInv
  <2>2. \A a \in LinkedTo(c) : a # i /\ anext'[a] = anext[a]
    BY <1>5, <1>6, <1>7 DEF LinkedTo
  <2>3. CASE c = b
    <3>1. LinkedTo(c)' = LinkedTo(c) \cup {i}
      BY <1>1, <1>5, <2>3 DEF LinkedTo
    <3>2. i \notin LinkedTo(c)
      BY <2>2
    <3>3. PICK S, h, nx, mx : S = LinkedTo(c) /\ h = ahead[c] /\ nx = anext /\ mx = anext'
      OBVIOUS
    <3>4. mx[i] = h /\ \A a \in S : mx[a] = nx[a]
      BY <1>7, <2>2, <2>3, <3>3
    <3>5. ChainIs(S \cup {i}, i, mx)
      BY <2>1, <3>2, <3>3, <3>4, ChainGrows
    <3> QED BY <1>8, <2>3, <3>1, <3>3, <3>5
  <2>4. CASE c # b
    <3>1. LinkedTo(c)' = LinkedTo(c)
      BY <1>1, <1>5, <2>4 DEF LinkedTo
    <3>2. PICK S, h, nx, mx : S = LinkedTo(c) /\ h = ahead[c] /\ nx = anext /\ mx = anext'
      OBVIOUS
    <3>3. ChainIs(S, h, mx)
      BY <2>1, <2>2, <3>2, ChainKept
    <3> QED BY <1>8, <2>4, <3>1, <3>2, <3>3
  <2> QED BY <2>3, <2>4
<1>10. \A a \in PoolIds \ Linked' : anext'[a] = None
  BY <1>5, <1>7 DEF SetInv, PoolInv
<1>11. PoolInv'
  <2>1. (\A c \in BucketIds : ChainIs(LinkedTo(c), ahead[c], anext))'
    BY <1>9
  <2> QED BY <1>10, <2>1 DEF PoolInv
<1>12. anext' \in [PoolIds -> {None} \cup PoolIds] /\ ahead' \in [BucketIds -> {None} \cup PoolIds]
  <2>1. ahead[b] \in {None} \cup PoolIds
    BY <1>2, <1>3 DEF SetTypes
  <2> QED BY <1>1, <1>2, <1>3, <2>1 DEF SetTypes
<1>13. SetTypes'
  <2>1. todo' \subseteq 0 .. Pooled' - 1
    BY <1>1, <1>2, <1>3 DEF SetTypes
  <2> QED BY <1>1, <1>2, <1>12, <2>1 DEF SetTypes
<1> QED BY <1>4, <1>11, <1>13 DEF SetInv

\* Once every entry is linked, the set stays as it is.
LEMMA SetsKept ==
  ASSUME SetInv, UNCHANGED <<input, kind, count, elem, actr, atag, ahead, anext, todo>>,
         drops \subseteq drops', step' = "block", step \in {"link", "block"}, todo = {}
  PROVE  SetInv'
<1>1. SlotInv'
  BY HoldsKept
<1>2. Pooled' = Pooled
  BY DEF Pooled
<1>3. Linked' = Linked
  BY <1>2 DEF Linked
<1>4. \A c : LinkedTo(c)' = LinkedTo(c)
  BY <1>3 DEF LinkedTo
<1>5. PoolInv'
  BY <1>3, <1>4 DEF PoolInv, SetInv
<1>6. SetTypes'
  BY DEF SetTypes, SetInv
<1> QED BY <1>1, <1>5, <1>6 DEF SetInv

LEMMA LaunchSets == ASSUME SetInv, NEW b \in Blocks, LaunchBlock(b) PROVE SetInv'
BY SetsKept DEF LaunchBlock, inputVars, setVars

LEMMA SetInit == RoundInit => SetInv
<1> SUFFICES ASSUME RoundInit PROVE SetInv
  OBVIOUS
<1>1. /\ input \in Elements /\ kind \in Kinds /\ step = "entry" /\ todo = DOMAIN input
      /\ count = [b \in BucketIds |-> 0] /\ elem = [s \in SlotIds |-> 0] /\ actr = 0
      /\ atag = [a \in PoolIds |-> 0] /\ ahead = [b \in BucketIds |-> None]
      /\ anext = [a \in PoolIds |-> None] /\ drops = {}
  BY DEF RoundInit, InitSet, BucketIds, SlotIds, PoolIds
<1>2. SetTypes
  <2>1. 0 \in BucketIds
    BY InSizes DEF BucketIds
  <2> QED BY <1>1, <2>1 DEF SetTypes
<1>3. \A s, c : c \in BucketIds => ~Holds(s, c)
  <2> SUFFICES ASSUME NEW s, NEW c \in BucketIds, Holds(s, c) PROVE FALSE
    OBVIOUS
  <2>1. count[c] = 0
    BY <1>1
  <2>2. Pooled = 0
    BY <1>1, InSizes DEF Pooled
  <2>3. ~InRow(s, c)
    BY <2>1, InSizes DEF InRow
  <2>4. ~InPool(s, c)
    BY <2>2 DEF InPool
  <2> QED BY <2>3, <2>4 DEF Holds
<1>4. SlotInv
  <2>1. \A i \in DOMAIN input : ~Scattered(i)
    BY <1>1 DEF Scattered
  <2> QED BY <1>3, <2>1 DEF SlotInv
<1>5. PoolInv
  <2>1. Linked = {}
    BY <1>1 DEF Linked
  <2>2. \A c : LinkedTo(c) = {}
    BY <2>1 DEF LinkedTo
  <2>3. \A c \in BucketIds : ahead[c] = None
    BY <1>1
  <2>4. \A a \in PoolIds : anext[a] = None
    BY <1>1
  <2> QED BY <2>2, <2>3, <2>4, ChainEmpty DEF PoolInv
<1> QED BY <1>2, <1>4, <1>5 DEF SetInv

(***************************************************************************)
(* The block's memory and its lanes.                                       *)
(***************************************************************************)
LanePlaces == {"fetch", "fetched", "clear", "cleared", "census", "censused", "stage", "staged", "decide",
           "zeroed", "tally", "tallied", "choose", "chosen", "compact", "compacted", "chain",
           "chained", "walk", "passed", "done"}
LaneRec == [at : LanePlaces, rest : SUBSET Nat, xb : 0 .. MaxSpill, xp : Nat, parts : Nat,
            counted : BOOLEAN, oth : {None} \cup FPos, walk : Nat]
LaneTypes == lane \in [LaneIds -> LaneRec]
BlockTypes ==
  /\ block \in Blocks /\ aidx \in Seq(PoolIds) /\ gcount \in Nat
  /\ tab \in [Slots -> [n : Nat, head : {None} \cup FPos]]
  /\ lchain \in [FPos -> {None} \cup FPos]
  /\ staged \in [FPos -> SlotIds]
  /\ mlist \subseteq FPos /\ built \subseteq FPos
  /\ kind.mfirst => \A pos \in FPos : lchain[pos] # None => lchain[pos] < pos

\* What a step leaves of the lanes: all others, and which part of the group l is at.
Others(l) == \A k \in LaneIds : k # l => lane'[k] = lane[k]
SamePass(l) == /\ lane'[l].xb = lane[l].xb /\ lane'[l].xp = lane[l].xp
               /\ lane'[l].parts = lane[l].parts /\ lane'[l].counted = lane[l].counted

LEMMA RecFields ==
  ASSUME NEW r \in LaneRec
  PROVE  /\ r.at \in LanePlaces /\ r.rest \in SUBSET Nat /\ r.xb \in 0 .. MaxSpill /\ r.xp \in Nat
         /\ r.parts \in Nat /\ r.counted \in BOOLEAN /\ r.oth \in {None} \cup FPos /\ r.walk \in Nat
BY DEF LaneRec

LEMMA RecAt ==
  ASSUME NEW r \in LaneRec, NEW place \in LanePlaces, NEW q, q = [r EXCEPT !.at = place]
  PROVE  /\ q \in LaneRec /\ q.at = place /\ q.rest = r.rest /\ q.oth = r.oth /\ q.walk = r.walk
         /\ q.xb = r.xb /\ q.xp = r.xp /\ q.parts = r.parts /\ q.counted = r.counted
BY DEF LaneRec

LEMMA RecRest ==
  ASSUME NEW r \in LaneRec, NEW rest \in SUBSET Nat, NEW q, q = [r EXCEPT !.rest = rest]
  PROVE  /\ q \in LaneRec /\ q.at = r.at /\ q.rest = rest /\ q.oth = r.oth /\ q.walk = r.walk
         /\ q.xb = r.xb /\ q.xp = r.xp /\ q.parts = r.parts /\ q.counted = r.counted
BY DEF LaneRec

LEMMA GoEffect ==
  ASSUME LaneTypes, NEW l \in LaneIds, NEW place \in LanePlaces, Go(l, place)
  PROVE  /\ LaneTypes' /\ Others(l) /\ SamePass(l)
         /\ lane'[l].at = place /\ lane'[l].rest = lane[l].rest /\ lane'[l].oth = lane[l].oth
<1>1. PICK r \in LaneRec : r = lane[l]
  BY DEF LaneTypes
<1>2. PICK q : q = [r EXCEPT !.at = place]
  OBVIOUS
<1>3. lane' = [lane EXCEPT ![l] = q]
  BY <1>1, <1>2 DEF Go
<1>4. q \in LaneRec /\ q.at = place /\ q.rest = r.rest /\ q.oth = r.oth
      /\ q.xb = r.xb /\ q.xp = r.xp /\ q.parts = r.parts /\ q.counted = r.counted
  BY <1>2, RecAt
<1>5. lane'[l] = q /\ Others(l) /\ LaneTypes'
  BY <1>3, <1>4 DEF LaneTypes, Others
<1> QED BY <1>1, <1>4, <1>5 DEF SamePass

LEMMA TickEffect ==
  ASSUME LaneTypes, NEW l \in LaneIds, NEW x, Tick(l, x)
  PROVE  /\ LaneTypes' /\ Others(l) /\ SamePass(l)
         /\ lane'[l].at = lane[l].at /\ lane'[l].rest = lane[l].rest \ {x} /\ lane'[l].oth = lane[l].oth
<1>1. PICK r \in LaneRec : r = lane[l]
  BY DEF LaneTypes
<1>2. PICK rest \in SUBSET Nat : rest = r.rest \ {x}
  BY RecFields
<1>3. PICK q : q = [r EXCEPT !.rest = rest]
  OBVIOUS
<1>4. lane' = [lane EXCEPT ![l] = q]
  BY <1>1, <1>2, <1>3 DEF Tick
<1>5. q \in LaneRec /\ q.at = r.at /\ q.rest = rest /\ q.oth = r.oth
      /\ q.xb = r.xb /\ q.xp = r.xp /\ q.parts = r.parts /\ q.counted = r.counted
  BY <1>3, RecRest
<1>6. lane'[l] = q /\ Others(l) /\ LaneTypes'
  BY <1>4, <1>5 DEF LaneTypes, Others
<1> QED BY <1>1, <1>2, <1>5, <1>6 DEF SamePass

PassedOn(r) == [r EXCEPT !.at = "clear", !.xp = r.xp + 1]

NextPart(r, q) ==
  /\ q \in LaneRec /\ q.at = "clear" /\ q.rest = r.rest /\ q.oth = r.oth
  /\ q.xb = r.xb /\ q.xp = r.xp + 1 /\ q.parts = r.parts /\ q.counted = r.counted

LEMMA RecPassed == ASSUME NEW r \in LaneRec PROVE NextPart(r, PassedOn(r))
<1>1. r.xp + 1 \in Nat
  BY DEF LaneRec
<1>2. PICK q : q = [r EXCEPT !.at = "clear", !.xp = r.xp + 1]
  OBVIOUS
<1>3. /\ q \in LaneRec /\ q.at = "clear" /\ q.rest = r.rest /\ q.oth = r.oth
      /\ q.xb = r.xb /\ q.xp = r.xp + 1 /\ q.parts = r.parts /\ q.counted = r.counted
  BY <1>1, <1>2 DEF LaneRec, LanePlaces
<1>4. PassedOn(r) = q
  BY <1>2, Zenon DEF PassedOn
<1>5. NextPart(r, q)
  BY <1>3, Zenon DEF NextPart
<1> QED BY <1>4, <1>5, Zenon

\* A lane becomes q, the others stay.
LEMMA OneLane ==
  ASSUME LaneTypes, NEW l \in LaneIds, NEW q \in LaneRec, lane' = [lane EXCEPT ![l] = q]
  PROVE  lane'[l] = q /\ Others(l) /\ LaneTypes'
BY DEF LaneTypes, Others

\* What a barrier does to the lanes.
Moved(place) ==
  \A l \in LaneIds : /\ lane'[l].at = place /\ SamePass(l)
                     /\ lane'[l].rest = lane[l].rest /\ lane'[l].oth = lane[l].oth

LEMMA SyncMoves ==
  ASSUME LaneTypes, NEW place \in LanePlaces,
         lane' = [l \in LaneIds |-> [lane[l] EXCEPT !.at = place]]
  PROVE  LaneTypes' /\ Moved(place)
<1>1. ASSUME NEW l \in LaneIds
      PROVE  /\ lane'[l] \in LaneRec /\ lane'[l].at = place /\ SamePass(l)
             /\ lane'[l].rest = lane[l].rest /\ lane'[l].oth = lane[l].oth
  <2>1. PICK r \in LaneRec : r = lane[l]
    BY DEF LaneTypes
  <2>2. PICK q : q = [r EXCEPT !.at = place]
    OBVIOUS
  <2>3. q \in LaneRec /\ q.at = place /\ q.rest = r.rest /\ q.oth = r.oth
        /\ q.xb = r.xb /\ q.xp = r.xp /\ q.parts = r.parts /\ q.counted = r.counted
    BY <2>2, RecAt
  <2>4. lane'[l] = q
    BY <2>1, <2>2
  <2> QED BY <2>1, <2>3, <2>4 DEF SamePass
<1>2. LaneTypes'
  BY <1>1 DEF LaneTypes
<1> QED BY <1>1, <1>2 DEF Moved

LEMMA SyncLoops ==
  ASSUME LaneTypes, NEW place \in LanePlaces, NEW R, \A l \in LaneIds : R[l] \in SUBSET Nat,
         lane' = [l \in LaneIds |-> [lane[l] EXCEPT !.at = place, !.rest = R[l]]]
  PROVE  /\ LaneTypes'
         /\ \A l \in LaneIds : /\ lane'[l].at = place /\ SamePass(l)
                               /\ lane'[l].rest = R[l] /\ lane'[l].oth = lane[l].oth
<1>1. ASSUME NEW l \in LaneIds
      PROVE  /\ lane'[l] \in LaneRec /\ lane'[l].at = place /\ SamePass(l)
             /\ lane'[l].rest = R[l] /\ lane'[l].oth = lane[l].oth
  <2>1. PICK r \in LaneRec : r = lane[l]
    BY DEF LaneTypes
  <2>2. PICK rest \in SUBSET Nat : rest = R[l]
    OBVIOUS
  <2>3. PICK q : q = [r EXCEPT !.at = place, !.rest = rest]
    OBVIOUS
  <2>4. q \in LaneRec /\ q.at = place /\ q.rest = rest /\ q.oth = r.oth
        /\ q.xb = r.xb /\ q.xp = r.xp /\ q.parts = r.parts /\ q.counted = r.counted
    BY <2>3 DEF LaneRec
  <2>5. lane'[l] = q
    BY <2>1, <2>2, <2>3
  <2> QED BY <2>1, <2>2, <2>4, <2>5 DEF SamePass
<1>2. LaneTypes'
  BY <1>1 DEF LaneTypes
<1> QED BY <1>1, <1>2

AllPass == lane' = [l \in LaneIds |-> [lane[l] EXCEPT !.at = "clear", !.xp = @ + 1]]

LEMMA SyncPasses ==
  ASSUME LaneTypes, AllPass
  PROVE  /\ LaneTypes'
         /\ \A l \in LaneIds : /\ lane'[l].at = "clear" /\ lane'[l].xb = lane[l].xb
                               /\ lane'[l].xp = lane[l].xp + 1 /\ lane'[l].parts = lane[l].parts
                               /\ lane'[l].counted = lane[l].counted /\ lane'[l].oth = lane[l].oth
<1>1. ASSUME NEW l \in LaneIds
      PROVE  /\ lane'[l] \in LaneRec /\ lane'[l].at = "clear" /\ lane'[l].xb = lane[l].xb
             /\ lane'[l].xp = lane[l].xp + 1 /\ lane'[l].parts = lane[l].parts
             /\ lane'[l].counted = lane[l].counted /\ lane'[l].oth = lane[l].oth
  <2>1. lane[l] \in LaneRec
    BY DEF LaneTypes
  <2>2. lane'[l] = PassedOn(lane[l])
    BY DEF AllPass, PassedOn
  <2>3. NextPart(lane[l], PassedOn(lane[l]))
    BY <2>1, RecPassed, Zenon
  <2>4. NextPart(lane[l], lane'[l])
    BY <2>2, <2>3, Zenon
  <2> QED BY <2>4, Zenon DEF NextPart
<1>2. LaneTypes'
  <2>1. lane' = [l \in LaneIds |-> lane'[l]]
    BY DEF AllPass
  <2>2. \A l \in LaneIds : lane'[l] \in LaneRec
    BY <1>1, Zenon
  <2> QED BY <2>1, <2>2, Zenon DEF LaneTypes
<1> QED BY <1>1, <1>2, Zenon

Quiet == step # "block" => lane = [l \in LaneIds |-> Fresh] /\ out = {} /\ aidx = <<>>

\* Positions of the bucket's elements, once the pool's are taken.
Fetched == step = "block" /\ (kind.arena => lane[0].at # "fetch")
MembersInv ==
  Fetched =>
    /\ \A p \in Members : SlotOf(p) \in SlotIds /\ Holds(SlotOf(p), block.bucket)
    /\ \A p, r \in Members : SlotOf(p) = SlotOf(r) => p = r
    /\ drops = {} => \A s \in SlotIds : Holds(s, block.bucket) => \E p \in Members : SlotOf(p) = s

(***************************************************************************)
(* A pass.  Between two barriers the lanes are in one phase, and agree on  *)
(* the part of the group they are at.                                      *)
(***************************************************************************)
All(places) == \A l \in LaneIds : lane[l].at \in places
IsWhole(l) == lane[l].counted = FALSE /\ lane[l].xb = 0 /\ lane[l].xp = 0 /\ lane[l].parts = 1
IsPart(l) == /\ lane[l].counted = TRUE /\ lane[l].xb \in 1 .. MaxSpill
             /\ lane[l].parts = 2 ^ lane[l].xb /\ lane[l].xp < lane[l].parts
Agree ==
  /\ \A l \in LaneIds : /\ lane[l].xb = lane[0].xb /\ lane[l].xp = lane[0].xp
                        /\ lane[l].parts = lane[0].parts /\ lane[l].counted = lane[0].counted
  /\ IsWhole(0) \/ IsPart(0)
NoWalk == \A l \in LaneIds : lane[l].oth = None
SlotKey(p) == TabSlot(KeyOf(p))
PosSlot(pos) == TabSlot(PosKey(pos))
Alone(p) == \A r \in Members : InPass(0, r) /\ SlotKey(r) = SlotKey(p) => r = p

Clearing ==
  /\ All({"fetch", "fetched", "clear", "cleared"}) /\ Agree /\ NoWalk
  /\ kind.arena => All({"fetch", "fetched"}) \/ All({"clear", "cleared"})
  /\ ~kind.arena => All({"fetch", "clear", "cleared"})
  /\ \A l \in LaneIds : lane[l].at \in {"fetch", "fetched"} => IsWhole(l)
  /\ \A l \in LaneIds : lane[l].at = "cleared" =>
       \A h \in Slots : h % Lanes = l => tab[h] = EmptySlot
  /\ lane[0].at = "cleared" => gcount = 0 /\ mlist = {}

Counted(h) == {p \in Members : InPass(0, p) /\ SlotKey(p) = h /\ lane[p % Lanes].at = "censused"}
Censusing ==
  /\ All({"census", "censused"}) /\ Agree /\ NoWalk
  /\ kind.solo /\ gcount = 0 /\ mlist = {}
  /\ \A h \in Slots : tab[h].head = None /\ tab[h].n = Cardinality(Counted(h))

\* The group's elements are staged but those a lane has yet to reach and those alone.
Pending(p) == lane[p % Lanes].at = "stage" /\ p \in lane[p % Lanes].rest
StagedInv ==
  /\ \A pos \in Positions : \E p \in Members : InPass(0, p) /\ ~Pending(p) /\ staged[pos] = SlotOf(p)
  /\ \A pos, other \in Positions : staged[pos] = staged[other] => pos = other
  /\ gcount <= FCap => \A p \in Members : InPass(0, p) =>
       Pending(p) \/ Alone(p) \/ \E pos \in Positions : staged[pos] = SlotOf(p)
InSlot(S, h) == {pos \in S : PosSlot(pos) = h}
TabChains(S) == \A h \in Slots : ChainIs(InSlot(S, h), tab[h].head, lchain)
Staging ==
  /\ All({"stage", "staged"}) /\ Agree /\ NoWalk
  /\ \A l \in LaneIds : lane[l].at = "stage" =>
       \A p \in lane[l].rest : p \in Members /\ InPass(0, p) /\ p % Lanes = l
  /\ StagedInv /\ mlist = {}
  /\ TabChains(IF kind.mfirst THEN Positions ELSE {})

Unchained(pos) ==
  LET me == lane[pos % Lanes] IN me.at \notin {"chain", "chained"} \/ (me.at = "chain" /\ pos \in me.rest)
Multi(pos) == \E other \in Positions : other # pos /\ PosSlot(other) = PosSlot(pos)
Formed == {"compact", "compacted", "chain", "chained"}
Forming ==
  /\ All({"decide", "zeroed"} \cup Formed) /\ Agree /\ NoWalk /\ StagedInv
  /\ (\E l \in LaneIds : lane[l].at = "zeroed") => All({"decide", "zeroed"}) /\ gcount > FCap /\ IsWhole(0)
  /\ (\E l \in LaneIds : lane[l].at \in Formed) => gcount <= FCap \/ lane[0].counted = TRUE
  /\ lane[0].at \in Formed /\ gcount > FCap => "stage" \in drops
  /\ kind.mfirst => All({"chain", "chained"}) \/ All({"decide", "zeroed", "compact", "compacted"})
  /\ ~kind.mfirst => All({"decide", "zeroed", "chain", "chained"})
  /\ TabChains(IF kind.mfirst THEN Positions ELSE {pos \in Positions : ~Unchained(pos)})
  /\ mlist \subseteq Positions
  /\ kind.mfirst => \A pos \in Positions :
       Multi(pos) /\ lane[PosSlot(pos) % Lanes].at \in {"compacted", "chain", "chained"} => pos \in mlist
  /\ \A l \in LaneIds : lane[l].at = "chain" => \A pos \in lane[l].rest : pos \in Positions /\ pos % Lanes = l
  /\ \A pos \in Positions : Multi(pos) /\ ~Unchained(pos) => pos \in built
Tallying == All({"tally", "tallied"}) /\ NoWalk /\ \A l \in LaneIds : IsWhole(l)
Choosing ==
  /\ All({"choose", "chosen"}) /\ NoWalk
  /\ \A l \in LaneIds : lane[l].at = "choose" => IsWhole(l)
  /\ \A l \in LaneIds : lane[l].at = "chosen" =>
       /\ lane[l].xb = SplitLevel(cnt8) /\ lane[l].xp = 0
       /\ lane[l].parts = 2 ^ lane[l].xb /\ lane[l].counted = TRUE

\* What a lane at an element has yet to emit: from its place on the chain on.
HasChild(s, t) == \E c \in out : {c.left, c.right} = {s, t}
Under(pos) == lane[pos % Lanes].at = "walk" /\ pos \in lane[pos % Lanes].rest
AtHand(pos) == Under(pos) /\ lane[pos % Lanes].oth # None /\ pos = Min(lane[pos % Lanes].rest)
ToDo(w, i, j) ==
  /\ Under(w[i])
  /\ AtHand(w[i]) => \E k \in i + 1 .. j : w[k] = lane[w[i] % Lanes].oth
Walked(n, w) ==
  \A i, j \in 1 .. n : i < j =>
    /\ ToDo(w, i, j) => ~HasChild(staged[w[i]], staged[w[j]])
    /\ ~ToDo(w, i, j) => drops # {} \/ HasChild(staged[w[i]], staged[w[j]])
Ahead(n, w) ==
  \A i \in 1 .. n : AtHand(w[i]) => \E k \in i + 1 .. n : w[k] = lane[w[i] % Lanes].oth
WalkChain(h) ==
  \E n \in Nat : \E w \in [1 .. n -> InSlot(Positions, h)] :
    /\ Lists(n, w, InSlot(Positions, h)) /\ IsChain(n, w, tab[h].head, lchain)
    /\ Walked(n, w) /\ Ahead(n, w)
Walking ==
  /\ All({"walk", "passed", "done"}) /\ Agree /\ StagedInv
  /\ gcount > FCap => "stage" \in drops
  /\ \A l \in LaneIds : lane[l].at = "walk" =>
       /\ \A pos \in lane[l].rest : pos \in Positions /\ pos % Lanes = l /\ lchain[pos] # None
       /\ lane[l].oth # None => lane[l].rest # {}
  /\ \A l \in LaneIds : lane[l].at = "passed" => lane[l].oth = None /\ ~LastPass(l)
  /\ \A l \in LaneIds : lane[l].at = "done" => LastPass(l)
  /\ \A pos \in Positions : Multi(pos) => pos \in built
  /\ \A h \in Slots : WalkChain(h)

PhaseInv ==
  step = "block" => \/ Clearing \/ Censusing \/ Staging \/ Forming \/ Tallying \/ Choosing \/ Walking

(***************************************************************************)
(* The children: of two elements of one key, of a part already passed or   *)
(* of the one being walked; and, unless something was counted as lost, of  *)
(* every two of the parts passed.                                          *)
(***************************************************************************)
Twins(p, r) == p # r /\ KeyOf(p) = KeyOf(r) /\ SubMask(KeyOf(p)) = block.mask
PartOf(p) == Part(KeyOf(p), lane[0].xb)
Emitting == lane[0].at \in {"walk", "passed", "done"}
ChildInv ==
  \A c \in out :
    /\ c.whole
    /\ \E p, r \in Members :
         /\ Twins(p, r) /\ {c.left, c.right} = {SlotOf(p), SlotOf(r)}
         /\ PartOf(p) < lane[0].xp \/ (PartOf(p) = lane[0].xp /\ Emitting)
PassedInv ==
  Fetched /\ drops = {} =>
    \A p, r \in Members : Twins(p, r) /\ PartOf(p) < lane[0].xp => HasChild(SlotOf(p), SlotOf(r))
OnceInv == IsFiniteSet(out) /\ \A c, d \in out : {c.left, c.right} = {d.left, d.right} => c = d
FirstInv == IsWhole(0) /\ ~Emitting => out = {}
MadeInv == OnceInv /\ ChildInv /\ PassedInv /\ FirstInv

RoundInv ==
  SetInv /\ BlockTypes /\ LaneTypes /\ Quiet /\ MembersInv /\ PhaseInv /\ MadeInv

LEMMA LanesAre == /\ Lanes \in Nat \ {0} /\ 0 \in LaneIds /\ LaneIds \subseteq Nat
                  /\ \A p \in Nat : p % Lanes \in LaneIds
<1>1. Lanes \in Nat \ {0}
  BY FusedRoundAssumption DEF FusedRoundAssumption
<1>2. \A p \in Nat : p % Lanes \in 0 .. Lanes - 1
  BY <1>1
<1> QED BY <1>1, <1>2 DEF LaneIds

LEMMA FSizes == FCap \in Nat \ {0} /\ AMax \in Nat \ {0} /\ MaxSpill \in Nat \ {0} /\ TabBits \in Nat
                /\ FPos \subseteq Nat
<1>1. FCap \in Nat \ {0} /\ AMax \in Nat \ {0} /\ TabBits \in Nat
  BY FusedRoundAssumption DEF FusedRoundAssumption
<1>2. MaxSpill \in 1 .. TabBits
  BY FusedRoundAssumption DEF FusedRoundAssumption
<1> QED BY <1>1, <1>2 DEF FPos

LEMMA DenseIs ==
  ASSUME SetInv, block \in Blocks
  PROVE  /\ block.bucket \in BucketIds /\ count[block.bucket] \in Nat
         /\ Dense \in Nat /\ Dense <= InCap /\ Dense <= count[block.bucket]
         /\ \A p \in 0 .. InCap - 1 : p < count[block.bucket] <=> p < Dense
<1>1. block.bucket \in BucketIds
  BY DEF Blocks, BucketIds
<1>2. PICK n \in Nat : n = count[block.bucket]
  BY <1>1 DEF SetInv, SetTypes
<1>3. InCap \in Nat \ {0}
  BY InSizes
<1>4. /\ Min({n, InCap}) \in Nat /\ Min({n, InCap}) <= n /\ Min({n, InCap}) <= InCap
      /\ Min({n, InCap}) \in {n, InCap}
  BY <1>3, MinOfTwo
<1>5. Dense = Min({n, InCap})
  BY <1>2 DEF Dense
<1>6. PICK d \in Nat : d = Dense /\ d <= n /\ d <= InCap /\ (d = n \/ d = InCap)
  BY <1>4, <1>5
<1>7. \A p \in 0 .. InCap - 1 : p < n <=> p < d
  BY <1>3, <1>6
<1> QED BY <1>1, <1>2, <1>6, <1>7

\* The members a block has once its pool entries are q.
LEMMA MembersAre ==
  SetInv /\ block \in Blocks /\ aidx \in Seq(PoolIds)
  /\ (\A i \in 1 .. Len(aidx) : aidx[i] \in 0 .. Pooled - 1 /\ atag[aidx[i]] = block.bucket)
  /\ (\A i, j \in 1 .. Len(aidx) : aidx[i] = aidx[j] => i = j)
  => /\ \A p \in Members : SlotOf(p) \in SlotIds /\ Holds(SlotOf(p), block.bucket)
     /\ \A p, r \in Members : SlotOf(p) = SlotOf(r) => p = r
     /\ (\A a \in 0 .. Pooled - 1 : atag[a] = block.bucket => \E i \in 1 .. Len(aidx) : aidx[i] = a) =>
          \A s \in SlotIds : Holds(s, block.bucket) => \E p \in Members : SlotOf(p) = s
<1> SUFFICES ASSUME SetInv, block \in Blocks, aidx \in Seq(PoolIds),
                    \A i \in 1 .. Len(aidx) : aidx[i] \in 0 .. Pooled - 1 /\ atag[aidx[i]] = block.bucket,
                    \A i, j \in 1 .. Len(aidx) : aidx[i] = aidx[j] => i = j
             PROVE  /\ \A p \in Members : SlotOf(p) \in SlotIds /\ Holds(SlotOf(p), block.bucket)
                    /\ \A p, r \in Members : SlotOf(p) = SlotOf(r) => p = r
                    /\ (\A a \in 0 .. Pooled - 1 :
                          atag[a] = block.bucket => \E i \in 1 .. Len(aidx) : aidx[i] = a) =>
                         \A s \in SlotIds : Holds(s, block.bucket) => \E p \in Members : SlotOf(p) = s
  OBVIOUS
<1>1. PICK b \in BucketIds : b = block.bucket
  BY DenseIs
<1>2. PICK d \in Nat : d = Dense /\ d <= InCap /\ \A p \in 0 .. InCap - 1 : p < count[b] <=> p < d
  BY <1>1, DenseIs
<1>3. PICK n \in Nat : n = Len(aidx)
  BY LenProperties
<1>4. Members = 0 .. d + n - 1
  BY <1>2, <1>3 DEF Members
<1>5. InCap \in Nat \ {0}
  BY InSizes
<1>6. \A i \in 1 .. n : aidx[i] \in PoolIds
  BY <1>3, PooledFits DEF SetInv
<1>7. ASSUME NEW p \in Members
      PROVE  \/ p \in 0 .. InCap - 1 /\ p < d /\ SlotOf(p) = b * InCap + p
             \/ p >= d /\ p - d + 1 \in 1 .. n /\ SlotOf(p) = PoolSlot(aidx[p - d + 1])
  <2>1. p \in 0 .. d + n - 1
    BY <1>4
  <2>2. CASE p < d
    <3>1. p \in 0 .. InCap - 1
      BY <1>2, <1>5, <2>1, <2>2
    <3> QED BY <1>1, <1>2, <2>2, <3>1 DEF SlotOf
  <2>3. CASE ~(p < d)
    <3>1. p >= d /\ p - d + 1 \in 1 .. n
      BY <2>1, <2>3
    <3> QED BY <1>2, <2>3, <3>1 DEF SlotOf
  <2> QED BY <2>2, <2>3
<1>8. ASSUME NEW p \in Members PROVE SlotOf(p) \in SlotIds /\ Holds(SlotOf(p), b)
  <2>1. CASE p \in 0 .. InCap - 1 /\ p < d /\ SlotOf(p) = b * InCap + p
    <3>1. InRow(SlotOf(p), b)
      BY <1>2, <2>1 DEF InRow
    <3> QED BY <2>1, <3>1, RowIsLow DEF Holds
  <2>2. CASE p - d + 1 \in 1 .. n /\ SlotOf(p) = PoolSlot(aidx[p - d + 1])
    <3>1. PICK a \in 0 .. Pooled - 1 : a = aidx[p - d + 1] /\ atag[a] = b /\ a \in PoolIds
      BY <1>1, <1>3, <1>6, <2>2
    <3>2. InPool(SlotOf(p), b)
      BY <2>2, <3>1 DEF InPool
    <3> QED BY <2>2, <3>1, <3>2, PoolIsHigh DEF Holds
  <2> QED BY <1>7, <2>1, <2>2
<1>9. ASSUME NEW p \in Members, NEW r \in Members, SlotOf(p) = SlotOf(r) PROVE p = r
  <2> DEFINE Dense1(x) == x \in 0 .. InCap - 1 /\ x < d /\ SlotOf(x) = b * InCap + x
             Pool1(x) == x >= d /\ x - d + 1 \in 1 .. n /\ SlotOf(x) = PoolSlot(aidx[x - d + 1])
  <2>1. (Dense1(p) \/ Pool1(p)) /\ (Dense1(r) \/ Pool1(r))
    BY <1>7
  <2>2. ASSUME NEW x, NEW y, Dense1(x), Pool1(y) PROVE SlotOf(x) # SlotOf(y)
    <3>1. aidx[y - d + 1] \in PoolIds
      BY <1>6, <2>2
    <3>2. PoolSlot(aidx[y - d + 1]) \in Nat /\ PoolSlot(aidx[y - d + 1]) >= Buckets * InCap
      BY <3>1, PoolIsHigh
    <3>3. b * InCap + x \in Nat /\ b * InCap + x < Buckets * InCap
      BY <2>2, RowIsLow
    <3> QED BY <2>2, <3>2, <3>3, InSizes
  <2>3. CASE Dense1(p) /\ Dense1(r)
    BY <1>9, <2>3, InRowsApart
  <2>4. CASE Pool1(p) /\ Pool1(r)
    <3>1. aidx[p - d + 1] \in PoolIds /\ aidx[r - d + 1] \in PoolIds
      BY <1>6, <2>4
    <3>2. aidx[p - d + 1] = aidx[r - d + 1]
      BY <1>9, <2>4, <3>1, PoolSlotsApart
    <3>3. p - d + 1 = r - d + 1
      BY <1>3, <2>4, <3>2
    <3> QED BY <1>4, <3>3
  <2> HIDE DEF Dense1, Pool1
  <2> QED BY <1>9, <2>1, <2>2, <2>3, <2>4
<1>10. ASSUME \A a \in 0 .. Pooled - 1 : atag[a] = b => \E i \in 1 .. Len(aidx) : aidx[i] = a,
              NEW s \in SlotIds, Holds(s, b)
       PROVE  \E p \in Members : SlotOf(p) = s
  <2>1. CASE InRow(s, b)
    <3>1. PICK p \in 0 .. InCap - 1 : p < count[b] /\ s = b * InCap + p
      BY <2>1 DEF InRow
    <3>2. p < d /\ p \in Members
      BY <1>2, <1>4, <1>5, <3>1
    <3>3. SlotOf(p) = s
      BY <1>1, <1>2, <3>1, <3>2 DEF SlotOf
    <3> QED BY <3>2, <3>3
  <2>2. CASE InPool(s, b)
    <3>1. PICK a \in 0 .. Pooled - 1 : atag[a] = b /\ s = PoolSlot(a)
      BY <2>2 DEF InPool
    <3>2. PICK i \in 1 .. n : aidx[i] = a
      BY <1>3, <1>10, <3>1
    <3>3. PICK p : p = d + i - 1
      OBVIOUS
    <3>4. p \in Members /\ ~(p < d) /\ p - d + 1 = i
      BY <1>4, <3>2, <3>3
    <3>5. SlotOf(p) = s
      BY <1>2, <3>1, <3>2, <3>4 DEF SlotOf
    <3> QED BY <3>4, <3>5
  <2> QED BY <1>10, <2>1, <2>2 DEF Holds
<1> QED BY <1>1, <1>8, <1>9, <1>10

LEMMA PoolTrails ==
  ASSUME SetInv, step = "block"
  PROVE  \A a \in PoolIds : \E n : \E w : Trail(n, w, a, anext, PoolIds)
<1> SUFFICES ASSUME NEW a \in PoolIds PROVE \E n : \E w : Trail(n, w, a, anext, PoolIds)
  OBVIOUS
<1>1. Linked = 0 .. Pooled - 1 /\ Linked \subseteq PoolIds
  BY PooledFits DEF Linked, SetInv
<1>2. CASE a \in Linked
  <2>1. PICK b \in BucketIds : b = atag[a]
    BY <1>1 DEF SetInv, SetTypes
  <2>2. ChainIs(LinkedTo(b), ahead[b], anext)
    BY DEF SetInv, PoolInv
  <2>3. PICK n \in Nat : \E w \in [1 .. n -> LinkedTo(b)] :
               Lists(n, w, LinkedTo(b)) /\ IsChain(n, w, ahead[b], anext)
    BY <2>2 DEF ChainIs
  <2>4. PICK w \in [1 .. n -> LinkedTo(b)] : Lists(n, w, LinkedTo(b)) /\ IsChain(n, w, ahead[b], anext)
    BY <2>3
  <2>5. PICK i \in 1 .. n : w[i] = a
    BY <1>2, <2>1, <2>4 DEF Lists, LinkedTo
  <2>6. w \in [1 .. n -> PoolIds] /\ n \in Nat \ {0}
    BY <1>1, <2>5 DEF LinkedTo
  <2>7. PICK nx : nx = anext
    OBVIOUS
  <2>8. Links(n, w, nx)
    BY <2>4, <2>7 DEF IsChain
  <2>9. \E m : \E v : Trail(m, v, w[i], nx, PoolIds)
    BY <2>6, <2>8, TrailEnds
  <2> QED BY <2>5, <2>7, <2>9
<1>3. CASE a \notin Linked
  <2>1. anext[a] = None
    BY <1>3 DEF SetInv, PoolInv
  <2>2. PICK w : w = [i \in 1 .. 1 |-> a]
    OBVIOUS
  <2>3. w \in [1 .. 1 -> PoolIds] /\ w[1] = a
    BY <2>2
  <2>4. Trail(1, w, a, anext, PoolIds)
    BY <2>1, <2>3 DEF Trail, Links
  <2> QED BY <2>4
<1> QED BY <1>2, <1>3

LEMMA PoolTaken ==
  ASSUME SetInv, step = "block", block \in Blocks
  PROVE  /\ PoolChain \in Seq(PoolIds)
         /\ \A i \in 1 .. Len(PoolChain) : PoolChain[i] \in LinkedTo(block.bucket)
         /\ \A i, j \in 1 .. Len(PoolChain) : PoolChain[i] = PoolChain[j] => i = j
         /\ \A a \in LinkedTo(block.bucket) : \E i \in 1 .. Len(PoolChain) : PoolChain[i] = a
<1>1. PICK b \in BucketIds : b = block.bucket
  BY DenseIs
<1>2. ChainIs(LinkedTo(b), ahead[b], anext)
  BY DEF SetInv, PoolInv
<1>3. PICK n \in Nat : \E w \in [1 .. n -> LinkedTo(b)] :
             Lists(n, w, LinkedTo(b)) /\ IsChain(n, w, ahead[b], anext)
  BY <1>2 DEF ChainIs
<1>4. PICK w \in [1 .. n -> LinkedTo(b)] : Lists(n, w, LinkedTo(b)) /\ IsChain(n, w, ahead[b], anext)
  BY <1>3
<1>5. LinkedTo(b) \subseteq PoolIds
  BY PooledFits DEF Linked, LinkedTo, SetInv
<1>6. w \in [1 .. n -> PoolIds]
  BY <1>5
<1>7. IsChain(n, w, ahead[block.bucket], anext)
  BY <1>1, <1>4
<1>8. anext \in [PoolIds -> {None} \cup PoolIds]
  BY DEF SetInv, SetTypes
<1>9. PoolChain \in Seq(PoolIds) /\ Len(PoolChain) = n /\ \A i \in 1 .. n : PoolChain[i] = w[i]
  BY <1>6, <1>7, <1>8, PoolTrails, PoolChainIs
<1> QED BY <1>1, <1>4, <1>9 DEF Lists, IsChain

\* The members a block takes of the pool: all, or the loss is counted.
LEMMA PoolCut ==
  ASSUME SetInv, step = "block", block \in Blocks, NEW q,
         q = SubSeq(PoolChain, 1, Min({Len(PoolChain), AMax}))
  PROVE  /\ q \in Seq(PoolIds)
         /\ \A i \in 1 .. Len(q) : q[i] \in LinkedTo(block.bucket)
         /\ \A i, j \in 1 .. Len(q) : q[i] = q[j] => i = j
         /\ ~(Len(PoolChain) > AMax) =>
              \A a \in LinkedTo(block.bucket) : \E i \in 1 .. Len(q) : q[i] = a
<1>1. PICK c \in Seq(PoolIds) : c = PoolChain
  BY PoolTaken
<1>2. PICK n \in Nat : n = Len(c)
  BY LenProperties
<1>3. PICK m \in Nat : m = Min({n, AMax}) /\ m <= n /\ (m = n \/ m = AMax)
  BY MinOfTwo, FSizes
<1>4. \A i \in 1 .. m : c[i] \in PoolIds
  BY <1>2, <1>3, ElementOfSeq
<1>5. q = SubSeq(c, 1, m)
  BY <1>1, <1>2, <1>3
<1>6. /\ SubSeq(c, 1, m) \in Seq(PoolIds)
      /\ Len(SubSeq(c, 1, m)) = IF 1 <= m THEN m - 1 + 1 ELSE 0
      /\ \A i \in 1 .. m - 1 + 1 : SubSeq(c, 1, m)[i] = c[1 + i - 1]
  BY <1>4, SubSeqProperties
<1>7. q \in Seq(PoolIds) /\ Len(q) = m /\ \A i \in 1 .. m : q[i] = c[i]
  <2>1. m - 1 + 1 = m /\ \A i \in 1 .. m : 1 + i - 1 = i
    BY <1>3
  <2>2. (IF 1 <= m THEN m - 1 + 1 ELSE 0) = m
    BY <1>3
  <2> QED BY <1>5, <1>6, <2>1, <2>2
<1>8. /\ \A i \in 1 .. n : c[i] \in LinkedTo(block.bucket)
      /\ \A i, j \in 1 .. n : c[i] = c[j] => i = j
      /\ \A a \in LinkedTo(block.bucket) : \E i \in 1 .. n : c[i] = a
  BY <1>1, <1>2, PoolTaken
<1>9. \A i \in 1 .. m : i \in 1 .. n
  BY <1>3
<1>10. ~(n > AMax) => m = n
  BY <1>3, FSizes
<1>11. \A i \in 1 .. Len(q) : q[i] \in LinkedTo(block.bucket)
  BY <1>7, <1>8, <1>9
<1>12. \A i, j \in 1 .. Len(q) : q[i] = q[j] => i = j
  <2> SUFFICES ASSUME NEW i \in 1 .. m, NEW j \in 1 .. m, q[i] = q[j] PROVE i = j
    BY <1>7
  <2>1. i \in 1 .. n /\ j \in 1 .. n /\ c[i] = c[j]
    BY <1>7, <1>9
  <2> QED BY <1>8, <2>1
<1>13. ~(n > AMax) => \A a \in LinkedTo(block.bucket) : \E i \in 1 .. Len(q) : q[i] = a
  BY <1>7, <1>8, <1>9, <1>10
<1>14. n = Len(PoolChain)
  BY <1>1, <1>2
<1> QED BY <1>7, <1>11, <1>12, <1>13, <1>14

LEMMA MemberTypes ==
  SetInv /\ BlockTypes /\ LaneTypes /\ MembersInv /\ Fetched =>
    \A p \in Members :
      /\ p \in Nat /\ SlotOf(p) \in SlotIds /\ elem[SlotOf(p)] \in DOMAIN input
      /\ input[elem[SlotOf(p)]].bucket = block.bucket
      /\ KeyOf(p) \in RoundKeys /\ SlotKey(p) \in Slots /\ PartOf(p) \in 0 .. 2 ^ lane[0].xb - 1
      /\ PartOf(p) \in Nat
<1> SUFFICES ASSUME SetInv, BlockTypes, LaneTypes, MembersInv, Fetched, NEW p \in Members
             PROVE  /\ p \in Nat /\ SlotOf(p) \in SlotIds /\ elem[SlotOf(p)] \in DOMAIN input
                    /\ input[elem[SlotOf(p)]].bucket = block.bucket
                    /\ KeyOf(p) \in RoundKeys /\ SlotKey(p) \in Slots
                    /\ PartOf(p) \in 0 .. 2 ^ lane[0].xb - 1
                    /\ PartOf(p) \in Nat
  OBVIOUS
<1>1. p \in Nat
  <2>1. Dense \in Nat /\ Len(aidx) \in Nat
    BY DenseIs, LenProperties DEF BlockTypes
  <2> QED BY <2>1 DEF Members
<1>2. PICK s \in SlotIds : s = SlotOf(p) /\ Holds(s, block.bucket)
  BY DEF MembersInv
<1>3. block.bucket \in BucketIds
  BY DenseIs DEF BlockTypes
<1>4. elem[s] \in DOMAIN input /\ input[elem[s]].bucket = block.bucket
  BY <1>2, <1>3 DEF SetInv, SlotInv
<1>5. PICK k \in RoundKeys : k = KeyOf(p)
  BY <1>2, <1>4, InputTypes DEF SetInv, KeyOf, ElemAt
<1>6. PICK bits \in Nat : bits = lane[0].xb
  <2>1. lane[0] \in LaneRec
    BY LanesAre DEF LaneTypes
  <2> QED BY <2>1, RecFields, FSizes
<1>7. TabSlot(k) \in Slots /\ Part(k, bits) \in 0 .. 2 ^ bits - 1
  BY KeyBits
<1>8. PICK t \in Nat \ {0} : t = 2 ^ bits
  BY TwoPowers
<1>9. Part(k, bits) \in Nat
  BY <1>7, <1>8
<1> QED BY <1>1, <1>2, <1>4, <1>5, <1>6, <1>7, <1>9 DEF SlotKey, PartOf

\* The members, their slots and keys are the same as long as the set, the block and
\* what it took of the pool are.
LEMMA SameMembers ==
  ASSUME UNCHANGED <<input, count, elem, block, aidx>>
  PROVE  /\ Members' = Members /\ Dense' = Dense
         /\ \A p : SlotOf(p)' = SlotOf(p) /\ KeyOf(p)' = KeyOf(p) /\ SlotKey(p)' = SlotKey(p)
         /\ \A p, r : Twins(p, r)' <=> Twins(p, r)
         /\ \A s : ElemAt(s)' = ElemAt(s)
<1>1. Dense' = Dense /\ Members' = Members
  BY DEF Dense, Members
<1>2. \A s : ElemAt(s)' = ElemAt(s)
  BY DEF ElemAt
<1>3. \A p : SlotOf(p)' = SlotOf(p)
  BY <1>1 DEF SlotOf
<1>4. \A p : KeyOf(p)' = KeyOf(p)
  BY <1>3 DEF KeyOf, ElemAt
<1>5. \A p : SlotKey(p)' = SlotKey(p)
  BY <1>4 DEF SlotKey
<1>6. \A p, r : Twins(p, r)' <=> Twins(p, r)
  BY <1>4 DEF Twins
<1> QED BY <1>1, <1>2, <1>3, <1>4, <1>5, <1>6

LEMMA MembersKept ==
  ASSUME MembersInv, UNCHANGED <<input, count, elem, actr, atag, block, aidx>>,
         drops \subseteq drops', Fetched' => Fetched
  PROVE  MembersInv'
<1>1. /\ Members' = Members /\ \A p : SlotOf(p)' = SlotOf(p)
  BY SameMembers
<1>2. \A s, c : Holds(s, c)' <=> Holds(s, c)
  BY DEF Holds, InRow, InPool, Pooled, PoolSlot
<1>3. drops' = {} => drops = {}
  OBVIOUS
<1> SUFFICES ASSUME Fetched'
             PROVE  /\ \A p \in Members' : SlotOf(p)' \in SlotIds /\ Holds(SlotOf(p), block.bucket)'
                    /\ \A p, r \in Members' : SlotOf(p)' = SlotOf(r)' => p = r
                    /\ drops' = {} => \A s \in SlotIds : Holds(s, block.bucket)' =>
                                        \E p \in Members' : SlotOf(p)' = s
  BY DEF MembersInv
<1>4. PICK b : b = block.bucket /\ b = block'.bucket
  OBVIOUS
<1>5. /\ \A p \in Members : SlotOf(p) \in SlotIds /\ Holds(SlotOf(p), b)
      /\ \A p, r \in Members : SlotOf(p) = SlotOf(r) => p = r
      /\ drops = {} => \A s \in SlotIds : Holds(s, b) => \E p \in Members : SlotOf(p) = s
  BY <1>4 DEF MembersInv
<1>6. \A p \in Members : Holds(SlotOf(p), block.bucket)'
  <2> SUFFICES ASSUME NEW p \in Members PROVE Holds(SlotOf(p), block.bucket)'
    OBVIOUS
  <2>1. PICK s : s = SlotOf(p) /\ s = SlotOf(p)'
    BY <1>1
  <2>2. Holds(s, b)'
    BY <1>2, <1>5, <2>1
  <2> QED BY <1>4, <2>1, <2>2
<1>7. \A s : Holds(s, block.bucket)' <=> Holds(s, b)
  BY <1>2, <1>4
<1> QED BY <1>1, <1>3, <1>5, <1>6, <1>7

LEMMA MadeKept ==
  ASSUME MadeInv, UNCHANGED <<input, count, elem, block, aidx, out>>,
         drops \subseteq drops', Fetched' => Fetched, SamePass(0), Emitting => Emitting'
  PROVE  MadeInv'
<1>1. /\ Members' = Members /\ \A p : SlotOf(p)' = SlotOf(p) /\ KeyOf(p)' = KeyOf(p)
      /\ \A p, r : Twins(p, r)' <=> Twins(p, r)
  BY SameMembers
<1>2. \A p : PartOf(p)' = PartOf(p)
  BY <1>1 DEF PartOf, SamePass
<1>3. lane'[0].xp = lane[0].xp
  BY DEF SamePass
<1>4. \A s, t : HasChild(s, t)' <=> HasChild(s, t)
  BY DEF HasChild
<1>5. OnceInv'
  BY DEF OnceInv, MadeInv
<1>6. ChildInv'
  BY <1>1, <1>2, <1>3 DEF ChildInv, MadeInv
<1>7. PassedInv'
  <2> SUFFICES ASSUME Fetched', drops' = {}, NEW p \in Members', NEW r \in Members', Twins(p, r)',
                      PartOf(p)' < lane'[0].xp
               PROVE  HasChild(SlotOf(p), SlotOf(r))'
    BY DEF PassedInv
  <2>1. Fetched /\ drops = {} /\ Twins(p, r) /\ PartOf(p) < lane[0].xp /\ p \in Members /\ r \in Members
    BY <1>1, <1>2, <1>3
  <2>2. HasChild(SlotOf(p), SlotOf(r))
    BY <2>1 DEF PassedInv, MadeInv
  <2>3. PICK s, t : s = SlotOf(p) /\ t = SlotOf(r) /\ s = SlotOf(p)' /\ t = SlotOf(r)'
    BY <1>1
  <2>4. HasChild(s, t)'
    BY <1>4, <2>2, <2>3
  <2> QED BY <2>3, <2>4
<1>8. FirstInv'
  BY DEF FirstInv, MadeInv, IsWhole, SamePass
<1> QED BY <1>5, <1>6, <1>7, <1>8 DEF MadeInv

\* The lanes of a block are in one phase: where one of them is says which.
LEMMA PhaseAt ==
  ASSUME PhaseInv, step = "block", NEW l \in LaneIds
  PROVE  /\ lane[l].at \in {"fetch", "fetched", "clear", "cleared"} => Clearing
         /\ lane[l].at \in {"census", "censused"} => Censusing
         /\ lane[l].at \in {"stage", "staged"} => Staging
         /\ lane[l].at \in {"decide", "zeroed"} \cup Formed => Forming
         /\ lane[l].at \in {"tally", "tallied"} => Tallying
         /\ lane[l].at \in {"choose", "chosen"} => Choosing
         /\ lane[l].at \in {"walk", "passed", "done"} => Walking
<1>1. Clearing => lane[l].at \in {"fetch", "fetched", "clear", "cleared"}
  BY DEF Clearing, All
<1>2. Censusing => lane[l].at \in {"census", "censused"}
  BY DEF Censusing, All
<1>3. Staging => lane[l].at \in {"stage", "staged"}
  BY DEF Staging, All
<1>4. Forming => lane[l].at \in {"decide", "zeroed"} \cup Formed
  BY DEF Forming, All
<1>5. Tallying => lane[l].at \in {"tally", "tallied"}
  BY DEF Tallying, All
<1>6. Choosing => lane[l].at \in {"choose", "chosen"}
  BY DEF Choosing, All
<1>7. Walking => lane[l].at \in {"walk", "passed", "done"}
  BY DEF Walking, All
<1>8. Clearing \/ Censusing \/ Staging \/ Forming \/ Tallying \/ Choosing \/ Walking
  BY DEF PhaseInv
<1> HIDE DEF Clearing, Censusing, Staging, Forming, Tallying, Choosing, Walking
<1> QED BY <1>1, <1>2, <1>3, <1>4, <1>5, <1>6, <1>7, <1>8 DEF Formed

\* A lane that stays in its pass and off its chain leaves what the lanes agree on.
LEMMA LanesKept ==
  ASSUME LaneTypes, NEW l \in LaneIds, Others(l), SamePass(l), lane'[l].oth = lane[l].oth
  PROVE  /\ Agree => Agree'
         /\ NoWalk => NoWalk'
         /\ \A k \in LaneIds : SamePass(k) /\ lane'[k].oth = lane[k].oth
         /\ \A k \in LaneIds : IsWhole(k)' <=> IsWhole(k)
<1>1. \A k \in LaneIds : SamePass(k) /\ lane'[k].oth = lane[k].oth
  BY DEF Others, SamePass
<1>2. \A k \in LaneIds : (IsWhole(k)' <=> IsWhole(k)) /\ (IsPart(k)' <=> IsPart(k))
  BY <1>1 DEF IsWhole, IsPart, SamePass
<1>3. 0 \in LaneIds
  BY LanesAre
<1>4. ASSUME Agree PROVE Agree'
  <2>1. ASSUME NEW k \in LaneIds
        PROVE  /\ lane'[k].xb = lane'[0].xb /\ lane'[k].xp = lane'[0].xp
               /\ lane'[k].parts = lane'[0].parts /\ lane'[k].counted = lane'[0].counted
    <3>1. SamePass(k) /\ SamePass(0)
      BY <1>1, <1>3
    <3>2. /\ lane[k].xb = lane[0].xb /\ lane[k].xp = lane[0].xp
          /\ lane[k].parts = lane[0].parts /\ lane[k].counted = lane[0].counted
      BY <1>4 DEF Agree
    <3> QED BY <3>1, <3>2 DEF SamePass
  <2>2. (IsWhole(0) \/ IsPart(0))'
    BY <1>2, <1>3, <1>4 DEF Agree
  <2> QED BY <2>1, <2>2 DEF Agree
<1>5. NoWalk => NoWalk'
  BY <1>1 DEF NoWalk
<1> QED BY <1>1, <1>2, <1>4, <1>5

\* What the round leaves alone once its block runs.
Frame == /\ step = "block"
         /\ UNCHANGED <<input, kind, step, todo, count, elem, actr, atag, ahead, anext, block>>
         /\ drops \subseteq drops'

LEMMA FrameKeeps == ASSUME RoundInv, Frame PROVE SetInv' /\ Quiet'
<1>1. todo = {}
  BY DEF RoundInv, SetInv, SetTypes, Frame
<1>2. SetInv'
  BY <1>1, SetsKept DEF RoundInv, Frame
<1> QED BY <1>2 DEF Quiet, Frame

\* A step of a lane that stays in its pass, and emits nothing.
LEMMA PassKeeps ==
  ASSUME RoundInv, Frame, NEW l \in LaneIds, Others(l), SamePass(l), lane'[l].oth = lane[l].oth,
         UNCHANGED <<aidx, out>>, Fetched' => Fetched, Emitting => Emitting'
  PROVE  SetInv' /\ Quiet' /\ MembersInv' /\ MadeInv'
<1>1. SetInv' /\ Quiet'
  BY FrameKeeps
<1>2. MembersInv'
  BY MembersKept DEF RoundInv, Frame
<1>3. SamePass(0)
  BY LanesKept, LanesAre DEF RoundInv
<1>4. MadeInv'
  BY <1>3, MadeKept DEF RoundInv, Frame
<1> QED BY <1>1, <1>2, <1>4

LEMMA FetchKeeps == ASSUME RoundInv, NEW l \in LaneIds, Fetch(l) PROVE RoundInv'
<1>1. /\ step = "block" /\ lane[l].at = "fetch"
      /\ Go(l, IF kind.arena THEN "fetched" ELSE "clear")
      /\ UNCHANGED <<input, kind, step, todo, count, elem, actr, atag, ahead, anext, block>>
      /\ UNCHANGED <<gcount, tab, lchain, staged, mlist, built, out>>
  BY DEF Fetch, At, inputVars, setVars, outVars
<1>2. \/ /\ kind.arena /\ l = 0 /\ aidx' = SubSeq(PoolChain, 1, Min({Len(PoolChain), AMax}))
         /\ drops \subseteq drops' /\ (Len(PoolChain) > AMax => drops' # {})
      \/ ~(kind.arena /\ l = 0) /\ UNCHANGED <<aidx, drops>>
  BY DEF Fetch, Drop
<1>3. Frame
  BY <1>1, <1>2 DEF Frame
<1>4. LaneTypes /\ BlockTypes /\ SetInv /\ MadeInv /\ PhaseInv
  BY DEF RoundInv
<1>5. PICK place \in LanePlaces : place = (IF kind.arena THEN "fetched" ELSE "clear")
  BY DEF LanePlaces
<1>6. /\ LaneTypes' /\ Others(l) /\ SamePass(l)
      /\ lane'[l].at = place /\ lane'[l].rest = lane[l].rest /\ lane'[l].oth = lane[l].oth
  BY <1>1, <1>4, <1>5, GoEffect
<1>7. Clearing
  BY <1>1, <1>4, PhaseAt
<1>8. IsWhole(l)
  BY <1>1, <1>7 DEF Clearing
<1>9. 0 \in LaneIds
  BY LanesAre
<1>10. \A k \in LaneIds : k # l => lane'[k] = lane[k]
  BY <1>6 DEF Others
<1>11. Clearing'
  <2>1. /\ All({"fetch", "fetched", "clear", "cleared"})'
        /\ kind.arena => All({"fetch", "fetched"})'
        /\ ~kind.arena => All({"fetch", "clear", "cleared"})'
    <3>1. kind.arena => All({"fetch", "fetched"})
      BY <1>1, <1>7 DEF Clearing, All
    <3>2. ~kind.arena => All({"fetch", "clear", "cleared"})
      BY <1>7 DEF Clearing
    <3>3. lane'[l].at = IF kind.arena THEN "fetched" ELSE "clear"
      BY <1>5, <1>6
    <3> QED BY <1>7, <1>10, <3>1, <3>2, <3>3 DEF Clearing, All
  <2>2. Agree' /\ NoWalk' /\ \A k \in LaneIds : IsWhole(k)' <=> IsWhole(k)
    BY <1>4, <1>6, <1>7, LanesKept DEF Clearing
  <2>3. \A k \in LaneIds : lane'[k].at \in {"fetch", "fetched"} => IsWhole(k)'
    BY <1>7, <1>8, <1>10, <2>2 DEF Clearing
  <2>4. \A k \in LaneIds : lane'[k].at = "cleared" => lane[k].at = "cleared"
    BY <1>5, <1>6, <1>10
  <2>5. \A k \in LaneIds : lane'[k].at = "cleared" =>
          \A h \in Slots : h % Lanes = k => tab'[h] = EmptySlot
    BY <1>1, <1>7, <2>4 DEF Clearing
  <2>6. lane'[0].at = "cleared" => gcount' = 0 /\ mlist' = {}
    BY <1>1, <1>7, <1>9, <2>4 DEF Clearing
  <2> QED BY <1>1, <2>1, <2>2, <2>3, <2>5, <2>6 DEF Clearing
<1>12. CASE ~(kind.arena /\ l = 0) /\ UNCHANGED <<aidx, drops>>
  <2>1. Fetched' => Fetched
    BY <1>1, <1>9, <1>10, <1>12 DEF Fetched
  <2>2. Emitting => Emitting'
    BY <1>1, <1>7, <1>9 DEF Emitting, Clearing, All
  <2>3. SetInv' /\ Quiet' /\ MembersInv' /\ MadeInv'
    BY <1>1, <1>3, <1>6, <1>12, <2>1, <2>2, PassKeeps
  <2>4. BlockTypes'
    BY <1>1, <1>4, <1>12 DEF BlockTypes
  <2> QED BY <1>6, <1>11, <2>3, <2>4 DEF RoundInv, PhaseInv
<1>13. CASE /\ kind.arena /\ l = 0 /\ aidx' = SubSeq(PoolChain, 1, Min({Len(PoolChain), AMax}))
            /\ drops \subseteq drops' /\ (Len(PoolChain) > AMax => drops' # {})
  <2>1. SetInv' /\ Quiet'
    BY <1>3, FrameKeeps
  <2>2. block \in Blocks
    BY <1>4 DEF BlockTypes
  <2>3. PICK q : q = aidx' /\ q = SubSeq(PoolChain, 1, Min({Len(PoolChain), AMax}))
    BY <1>13
  <2>4. /\ q \in Seq(PoolIds)
        /\ \A i \in 1 .. Len(q) : q[i] \in LinkedTo(block.bucket)
        /\ \A i, j \in 1 .. Len(q) : q[i] = q[j] => i = j
        /\ ~(Len(PoolChain) > AMax) =>
             \A a \in LinkedTo(block.bucket) : \E i \in 1 .. Len(q) : q[i] = a
    <3>1. SetInv /\ step = "block"
      BY <1>1, <1>4
    <3> QED BY <2>2, <2>3, <3>1, PoolCut
  <2>5. \A a : a \in LinkedTo(block.bucket) <=> a \in 0 .. Pooled - 1 /\ atag[a] = block.bucket
    BY <1>1 DEF Linked, LinkedTo
  <2>6. Pooled' = Pooled /\ atag' = atag /\ block' = block
    BY <1>1 DEF Pooled
  <2>7. BlockTypes'
    BY <1>1, <1>4, <2>3, <2>4 DEF BlockTypes
  <2>8. (\A i \in 1 .. Len(aidx) : aidx[i] \in 0 .. Pooled - 1 /\ atag[aidx[i]] = block.bucket)'
    BY <2>3, <2>4, <2>5, <2>6
  <2>9. (\A i, j \in 1 .. Len(aidx) : aidx[i] = aidx[j] => i = j)'
    BY <2>3, <2>4
  <2>10. drops' = {} =>
           (\A a \in 0 .. Pooled - 1 : atag[a] = block.bucket => \E i \in 1 .. Len(aidx) : aidx[i] = a)'
    <3> SUFFICES ASSUME drops' = {}
                 PROVE  (\A a \in 0 .. Pooled - 1 : atag[a] = block.bucket => \E i \in 1 .. Len(aidx) : aidx[i] = a)'
      OBVIOUS
    <3>1. ~(Len(PoolChain) > AMax)
      BY <1>13
    <3>2. \A a \in LinkedTo(block.bucket) : \E i \in 1 .. Len(q) : q[i] = a
      BY <2>4, <3>1
    <3>3. \A a \in 0 .. Pooled - 1 : atag[a] = block.bucket => \E i \in 1 .. Len(q) : q[i] = a
      BY <2>5, <3>2
    <3> QED BY <2>3, <2>6, <3>3
  <2>11. (SetInv /\ block \in Blocks /\ aidx \in Seq(PoolIds)
          /\ (\A i \in 1 .. Len(aidx) : aidx[i] \in 0 .. Pooled - 1 /\ atag[aidx[i]] = block.bucket)
          /\ (\A i, j \in 1 .. Len(aidx) : aidx[i] = aidx[j] => i = j))'
    BY <2>1, <2>7, <2>8, <2>9 DEF BlockTypes
  <2>12. (/\ \A p \in Members : SlotOf(p) \in SlotIds /\ Holds(SlotOf(p), block.bucket)
          /\ \A p, r \in Members : SlotOf(p) = SlotOf(r) => p = r
          /\ (\A a \in 0 .. Pooled - 1 : atag[a] = block.bucket => \E i \in 1 .. Len(aidx) : aidx[i] = a) =>
               \A s \in SlotIds : Holds(s, block.bucket) => \E p \in Members : SlotOf(p) = s)'
    BY <2>11, MembersAre, PTL
  <2>13. MembersInv'
    BY <2>10, <2>12 DEF MembersInv
  <2>14. out' = {}
    <3>1. ~Emitting
      BY <1>1, <1>13 DEF Emitting
    <3> QED BY <1>1, <1>4, <1>8, <1>13, <3>1 DEF MadeInv, FirstInv
  <2>15. lane'[0].xp = 0 /\ Fetched'
    BY <1>1, <1>5, <1>6, <1>8, <1>13 DEF IsWhole, SamePass, Fetched
  <2>16. (\A p \in Members :
           /\ p \in Nat /\ SlotOf(p) \in SlotIds /\ elem[SlotOf(p)] \in DOMAIN input
           /\ input[elem[SlotOf(p)]].bucket = block.bucket
           /\ KeyOf(p) \in RoundKeys /\ SlotKey(p) \in Slots /\ PartOf(p) \in 0 .. 2 ^ lane[0].xb - 1
           /\ PartOf(p) \in Nat)'
    <3>1. (SetInv /\ BlockTypes /\ LaneTypes /\ MembersInv /\ Fetched)'
      BY <1>6, <2>1, <2>7, <2>13, <2>15
    <3> QED BY <3>1, MemberTypes, PTL
  <2>17. PassedInv'
    BY <2>15, <2>16 DEF PassedInv
  <2>18. MadeInv'
    <3>1. OnceInv'
      BY <2>14, FS_EmptySet DEF OnceInv
    <3> QED BY <2>14, <2>17, <3>1 DEF MadeInv, ChildInv, FirstInv
  <2> QED BY <1>6, <1>11, <2>1, <2>7, <2>13, <2>18 DEF RoundInv, PhaseInv
<1> QED BY <1>2, <1>12, <1>13

\* The elements of the pass stay the same.
LEMMA SameGroup ==
  ASSUME UNCHANGED <<input, count, elem, block, aidx>>, SamePass(0)
  PROVE  /\ Members' = Members
         /\ \A p : /\ SlotOf(p)' = SlotOf(p) /\ KeyOf(p)' = KeyOf(p) /\ SlotKey(p)' = SlotKey(p)
                   /\ InPass(0, p)' <=> InPass(0, p)
                   /\ Alone(p)' <=> Alone(p)
<1>1. Members' = Members
  BY SameMembers
<1>2. \A p : SlotOf(p)' = SlotOf(p) /\ KeyOf(p)' = KeyOf(p) /\ SlotKey(p)' = SlotKey(p)
  BY SameMembers
<1>3. \A p : InPass(0, p)' <=> InPass(0, p)
  BY <1>2 DEF InPass, SamePass
<1>4. \A p : Alone(p)' <=> Alone(p)
  BY <1>1, <1>2, <1>3 DEF Alone
<1> QED BY <1>1, <1>2, <1>3, <1>4

\* In a pass it is the same for every lane which elements belong to it.
LEMMA OneGroup ==
  ASSUME Agree, NEW l \in LaneIds
  PROVE  \A p : InPass(l, p) <=> InPass(0, p)
BY DEF Agree, InPass

\* Before the block is launched.
LEMMA OutsideKept ==
  ASSUME RoundInv, SetInv', step # "block", step' # "block",
         UNCHANGED <<kind, block, sharedVars, lane, outVars>>
  PROVE  RoundInv'
<1>1. UNCHANGED <<aidx, gcount, tab, lchain, staged, mlist, built, out>>
  BY DEF sharedVars, outVars
<1>2. BlockTypes' /\ LaneTypes'
  BY <1>1 DEF RoundInv, BlockTypes, LaneTypes
<1>3. lane = [l \in LaneIds |-> Fresh] /\ out = {} /\ aidx = <<>>
  BY DEF RoundInv, Quiet
<1>4. Quiet'
  BY <1>1, <1>3 DEF Quiet
<1>5. ~Fetched'
  BY DEF Fetched
<1>6. MadeInv'
  <2>1. OnceInv'
    BY <1>1, <1>3, FS_EmptySet DEF OnceInv
  <2> QED BY <1>1, <1>3, <1>5, <2>1 DEF MadeInv, ChildInv, PassedInv, FirstInv
<1> QED BY <1>2, <1>4, <1>5, <1>6 DEF RoundInv, MembersInv, PhaseInv

LEMMA EntryKeeps ==
  ASSUME RoundInv, (\E i \in todo : Scatter(i) \/ ArenaLink(i)) \/ EntryEnds
  PROVE  RoundInv'
<1>1. SetInv
  BY DEF RoundInv
<1>2. ASSUME NEW i \in todo, Scatter(i) PROVE RoundInv'
  <2>1. SetInv'
    BY <1>1, <1>2, ScatterSets
  <2> QED BY <1>2, <2>1, OutsideKept DEF Scatter, inputVars
<1>3. ASSUME NEW i \in todo, ArenaLink(i) PROVE RoundInv'
  <2>1. SetInv'
    BY <1>1, <1>3, ArenaLinkSets
  <2> QED BY <1>3, <2>1, OutsideKept DEF ArenaLink, inputVars
<1>4. ASSUME EntryEnds PROVE RoundInv'
  <2>1. SetInv'
    BY <1>1, <1>4, EntryEndsSets
  <2> QED BY <1>4, <2>1, OutsideKept DEF EntryEnds, inputVars
<1> QED BY <1>2, <1>3, <1>4

LEMMA LaunchKeeps == ASSUME RoundInv, NEW b \in Blocks, LaunchBlock(b) PROVE RoundInv'
<1>1. /\ step = "link" /\ step' = "block" /\ block' = b
      /\ UNCHANGED <<input, kind, count, elem, actr, atag>>
      /\ UNCHANGED <<aidx, gcount, tab, lchain, staged, mlist, built, lane, out, drops>>
  BY DEF LaunchBlock, inputVars, setVars, sharedVars, outVars
<1>2. SetInv' /\ SetInv
  BY LaunchSets DEF RoundInv
<1>3. BlockTypes' /\ LaneTypes'
  BY <1>1 DEF RoundInv, BlockTypes, LaneTypes
<1>4. lane' = [l \in LaneIds |-> Fresh] /\ out' = {} /\ aidx' = <<>>
  BY <1>1 DEF RoundInv, Quiet
<1>5. Quiet'
  BY <1>1 DEF Quiet
<1>6. \A l \in LaneIds : /\ lane'[l].at = "fetch" /\ lane'[l].xb = 0 /\ lane'[l].xp = 0
                         /\ lane'[l].parts = 1 /\ lane'[l].counted = FALSE /\ lane'[l].oth = None
  BY <1>4 DEF Fresh
<1>7. 0 \in LaneIds
  BY LanesAre
<1>8. Clearing'
  <2>1. (\A l \in LaneIds : IsWhole(l))'
    BY <1>6 DEF IsWhole
  <2>2. Agree' /\ NoWalk'
    BY <1>6, <1>7, <2>1 DEF Agree, NoWalk
  <2>3. \A l \in LaneIds : lane'[l].at # "cleared"
    BY <1>6
  <2> QED BY <1>6, <1>7, <2>1, <2>2, <2>3 DEF Clearing, All
<1>9. MembersInv'
  <2> SUFFICES ASSUME Fetched' PROVE MembersInv'
    BY DEF MembersInv
  <2>1. ~kind'.arena
    BY <1>6, <1>7 DEF Fetched
  <2>2. actr' = 0
    BY <1>2, <2>1 DEF SetInv, SetTypes
  <2>3. Pooled' = 0
    BY <2>2, InSizes DEF Pooled
  <2>4. Len(aidx') = 0
    BY <1>4
  <2>5. (\A a \in 0 .. Pooled - 1 : atag[a] = block.bucket => \E i \in 1 .. Len(aidx) : aidx[i] = a)'
    BY <2>3
  <2>6. (/\ SetInv /\ block \in Blocks /\ aidx \in Seq(PoolIds)
         /\ (\A i \in 1 .. Len(aidx) : aidx[i] \in 0 .. Pooled - 1 /\ atag[aidx[i]] = block.bucket)
         /\ (\A i, j \in 1 .. Len(aidx) : aidx[i] = aidx[j] => i = j))'
    BY <1>2, <1>3, <2>4 DEF BlockTypes
  <2>7. (/\ \A p \in Members : SlotOf(p) \in SlotIds /\ Holds(SlotOf(p), block.bucket)
         /\ \A p, r \in Members : SlotOf(p) = SlotOf(r) => p = r
         /\ (\A a \in 0 .. Pooled - 1 : atag[a] = block.bucket => \E i \in 1 .. Len(aidx) : aidx[i] = a) =>
               \A s \in SlotIds : Holds(s, block.bucket) => \E p \in Members : SlotOf(p) = s)'
    BY <2>6, MembersAre, PTL
  <2> QED BY <2>5, <2>7 DEF MembersInv
<1>10. PassedInv'
  <2> SUFFICES ASSUME Fetched' PROVE PassedInv'
    BY DEF PassedInv
  <2>1. (SetInv /\ BlockTypes /\ LaneTypes /\ MembersInv /\ Fetched)'
    BY <1>2, <1>3, <1>9
  <2>2. (\A p \in Members :
           /\ p \in Nat /\ SlotOf(p) \in SlotIds /\ elem[SlotOf(p)] \in DOMAIN input
           /\ input[elem[SlotOf(p)]].bucket = block.bucket
           /\ KeyOf(p) \in RoundKeys /\ SlotKey(p) \in Slots /\ PartOf(p) \in 0 .. 2 ^ lane[0].xb - 1
           /\ PartOf(p) \in Nat)'
    BY <2>1, MemberTypes, PTL
  <2>3. lane'[0].xp = 0
    BY <1>6, <1>7
  <2> QED BY <2>2, <2>3 DEF PassedInv
<1>11. MadeInv'
  <2>1. OnceInv'
    BY <1>4, FS_EmptySet DEF OnceInv
  <2> QED BY <1>4, <1>10, <2>1 DEF MadeInv, ChildInv, FirstInv
<1> QED BY <1>2, <1>3, <1>5, <1>8, <1>9, <1>11 DEF RoundInv, PhaseInv

LEMMA EmptySlotIs == EmptySlot \in [n : Nat, head : {None} \cup FPos] /\ EmptySlot.n = 0 /\ EmptySlot.head = None
BY DEF EmptySlot

LEMMA ClearKeeps == ASSUME RoundInv, NEW l \in LaneIds, Clear(l) PROVE RoundInv'
<1>1. /\ step = "block" /\ lane[l].at = "clear" /\ Go(l, "cleared")
      /\ tab' = [h \in Slots |-> IF h % Lanes = l THEN EmptySlot ELSE tab[h]]
      /\ l = 0 => gcount' = 0 /\ mlist' = {}
      /\ l # 0 => gcount' = gcount /\ mlist' = mlist
      /\ UNCHANGED <<input, kind, step, todo, count, elem, actr, atag, ahead, anext, block, drops>>
      /\ UNCHANGED <<aidx, lchain, staged, built, out>>
  BY DEF Clear, At, inputVars, setVars, outVars
<1>2. Frame
  BY <1>1 DEF Frame
<1>3. LaneTypes /\ BlockTypes /\ PhaseInv
  BY DEF RoundInv
<1>4. /\ LaneTypes' /\ Others(l) /\ SamePass(l)
      /\ lane'[l].at = "cleared" /\ lane'[l].rest = lane[l].rest /\ lane'[l].oth = lane[l].oth
  BY <1>1, <1>3, GoEffect DEF LanePlaces
<1>5. Clearing
  BY <1>1, <1>3, PhaseAt
<1>6. 0 \in LaneIds
  BY LanesAre
<1>7. \A k \in LaneIds : k # l => lane'[k] = lane[k]
  BY <1>4 DEF Others
<1>8. Clearing'
  <2>1. kind.arena => All({"clear", "cleared"})
    BY <1>1, <1>5 DEF Clearing, All
  <2>2. /\ All({"fetch", "fetched", "clear", "cleared"})'
        /\ kind.arena => All({"clear", "cleared"})'
        /\ ~kind.arena => All({"fetch", "clear", "cleared"})'
    BY <1>4, <1>5, <1>7, <2>1 DEF Clearing, All
  <2>3. Agree' /\ NoWalk' /\ \A k \in LaneIds : IsWhole(k)' <=> IsWhole(k)
    BY <1>3, <1>4, <1>5, LanesKept DEF Clearing
  <2>4. \A k \in LaneIds : lane'[k].at \in {"fetch", "fetched"} => IsWhole(k)'
    BY <1>4, <1>5, <1>7, <2>3 DEF Clearing
  <2>5. ASSUME NEW k \in LaneIds, lane'[k].at = "cleared", NEW h \in Slots, h % Lanes = k
        PROVE  tab'[h] = EmptySlot
    <3>1. CASE k = l
      BY <1>1, <2>5, <3>1
    <3>2. CASE k # l
      BY <1>1, <1>5, <1>7, <2>5, <3>2 DEF Clearing
    <3> QED BY <3>1, <3>2
  <2>6. lane'[0].at = "cleared" => gcount' = 0 /\ mlist' = {}
    BY <1>1, <1>5, <1>6, <1>7 DEF Clearing
  <2> QED BY <1>1, <2>2, <2>3, <2>4, <2>5, <2>6 DEF Clearing
<1>9. BlockTypes'
  <2>1. tab' \in [Slots -> [n : Nat, head : {None} \cup FPos]]
    BY <1>1, <1>3, EmptySlotIs DEF BlockTypes
  <2>2. gcount' \in Nat /\ mlist' \subseteq FPos
    BY <1>1, <1>3 DEF BlockTypes
  <2> QED BY <1>1, <1>3, <2>1, <2>2 DEF BlockTypes
<1>10. Fetched' => Fetched
  BY <1>1, <1>5, <1>6, <1>7 DEF Fetched, Clearing, All
<1>11. Emitting => Emitting'
  BY <1>5, <1>6 DEF Emitting, Clearing, All
<1>12. SetInv' /\ Quiet' /\ MembersInv' /\ MadeInv'
  BY <1>1, <1>2, <1>4, <1>10, <1>11, PassKeeps
<1> QED BY <1>4, <1>8, <1>9, <1>12 DEF RoundInv, PhaseInv

LEMMA MembersAreFew == SetInv /\ BlockTypes => IsFiniteSet(Members)
<1> SUFFICES ASSUME SetInv, BlockTypes PROVE IsFiniteSet(Members)
  OBVIOUS
<1>1. Dense \in Nat /\ Len(aidx) \in Nat
  BY DenseIs, LenProperties DEF BlockTypes
<1>2. PICK n \in Int : n = Dense + Len(aidx) - 1
  BY <1>1
<1>3. IsFiniteSet(0 .. n)
  BY FS_Interval
<1> QED BY <1>2, <1>3 DEF Members

LEMMA CountMore ==
  ASSUME NEW A, NEW B, IsFiniteSet(A), IsFiniteSet(B), A \cap B = {}
  PROVE  Cardinality(A \cup B) = Cardinality(A) + Cardinality(B)
         /\ Cardinality(A) \in Nat /\ Cardinality(B) \in Nat
<1>1. Cardinality(A) \in Nat /\ Cardinality(B) \in Nat
  BY FS_CardinalityType
<1>2. Cardinality(A \cup B) = Cardinality(A) + Cardinality(B) - Cardinality(A \cap B)
  BY FS_Union
<1>3. Cardinality(A \cap B) = 0
  BY FS_EmptySet
<1> QED BY <1>1, <1>2, <1>3

LEMMA CensusKeeps == ASSUME RoundInv, NEW l \in LaneIds, Census(l) PROVE RoundInv'
<1> DEFINE Mine(h) == {p \in Shares(l, Members) : InPass(l, p) /\ TabSlot(KeyOf(p)) = h}
<1>1. /\ step = "block" /\ lane[l].at = "census" /\ Go(l, "censused")
      /\ tab' = [h \in Slots |-> [tab[h] EXCEPT !.n = @ + Cardinality(Mine(h))]]
      /\ UNCHANGED <<input, kind, step, todo, count, elem, actr, atag, ahead, anext, block, drops>>
      /\ UNCHANGED <<aidx, gcount, lchain, staged, mlist, built, out>>
  BY DEF Census, At, inputVars, setVars, outVars
<1>2. Frame
  BY <1>1 DEF Frame
<1>3. LaneTypes /\ BlockTypes /\ PhaseInv /\ SetInv /\ MembersInv
  BY DEF RoundInv
<1>4. /\ LaneTypes' /\ Others(l) /\ SamePass(l)
      /\ lane'[l].at = "censused" /\ lane'[l].rest = lane[l].rest /\ lane'[l].oth = lane[l].oth
  BY <1>1, <1>3, GoEffect DEF LanePlaces
<1>5. Censusing
  BY <1>1, <1>3, PhaseAt
<1>6. 0 \in LaneIds /\ \A p \in Nat : p % Lanes \in LaneIds
  BY LanesAre
<1>7. \A k \in LaneIds : k # l => lane'[k] = lane[k]
  BY <1>4 DEF Others
<1>8. Agree' /\ NoWalk' /\ SamePass(0)
  BY <1>3, <1>4, <1>5, <1>6, LanesKept DEF Censusing
<1>9. Fetched' /\ Fetched
  BY <1>1, <1>4, <1>5, <1>6, <1>7 DEF Fetched, Censusing, All
<1>10. \A p \in Members : p \in Nat /\ SlotKey(p) \in Slots
  BY <1>3, <1>9, MemberTypes
<1>11. /\ Members' = Members
       /\ \A p : (InPass(0, p)' <=> InPass(0, p)) /\ SlotKey(p)' = SlotKey(p)
  BY <1>1, <1>8, SameGroup
<1>12. \A p : InPass(l, p) <=> InPass(0, p)
  BY <1>5, OneGroup DEF Censusing
<1>13. ASSUME NEW h \in Slots
       PROVE  /\ Cardinality(Mine(h)) \in Nat
              /\ Cardinality(Counted(h)') = Cardinality(Counted(h)) + Cardinality(Mine(h))
  <2>1. IsFiniteSet(Counted(h)) /\ IsFiniteSet(Mine(h))
    <3>1. Counted(h) \subseteq Members /\ Mine(h) \subseteq Members
      BY DEF Counted, Shares
    <3>2. IsFiniteSet(Members)
      BY <1>3, MembersAreFew
    <3> HIDE DEF Mine
    <3> QED BY <3>1, <3>2, FS_Subset
  <2>2. Counted(h) \cap Mine(h) = {}
    BY <1>1 DEF Counted, Shares
  <2>3. Counted(h)' = Counted(h) \cup Mine(h)
    <3>1. \A p \in Members : lane'[p % Lanes].at = "censused" <=> lane[p % Lanes].at = "censused" \/ p % Lanes = l
      BY <1>4, <1>6, <1>7, <1>10
    <3>2. Counted(h)' = {p \in Members : InPass(0, p) /\ SlotKey(p) = h /\ lane'[p % Lanes].at = "censused"}
      BY <1>11 DEF Counted
    <3>3. Mine(h) = {p \in Members : p % Lanes = l /\ InPass(0, p) /\ SlotKey(p) = h}
      BY <1>12 DEF Shares, SlotKey
    <3> HIDE DEF Mine
    <3> QED BY <3>1, <3>2, <3>3 DEF Counted
  <2> HIDE DEF Mine
  <2> QED BY <2>1, <2>2, <2>3, CountMore
<1> HIDE DEF Mine
<1>14. ASSUME NEW h \in Slots
       PROVE  /\ tab'[h] \in [n : Nat, head : {None} \cup FPos]
              /\ tab'[h].n = Cardinality(Counted(h)') /\ tab'[h].head = None
  <2>1. PICK t \in [n : Nat, head : {None} \cup FPos] : t = tab[h]
    BY <1>3 DEF BlockTypes
  <2>2. PICK c \in Nat : c = Cardinality(Mine(h))
    BY <1>13
  <2>3. tab'[h] = [t EXCEPT !.n = t.n + c]
    BY <1>1, <2>1, <2>2
  <2>4. t.head = None /\ t.n = Cardinality(Counted(h))
    BY <1>5, <2>1 DEF Censusing
  <2>5. t.n + c = Cardinality(Counted(h)')
    BY <1>13, <2>2, <2>4
  <2> QED BY <2>3, <2>4, <2>5
<1>15. Censusing'
  <2>1. All({"census", "censused"})'
    BY <1>4, <1>5, <1>7 DEF Censusing, All
  <2>2. (\A h \in Slots : tab[h].head = None /\ tab[h].n = Cardinality(Counted(h)))'
    BY <1>14
  <2> QED BY <1>1, <1>5, <1>8, <2>1, <2>2 DEF Censusing
<1>16. BlockTypes'
  <2>1. tab' \in [Slots -> [n : Nat, head : {None} \cup FPos]]
    BY <1>1, <1>14
  <2> QED BY <1>1, <1>3, <2>1 DEF BlockTypes
<1>17. Emitting => Emitting'
  BY <1>5, <1>6 DEF Emitting, Censusing, All
<1>18. SetInv' /\ Quiet' /\ MembersInv' /\ MadeInv'
  BY <1>1, <1>2, <1>4, <1>9, <1>17, PassKeeps
<1> QED BY <1>4, <1>15, <1>16, <1>18 DEF RoundInv, PhaseInv

LEMMA HeadIs == ASSUME NEW S, NEW h, NEW nx, ChainIs(S, h, nx) PROVE h = None \/ h \in S
<1>1. PICK n \in Nat : \E w \in [1 .. n -> S] : Lists(n, w, S) /\ IsChain(n, w, h, nx)
  BY DEF ChainIs
<1>2. PICK w \in [1 .. n -> S] : IsChain(n, w, h, nx)
  BY <1>1
<1>3. n # 0 => 1 \in 1 .. n
  OBVIOUS
<1> QED BY <1>2, <1>3 DEF IsChain

LEMMA PositionsAre ==
  gcount \in Nat =>
    /\ Staged \in Nat /\ Staged <= FCap /\ Staged <= gcount
    /\ (gcount <= FCap => Staged = gcount) /\ (gcount >= FCap => Staged = FCap)
    /\ Positions \subseteq FPos
<1> SUFFICES ASSUME gcount \in Nat
             PROVE  /\ Staged \in Nat /\ Staged <= FCap /\ Staged <= gcount
                    /\ (gcount <= FCap => Staged = gcount) /\ (gcount >= FCap => Staged = FCap)
                    /\ Positions \subseteq FPos
  OBVIOUS
<1>1. FCap \in Nat
  BY FSizes
<1>2. PICK m \in Nat : m = Staged /\ m <= gcount /\ m <= FCap /\ m \in {gcount, FCap}
  BY <1>1, MinOfTwo DEF Staged
<1>3. (gcount <= FCap => m = gcount) /\ (gcount >= FCap => m = FCap)
  BY <1>1, <1>2
<1>4. 0 .. m - 1 \subseteq 0 .. FCap - 1
  BY <1>1, <1>2
<1> QED BY <1>2, <1>3, <1>4 DEF Positions, FPos

\* What is staged is an element of the pass.
LEMMA StagedAre ==
  ASSUME SetInv, BlockTypes, LaneTypes, MembersInv, Fetched, StagedInv, NEW pos \in Positions
  PROVE  /\ pos \in FPos
         /\ \E p \in Members : /\ InPass(0, p) /\ ~Pending(p) /\ staged[pos] = SlotOf(p)
                               /\ PosKey(pos) = KeyOf(p) /\ PosSlot(pos) = SlotKey(p)
         /\ PosSlot(pos) \in Slots /\ PosKey(pos) \in RoundKeys
<1>1. PICK p \in Members : InPass(0, p) /\ ~Pending(p) /\ staged[pos] = SlotOf(p)
  BY DEF StagedInv
<1>2. PosKey(pos) = KeyOf(p)
  BY <1>1 DEF PosKey, KeyOf
<1>3. PosSlot(pos) = SlotKey(p)
  BY <1>2 DEF PosSlot, SlotKey
<1>4. SlotKey(p) \in Slots /\ KeyOf(p) \in RoundKeys
  BY MemberTypes
<1>5. pos \in FPos
  BY PositionsAre DEF BlockTypes
<1> QED BY <1>1, <1>2, <1>3, <1>4, <1>5

\* An element is put before the chain of its slot.
LEMMA ChainTab ==
  ASSUME BlockTypes, NEW pos \in FPos, NEW k, TabSlot(k) \in Slots, Chain(pos, k)
  PROVE  /\ tab'[TabSlot(k)].head = pos /\ lchain'[pos] = tab[TabSlot(k)].head
         /\ \A h \in Slots : h # TabSlot(k) => tab'[h] = tab[h]
         /\ \A other \in FPos : other # pos => lchain'[other] = lchain[other]
         /\ tab' \in [Slots -> [n : Nat, head : {None} \cup FPos]]
         /\ lchain' \in [FPos -> {None} \cup FPos]
<1>1. tab \in [Slots -> [n : Nat, head : {None} \cup FPos]] /\ lchain \in [FPos -> {None} \cup FPos]
  BY DEF BlockTypes
<1>2. PICK e : e = [n |-> 0, head |-> pos]
  OBVIOUS
<1>3. PICK s \in Slots : s = TabSlot(k)
  OBVIOUS
<1>4. PICK o \in {None} \cup FPos : o = tab[s].head
  BY <1>1
<1>5. tab' = [tab EXCEPT ![s] = e] /\ lchain' = [lchain EXCEPT ![pos] = o]
  BY <1>2, <1>3, <1>4 DEF Chain
<1>6. e \in [n : Nat, head : {None} \cup FPos] /\ e.head = pos
  BY <1>2
<1> QED BY <1>1, <1>2, <1>3, <1>4, <1>5, <1>6

LEMMA ChainsGrow ==
  ASSUME BlockTypes, NEW S, NEW T, NEW pos \in FPos, NEW k, TabSlot(k) \in Slots, Chain(pos, k),
         S \subseteq FPos, pos \notin S, T = S \cup {pos},
         \A h \in Slots : ChainIs(InSlot(S, h), tab[h].head, lchain),
         \A x \in S : PosSlot(x)' = PosSlot(x), PosSlot(pos)' = TabSlot(k)
  PROVE  \A h \in Slots : ChainIs(InSlot(T, h)', tab'[h].head, lchain')
<1>1. /\ tab'[TabSlot(k)].head = pos /\ lchain'[pos] = tab[TabSlot(k)].head
      /\ \A h \in Slots : h # TabSlot(k) => tab'[h] = tab[h]
      /\ \A other \in FPos : other # pos => lchain'[other] = lchain[other]
  BY ChainTab
<1> SUFFICES ASSUME NEW h \in Slots PROVE ChainIs(InSlot(T, h)', tab'[h].head, lchain')
  OBVIOUS
<1>2. PICK A, hd, nx, mx : A = InSlot(S, h) /\ hd = tab[h].head /\ nx = lchain /\ mx = lchain'
  OBVIOUS
<1>3. ChainIs(A, hd, nx)
  BY <1>2
<1>4. pos \notin A /\ \A x \in A : mx[x] = nx[x]
  BY <1>1, <1>2 DEF InSlot
<1>5. CASE h = TabSlot(k)
  <2>1. InSlot(T, h)' = A \cup {pos}
    BY <1>2, <1>5 DEF InSlot
  <2>2. mx[pos] = hd
    BY <1>1, <1>2, <1>5
  <2>3. ChainIs(A \cup {pos}, pos, mx)
    BY <1>3, <1>4, <2>2, ChainGrows
  <2> QED BY <1>1, <1>2, <1>5, <2>1, <2>3
<1>6. CASE h # TabSlot(k)
  <2>1. InSlot(T, h)' = A
    BY <1>2, <1>6 DEF InSlot
  <2>2. ChainIs(A, hd, mx)
    BY <1>3, <1>4, ChainKept
  <2> QED BY <1>1, <1>2, <1>6, <2>1, <2>2
<1> QED BY <1>5, <1>6

\* One more staged, in a place of its own, or none where there is no place.
LEMMA StagedGrows ==
  ASSUME SetInv, BlockTypes, LaneTypes, MembersInv, Fetched, StagedInv,
         NEW p \in Members, InPass(0, p), Pending(p), NEW g, g = gcount,
         UNCHANGED <<input, count, elem, block, aidx>>, SamePass(0), gcount' = gcount + 1,
         gcount < FCap => staged' = [staged EXCEPT ![gcount] = SlotOf(p)],
         gcount >= FCap => staged' = staged,
         \A r \in Members : Pending(r)' <=> Pending(r) /\ r # p
  PROVE  /\ StagedInv'
         /\ gcount < FCap => /\ gcount \in FPos /\ gcount \notin Positions
                             /\ Positions' = Positions \cup {gcount}
                             /\ PosSlot(g)' = SlotKey(p)
         /\ gcount >= FCap => Positions' = Positions
         /\ \A pos \in Positions : staged'[pos] = staged[pos] /\ PosSlot(pos)' = PosSlot(pos)
<1>1. gcount \in Nat /\ FCap \in Nat \ {0} /\ staged \in [FPos -> SlotIds]
  BY FSizes DEF BlockTypes
<1>2. /\ gcount <= FCap => Staged = gcount
      /\ gcount >= FCap => Staged = FCap
      /\ Positions \subseteq FPos
  BY <1>1, PositionsAre
<1>3. (/\ Staged \in Nat /\ Staged <= FCap /\ Staged <= gcount
       /\ (gcount <= FCap => Staged = gcount) /\ (gcount >= FCap => Staged = FCap)
       /\ Positions \subseteq FPos)'
  <2>1. (gcount \in Nat)'
    BY <1>1
  <2> QED BY <2>1, PositionsAre, PTL
<1>4. gcount < FCap => /\ gcount \in FPos /\ gcount \notin Positions
                       /\ Positions' = Positions \cup {gcount}
  <2> SUFFICES ASSUME gcount < FCap
               PROVE  gcount \in FPos /\ gcount \notin Positions /\ Positions' = Positions \cup {gcount}
    OBVIOUS
  <2>1. Staged = gcount /\ Staged' = gcount + 1
    BY <1>1, <1>2, <1>3
  <2>2. 0 .. gcount + 1 - 1 = (0 .. gcount - 1) \cup {gcount}
    BY <1>1
  <2> QED BY <1>1, <2>1, <2>2 DEF Positions, FPos
<1>5. gcount >= FCap => Positions' = Positions
  <2> SUFFICES ASSUME gcount >= FCap PROVE Positions' = Positions
    OBVIOUS
  <2>1. Staged = FCap /\ Staged' = FCap
    BY <1>1, <1>2, <1>3
  <2> QED BY <2>1 DEF Positions
<1>6. \A s : ElemAt(s)' = ElemAt(s)
  BY SameMembers
<1>7. \A pos \in Positions : staged'[pos] = staged[pos]
  BY <1>1, <1>2, <1>4
<1>8. \A pos \in Positions : PosSlot(pos)' = PosSlot(pos)
  BY <1>6, <1>7 DEF PosSlot, PosKey
<1>9. SlotOf(p) \in SlotIds
  BY MemberTypes
<1>10. gcount < FCap => staged'[gcount] = SlotOf(p)
  BY <1>1, <1>4, <1>9
<1>11. gcount < FCap => PosSlot(g)' = SlotKey(p)
  BY <1>6, <1>10 DEF PosSlot, PosKey, SlotKey, KeyOf
<1>12. /\ Members' = Members
       /\ \A r : /\ SlotOf(r)' = SlotOf(r) /\ (InPass(0, r)' <=> InPass(0, r)) /\ (Alone(r)' <=> Alone(r))
  BY SameGroup
<1>13. \A pos \in Positions' : pos \in Positions \/ (pos = gcount /\ gcount < FCap)
  BY <1>1, <1>4, <1>5
<1>14. ASSUME NEW pos \in Positions'
       PROVE  \E r \in Members : InPass(0, r) /\ ~Pending(r)' /\ staged'[pos] = SlotOf(r)
  <2>1. CASE pos \in Positions
    <3>1. PICK r \in Members : InPass(0, r) /\ ~Pending(r) /\ staged[pos] = SlotOf(r)
      BY <2>1 DEF StagedInv
    <3>2. ~Pending(r)'
      BY <3>1
    <3> QED BY <1>7, <2>1, <3>1, <3>2
  <2>2. CASE pos = gcount /\ gcount < FCap
    BY <1>10, <2>2
  <2> QED BY <1>13, <2>1, <2>2
<1>15. ASSUME NEW pos \in Positions, gcount < FCap PROVE staged'[pos] # staged'[gcount]
  <2>1. PICK r \in Members : ~Pending(r) /\ staged[pos] = SlotOf(r)
    BY DEF StagedInv
  <2>2. r # p
    BY <2>1
  <2>3. SlotOf(r) # SlotOf(p)
    BY <2>2 DEF MembersInv
  <2> QED BY <1>7, <1>10, <1>15, <2>1, <2>3
<1>16. ASSUME NEW pos \in Positions', NEW other \in Positions', staged'[pos] = staged'[other] PROVE pos = other
  <2>1. CASE pos \in Positions /\ other \in Positions
    BY <1>7, <1>16, <2>1 DEF StagedInv
  <2>2. CASE ~(pos \in Positions /\ other \in Positions)
    BY <1>13, <1>15, <1>16, <2>2
  <2> QED BY <2>1, <2>2
<1>17. ASSUME gcount' <= FCap, NEW r \in Members, InPass(0, r)
       PROVE  Pending(r)' \/ Alone(r) \/ \E pos \in Positions' : staged'[pos] = SlotOf(r)
  <2>1. gcount < FCap /\ gcount <= FCap
    BY <1>1, <1>17
  <2>2. CASE r = p
    BY <1>4, <1>10, <2>1, <2>2
  <2>3. CASE r # p
    <3>1. Pending(r) \/ Alone(r) \/ \E pos \in Positions : staged[pos] = SlotOf(r)
      BY <1>17, <2>1 DEF StagedInv
    <3> QED BY <1>4, <1>7, <2>1, <2>3, <3>1
  <2> QED BY <2>2, <2>3
<1>18. StagedInv'
  <2>1. (\A pos \in Positions : \E r \in Members : InPass(0, r) /\ ~Pending(r) /\ staged[pos] = SlotOf(r))'
    BY <1>12, <1>14
  <2>2. (\A pos, other \in Positions : staged[pos] = staged[other] => pos = other)'
    BY <1>16
  <2>3. (gcount <= FCap => \A r \in Members : InPass(0, r) =>
           Pending(r) \/ Alone(r) \/ \E pos \in Positions : staged[pos] = SlotOf(r))'
    BY <1>12, <1>17
  <2> QED BY <2>1, <2>2, <2>3 DEF StagedInv
<1> QED BY <1>4, <1>5, <1>7, <1>8, <1>11, <1>18

LEMMA StageKeeps == ASSUME RoundInv, NEW l \in LaneIds, Stage(l) PROVE RoundInv'
<1>1. PICK p : p = Min(lane[l].rest)
  OBVIOUS
<1>2. /\ step = "block" /\ lane[l].at = "stage" /\ lane[l].rest # {} /\ Tick(l, p) /\ gcount' = gcount + 1
      /\ UNCHANGED <<input, kind, step, todo, count, elem, actr, atag, ahead, anext, block, drops>>
      /\ UNCHANGED <<aidx, mlist, out>>
  BY <1>1 DEF Stage, At, inputVars, setVars, outVars
<1>3. /\ gcount < FCap => /\ staged' = [staged EXCEPT ![gcount] = SlotOf(p)] /\ built' = built \ {gcount}
                          /\ kind.mfirst => Chain(gcount, KeyOf(p))
                          /\ ~kind.mfirst => UNCHANGED <<tab, lchain>>
      /\ ~(gcount < FCap) => UNCHANGED <<staged, built, tab, lchain>>
  BY <1>1 DEF Stage
<1>4. Frame
  BY <1>2 DEF Frame
<1>5. LaneTypes /\ BlockTypes /\ PhaseInv /\ SetInv /\ MembersInv
  BY DEF RoundInv
<1>6. /\ LaneTypes' /\ Others(l) /\ SamePass(l)
      /\ lane'[l].at = lane[l].at /\ lane'[l].rest = lane[l].rest \ {p} /\ lane'[l].oth = lane[l].oth
  BY <1>2, <1>5, TickEffect
<1>7. Staging
  BY <1>2, <1>5, PhaseAt
<1>8. 0 \in LaneIds /\ \A r \in Nat : r % Lanes \in LaneIds
  BY LanesAre
<1>9. \A k \in LaneIds : k # l => lane'[k] = lane[k]
  BY <1>6 DEF Others
<1>10. p \in lane[l].rest
  <2>1. PICK S \in SUBSET Nat : S = lane[l].rest
    BY <1>5, RecFields DEF LaneTypes
  <2> QED BY <1>1, <1>2, <2>1, MinIsLeast
<1>11. p \in Members /\ InPass(0, p) /\ p % Lanes = l /\ Pending(p)
  BY <1>2, <1>7, <1>10 DEF Staging, Pending
<1>12. Agree' /\ NoWalk' /\ SamePass(0)
  BY <1>5, <1>6, <1>7, <1>8, LanesKept DEF Staging
<1>13. Fetched' /\ Fetched
  BY <1>2, <1>6, <1>7, <1>8, <1>9 DEF Fetched, Staging, All
<1>14. \A r \in Members : r \in Nat /\ SlotKey(r) \in Slots
  BY <1>5, <1>13, MemberTypes
<1>15. \A r \in Members : Pending(r)' <=> Pending(r) /\ r # p
  <2> SUFFICES ASSUME NEW r \in Members PROVE Pending(r)' <=> Pending(r) /\ r # p
    OBVIOUS
  <2>1. PICK k \in LaneIds : k = r % Lanes
    BY <1>8, <1>14
  <2>2. CASE k = l
    BY <1>2, <1>6, <2>1, <2>2 DEF Pending
  <2>3. CASE k # l
    <3>1. lane'[k] = lane[k] /\ r # p
      BY <1>9, <1>11, <2>1, <2>3
    <3> QED BY <2>1, <3>1 DEF Pending
  <2> QED BY <2>2, <2>3
<1>16. gcount \in Nat /\ FCap \in Nat /\ (~(gcount < FCap) <=> gcount >= FCap)
  BY <1>5, FSizes DEF BlockTypes
<1> PICK g : g = gcount
  OBVIOUS
<1>17. /\ StagedInv'
       /\ gcount < FCap => /\ gcount \in FPos /\ gcount \notin Positions
                           /\ Positions' = Positions \cup {gcount}
                           /\ PosSlot(g)' = SlotKey(p)
       /\ gcount >= FCap => Positions' = Positions
       /\ \A pos \in Positions : staged'[pos] = staged[pos] /\ PosSlot(pos)' = PosSlot(pos)
  <2>1. StagedInv
    BY <1>7 DEF Staging
  <2> QED BY <1>2, <1>3, <1>5, <1>11, <1>12, <1>13, <1>15, <1>16, <2>1, StagedGrows
<1>18. gcount < FCap /\ kind.mfirst =>
         /\ tab'[SlotKey(p)].head = gcount /\ lchain'[gcount] = tab[SlotKey(p)].head
         /\ \A h \in Slots : h # SlotKey(p) => tab'[h] = tab[h]
         /\ \A other \in FPos : other # gcount => lchain'[other] = lchain[other]
         /\ tab' \in [Slots -> [n : Nat, head : {None} \cup FPos]]
         /\ lchain' \in [FPos -> {None} \cup FPos]
  BY <1>3, <1>5, <1>11, <1>14, <1>17, ChainTab DEF SlotKey
<1>19. TabChains(IF kind.mfirst THEN Positions ELSE {})'
  <2>1. CASE ~kind.mfirst
    <3>1. UNCHANGED <<tab, lchain>>
      BY <1>3, <1>16, <2>1
    <3>2. TabChains({})
      BY <1>7, <2>1 DEF Staging
    <3>3. \A h : InSlot({}, h)' = InSlot({}, h)
      BY DEF InSlot
    <3>4. TabChains({})'
      BY <3>1, <3>2, <3>3 DEF TabChains
    <3> QED BY <1>2, <2>1, <3>4
  <2>2. CASE kind.mfirst /\ gcount < FCap
    <3>1. PICK S, T : S = Positions /\ T = Positions'
      OBVIOUS
    <3>2. \A h \in Slots : ChainIs(InSlot(S, h), tab[h].head, lchain)
      BY <1>7, <2>2, <3>1 DEF Staging, TabChains
    <3>3. /\ gcount \in FPos /\ gcount \notin S /\ T = S \cup {gcount} /\ S \subseteq FPos
          /\ \A x \in S : PosSlot(x)' = PosSlot(x)
      BY <1>16, <1>17, <2>2, <3>1, PositionsAre
    <3>4. Chain(gcount, KeyOf(p)) /\ PosSlot(g)' = TabSlot(KeyOf(p)) /\ TabSlot(KeyOf(p)) \in Slots
      BY <1>3, <1>11, <1>14, <1>17, <2>2 DEF SlotKey
    <3>5. \A h \in Slots : ChainIs(InSlot(T, h)', tab'[h].head, lchain')
      <4>1. g \in FPos
        BY <3>3
      <4>2. PICK k : k = KeyOf(p)
        OBVIOUS
      <4>3. g \notin S /\ T = S \cup {g} /\ Chain(g, k) /\ TabSlot(k) \in Slots
        BY <3>3, <3>4, <4>1, <4>2
      <4>4. PosSlot(g)' = TabSlot(k)
        BY <3>4, <4>2
      <4> QED BY <1>5, <3>2, <3>3, <4>3, <4>4, ChainsGrow
    <3>6. TabChains(Positions)'
      BY <3>1, <3>5 DEF TabChains
    <3> QED BY <1>2, <2>2, <3>6
  <2>3. CASE kind.mfirst /\ gcount >= FCap
    <3>1. UNCHANGED <<tab, lchain>> /\ Positions' = Positions
      BY <1>3, <1>16, <1>17, <2>3
    <3>2. TabChains(Positions)
      BY <1>7, <2>3 DEF Staging
    <3>3. \A h : InSlot(Positions, h)' = InSlot(Positions, h)
      BY <1>17, <3>1 DEF InSlot
    <3>4. TabChains(Positions)'
      BY <3>1, <3>2, <3>3 DEF TabChains
    <3> QED BY <1>2, <2>3, <3>4
  <2> QED BY <1>16, <2>1, <2>2, <2>3
<1>20. Staging'
  <2>1. All({"stage", "staged"})'
    BY <1>2, <1>6, <1>7, <1>9 DEF Staging, All
  <2>2. /\ Members' = Members /\ \A r : InPass(0, r)' <=> InPass(0, r)
    BY <1>2, <1>12, SameGroup
  <2>3. ASSUME NEW k \in LaneIds, lane'[k].at = "stage", NEW r \in lane'[k].rest
        PROVE  r \in Members' /\ InPass(0, r)' /\ r % Lanes = k
    <3>1. lane[k].at = "stage" /\ r \in lane[k].rest
      BY <1>2, <1>6, <1>9, <2>3
    <3> QED BY <1>7, <2>2, <3>1 DEF Staging
  <2>4. mlist' = {}
    BY <1>2, <1>7 DEF Staging
  <2> QED BY <1>12, <1>17, <1>19, <2>1, <2>3, <2>4 DEF Staging
<1>21. BlockTypes'
  <2>1. staged' \in [FPos -> SlotIds] /\ built' \subseteq FPos
    <3>1. SlotOf(p) \in SlotIds
      BY <1>5, <1>11, <1>13, MemberTypes
    <3> QED BY <1>3, <1>5, <3>1 DEF BlockTypes
  <2>2. tab' \in [Slots -> [n : Nat, head : {None} \cup FPos]] /\ lchain' \in [FPos -> {None} \cup FPos]
    BY <1>3, <1>5, <1>18 DEF BlockTypes
  <2>3. ASSUME kind.mfirst, NEW pos \in FPos, lchain'[pos] # None PROVE lchain'[pos] < pos
    <3>1. CASE gcount < FCap /\ pos = gcount
      <4>1. PICK h \in Slots : h = SlotKey(p)
        BY <1>11, <1>14
      <4>2. ChainIs(InSlot(Positions, h), tab[h].head, lchain)
        BY <1>7, <2>3 DEF Staging, TabChains
      <4>3. tab[h].head \in InSlot(Positions, h)
        BY <1>18, <2>3, <3>1, <4>1, <4>2, HeadIs
      <4>4. lchain'[pos] \in Positions
        BY <1>18, <2>3, <3>1, <4>1, <4>3 DEF InSlot
      <4>5. Staged \in Nat /\ Staged <= gcount
        BY <1>16, PositionsAre
      <4> QED BY <1>16, <3>1, <4>4, <4>5 DEF Positions
    <3>2. CASE ~(gcount < FCap /\ pos = gcount)
      <4>1. lchain'[pos] = lchain[pos]
        BY <1>3, <1>18, <2>3, <3>2
      <4> QED BY <1>5, <2>3, <4>1 DEF BlockTypes
    <3> QED BY <3>1, <3>2
  <2>4. gcount' \in Nat
    BY <1>2, <1>16
  <2> QED BY <1>2, <1>5, <2>1, <2>2, <2>3, <2>4 DEF BlockTypes
<1>22. Emitting => Emitting'
  BY <1>7, <1>8 DEF Emitting, Staging, All
<1>23. SetInv' /\ Quiet' /\ MembersInv' /\ MadeInv'
  BY <1>2, <1>4, <1>6, <1>13, <1>22, PassKeeps
<1> QED BY <1>6, <1>20, <1>21, <1>23 DEF RoundInv, PhaseInv

\* What is staged stays the same.
LEMMA SamePositions ==
  ASSUME UNCHANGED <<input, elem, gcount, staged>>
  PROVE  /\ Positions' = Positions
         /\ \A x : PosKey(x)' = PosKey(x) /\ PosSlot(x)' = PosSlot(x) /\ (Multi(x)' <=> Multi(x))
         /\ \A S, h : InSlot(S, h)' = InSlot(S, h)
<1>1. Positions' = Positions
  BY DEF Positions, Staged
<1>2. \A x : PosKey(x)' = PosKey(x)
  BY DEF PosKey, ElemAt
<1>3. \A x : PosSlot(x)' = PosSlot(x)
  BY <1>2 DEF PosSlot
<1>4. \A x : Multi(x)' <=> Multi(x)
  BY <1>1, <1>3 DEF Multi
<1>5. \A S, h : InSlot(S, h)' = InSlot(S, h)
  BY <1>3 DEF InSlot
<1> QED BY <1>1, <1>2, <1>3, <1>4, <1>5

LEMMA StagedKept ==
  ASSUME StagedInv, UNCHANGED <<input, count, elem, block, aidx, gcount, staged>>, SamePass(0),
         \A p \in Members : Pending(p)' <=> Pending(p)
  PROVE  StagedInv'
<1>1. Positions' = Positions
  BY SamePositions
<1>2. /\ Members' = Members
      /\ \A p : /\ SlotOf(p)' = SlotOf(p)
                /\ InPass(0, p)' <=> InPass(0, p)
                /\ Alone(p)' <=> Alone(p)
  BY SameGroup
<1> QED BY <1>1, <1>2 DEF StagedInv

\* The elements are numbers, shared out among the lanes.
LEMMA MembersAreShared ==
  ASSUME RoundInv, Fetched
  PROVE  /\ \A p \in Members : p \in Nat /\ p % Lanes \in LaneIds
         /\ \A pos \in Positions : pos \in FPos /\ pos \in Nat /\ pos % Lanes \in LaneIds
<1>1. \A p \in Members : p \in Nat
  BY MemberTypes DEF RoundInv
<1>2. \A pos \in Positions : pos \in FPos /\ pos \in Nat
  BY PositionsAre, FSizes DEF RoundInv, BlockTypes
<1> QED BY <1>1, <1>2, LanesAre

LEMMA NothingPends ==
  ASSUME RoundInv, Fetched, \A k \in LaneIds : lane[k].at # "stage"
  PROVE  \A p \in Members : ~Pending(p)
BY MembersAreShared DEF Pending

LEMMA StageEnds ==
  ASSUME RoundInv, NEW l \in LaneIds, LoopEnds(l), lane[l].at = "stage"
  PROVE  RoundInv'
<1>1. /\ step = "block" /\ lane[l].rest = {} /\ Go(l, "staged")
      /\ UNCHANGED <<input, kind, step, todo, count, elem, actr, atag, ahead, anext, block, drops>>
      /\ UNCHANGED <<aidx, gcount, tab, lchain, staged, mlist, built, out>>
  BY DEF LoopEnds, inputVars, setVars, sharedVars, outVars
<1>2. Frame
  BY <1>1 DEF Frame
<1>3. LaneTypes /\ BlockTypes /\ PhaseInv
  BY DEF RoundInv
<1>4. /\ LaneTypes' /\ Others(l) /\ SamePass(l)
      /\ lane'[l].at = "staged" /\ lane'[l].rest = lane[l].rest /\ lane'[l].oth = lane[l].oth
  BY <1>1, <1>3, GoEffect DEF LanePlaces
<1>5. Staging
  BY <1>1, <1>3, PhaseAt
<1>6. 0 \in LaneIds
  BY LanesAre
<1>7. \A k \in LaneIds : k # l => lane'[k] = lane[k]
  BY <1>4 DEF Others
<1>8. Agree' /\ NoWalk' /\ SamePass(0)
  BY <1>3, <1>4, <1>5, <1>6, LanesKept DEF Staging
<1>9. Fetched' /\ Fetched
  BY <1>1, <1>4, <1>5, <1>6, <1>7 DEF Fetched, Staging, All
<1>10. \A p \in Members : Pending(p)' <=> Pending(p)
  <2> SUFFICES ASSUME NEW p \in Members PROVE Pending(p)' <=> Pending(p)
    OBVIOUS
  <2>1. PICK k \in LaneIds : k = p % Lanes
    BY <1>9, MembersAreShared
  <2>2. k # l => lane'[k] = lane[k]
    BY <1>7
  <2>3. k = l => ~Pending(p) /\ ~Pending(p)'
    BY <1>1, <1>4, <2>1 DEF Pending
  <2> QED BY <2>1, <2>2, <2>3 DEF Pending
<1>11. StagedInv'
  BY <1>1, <1>5, <1>8, <1>10, StagedKept DEF Staging
<1>12. Staging'
  <2>1. All({"stage", "staged"})'
    BY <1>4, <1>5, <1>7 DEF Staging, All
  <2>2. /\ Members' = Members /\ \A p : InPass(0, p)' <=> InPass(0, p)
    BY <1>1, <1>8, SameGroup
  <2>3. ASSUME NEW k \in LaneIds, lane'[k].at = "stage", NEW p \in lane'[k].rest
        PROVE  p \in Members' /\ InPass(0, p)' /\ p % Lanes = k
    <3>1. lane[k].at = "stage" /\ p \in lane[k].rest
      BY <1>4, <1>7, <2>3
    <3> QED BY <1>5, <2>2, <3>1 DEF Staging
  <2>4. TabChains(IF kind.mfirst THEN Positions ELSE {})'
    <3>1. Positions' = Positions /\ \A S, h : InSlot(S, h)' = InSlot(S, h)
      BY <1>1, SamePositions
    <3> QED BY <1>1, <1>5, <3>1 DEF Staging, TabChains
  <2> QED BY <1>1, <1>5, <1>8, <1>11, <2>1, <2>3, <2>4 DEF Staging
<1>13. BlockTypes'
  BY <1>1, <1>3 DEF BlockTypes
<1>14. Emitting => Emitting'
  BY <1>5, <1>6 DEF Emitting, Staging, All
<1>15. SetInv' /\ Quiet' /\ MembersInv' /\ MadeInv'
  BY <1>1, <1>2, <1>4, <1>9, <1>14, PassKeeps
<1> QED BY <1>4, <1>12, <1>13, <1>15 DEF RoundInv, PhaseInv

LEMMA TallyKeeps == ASSUME RoundInv, NEW l \in LaneIds, Tally(l) PROVE RoundInv'
<1>1. /\ step = "block" /\ lane[l].at = "tally" /\ Go(l, "tallied")
      /\ UNCHANGED <<input, kind, step, todo, count, elem, actr, atag, ahead, anext, block, drops>>
      /\ UNCHANGED <<aidx, gcount, tab, lchain, staged, mlist, built, out>>
  BY DEF Tally, At, inputVars, setVars, outVars
<1>2. Frame
  BY <1>1 DEF Frame
<1>3. LaneTypes /\ BlockTypes /\ PhaseInv
  BY DEF RoundInv
<1>4. /\ LaneTypes' /\ Others(l) /\ SamePass(l)
      /\ lane'[l].at = "tallied" /\ lane'[l].rest = lane[l].rest /\ lane'[l].oth = lane[l].oth
  BY <1>1, <1>3, GoEffect DEF LanePlaces
<1>5. Tallying
  BY <1>1, <1>3, PhaseAt
<1>6. 0 \in LaneIds
  BY LanesAre
<1>7. NoWalk' /\ \A k \in LaneIds : IsWhole(k)' <=> IsWhole(k)
  BY <1>3, <1>4, <1>5, LanesKept DEF Tallying
<1>8. Fetched' /\ Fetched
  BY <1>1, <1>4, <1>5, <1>6 DEF Fetched, Tallying, All, Others
<1>9. Tallying'
  BY <1>4, <1>5, <1>7 DEF Tallying, All, Others
<1>10. BlockTypes'
  BY <1>1, <1>3 DEF BlockTypes
<1>11. Emitting => Emitting'
  BY <1>5, <1>6 DEF Emitting, Tallying, All
<1>12. SetInv' /\ Quiet' /\ MembersInv' /\ MadeInv'
  BY <1>1, <1>2, <1>4, <1>8, <1>11, PassKeeps
<1> QED BY <1>4, <1>9, <1>10, <1>12 DEF RoundInv, PhaseInv

\* However the parts fit: the level is one of those there are.
LEMMA SplitLevelIs == SplitLevel(cnt8) \in 1 .. MaxSpill
<1>1. PICK S : S = {lv \in 1 .. MaxSpill : Fits(cnt8, lv)} \cup {MaxSpill}
  OBVIOUS
<1>2. S \subseteq 1 .. MaxSpill /\ S \in SUBSET Nat /\ S # {}
  BY <1>1, FSizes
<1> QED BY <1>1, <1>2, MinIsLeast DEF SplitLevel

LEMMA ChooseKeeps == ASSUME RoundInv, NEW l \in LaneIds, Choose(l) PROVE RoundInv'
<1>1. /\ step = "block" /\ lane[l].at = "choose"
      /\ lane' = [lane EXCEPT ![l] = [@ EXCEPT !.at = "chosen", !.xb = SplitLevel(cnt8), !.xp = 0,
                                               !.parts = 2 ^ SplitLevel(cnt8), !.counted = TRUE]]
      /\ UNCHANGED <<input, kind, step, todo, count, elem, actr, atag, ahead, anext, block, drops>>
      /\ UNCHANGED <<aidx, gcount, tab, lchain, staged, mlist, built, out>> /\ cnt8' = cnt8
  BY DEF Choose, At, inputVars, setVars, outVars, sharedVars
<1>2. Frame
  BY <1>1 DEF Frame
<1>3. LaneTypes /\ BlockTypes /\ PhaseInv /\ MadeInv /\ MembersInv
  BY DEF RoundInv
<1>4. PICK xb \in 1 .. MaxSpill : xb = SplitLevel(cnt8)
  BY SplitLevelIs
<1>5. PICK parts \in Nat \ {0} : parts = 2 ^ xb
  BY TwoPowers, FSizes
<1>6. PICK r \in LaneRec : r = lane[l]
  BY <1>3 DEF LaneTypes
<1>7. PICK q : q = [r EXCEPT !.at = "chosen", !.xb = xb, !.xp = 0, !.parts = parts, !.counted = TRUE]
  OBVIOUS
<1>8. /\ q \in LaneRec /\ q.at = "chosen" /\ q.rest = r.rest /\ q.oth = r.oth
      /\ q.xb = xb /\ q.xp = 0 /\ q.parts = parts /\ q.counted = TRUE
  <2>1. xb \in 0 .. MaxSpill /\ parts \in Nat
    BY FSizes
  <2> QED BY <1>7, <2>1 DEF LaneRec, LanePlaces
<1>9. lane' = [lane EXCEPT ![l] = q]
  BY <1>1, <1>4, <1>5, <1>6, <1>7
<1>10. lane'[l] = q /\ LaneTypes' /\ \A k \in LaneIds : k # l => lane'[k] = lane[k]
  BY <1>3, <1>8, <1>9, OneLane DEF Others
<1>11. Choosing
  BY <1>1, <1>3, PhaseAt
<1>12. 0 \in LaneIds
  BY LanesAre
<1>13. SplitLevel(cnt8)' = xb
  BY <1>1, <1>4
<1>14. Choosing'
  <2>1. All({"choose", "chosen"})'
    BY <1>8, <1>10, <1>11 DEF Choosing, All
  <2>2. NoWalk'
    BY <1>6, <1>8, <1>10, <1>11 DEF Choosing, NoWalk
  <2>3. ASSUME NEW k \in LaneIds, lane'[k].at = "choose" PROVE IsWhole(k)'
    <3>1. k # l /\ lane'[k] = lane[k]
      BY <1>8, <1>10, <2>3
    <3>2. IsWhole(k)
      BY <1>11, <2>3, <3>1 DEF Choosing
    <3> QED BY <3>1, <3>2 DEF IsWhole
  <2>4. ASSUME NEW k \in LaneIds, lane'[k].at = "chosen"
        PROVE  /\ lane'[k].xb = SplitLevel(cnt8)' /\ lane'[k].xp = 0
               /\ lane'[k].parts = 2 ^ lane'[k].xb /\ lane'[k].counted = TRUE
    <3>1. CASE k = l
      BY <1>5, <1>8, <1>10, <1>13, <3>1
    <3>2. CASE k # l
      <4>1. lane'[k] = lane[k] /\ lane[k].at = "chosen"
        BY <1>10, <2>4, <3>2
      <4> QED BY <1>4, <1>11, <1>13, <4>1 DEF Choosing
    <3> QED BY <3>1, <3>2
  <2> QED BY <2>1, <2>2, <2>3, <2>4 DEF Choosing
<1>15. BlockTypes'
  BY <1>1, <1>3 DEF BlockTypes
<1>16. SetInv' /\ Quiet'
  BY <1>2, FrameKeeps
<1>17. Fetched' /\ Fetched
  BY <1>1, <1>8, <1>10, <1>11, <1>12 DEF Fetched, Choosing, All
<1>18. MembersInv'
  BY <1>1, <1>3, <1>17, MembersKept
<1>19. ~Emitting
  BY <1>11, <1>12 DEF Emitting, Choosing, All
<1>20. MadeInv'
  <2>1. CASE l # 0
    <3>1. SamePass(0)
      BY <1>10, <1>12, <2>1 DEF SamePass
    <3> QED BY <1>1, <1>3, <1>17, <1>19, <3>1, MadeKept
  <2>2. CASE l = 0
    <3>1. out' = {}
      <4>1. IsWhole(0)
        BY <1>1, <1>11, <1>12, <2>2 DEF Choosing
      <4> QED BY <1>1, <1>3, <1>19, <4>1 DEF MadeInv, FirstInv
    <3>2. lane'[0].xp = 0
      BY <1>8, <1>10, <2>2
    <3>3. (\A p \in Members :
             /\ p \in Nat /\ SlotOf(p) \in SlotIds /\ elem[SlotOf(p)] \in DOMAIN input
             /\ input[elem[SlotOf(p)]].bucket = block.bucket
             /\ KeyOf(p) \in RoundKeys /\ SlotKey(p) \in Slots /\ PartOf(p) \in 0 .. 2 ^ lane[0].xb - 1
             /\ PartOf(p) \in Nat)'
      <4>1. (SetInv /\ BlockTypes /\ LaneTypes /\ MembersInv /\ Fetched)'
        BY <1>10, <1>15, <1>16, <1>17, <1>18
      <4> QED BY <4>1, MemberTypes, PTL
    <3>4. PassedInv'
      BY <3>2, <3>3 DEF PassedInv
    <3>5. OnceInv'
      BY <3>1, FS_EmptySet DEF OnceInv
    <3> QED BY <3>1, <3>4, <3>5 DEF MadeInv, ChildInv, FirstInv
  <2> QED BY <2>1, <2>2
<1> QED BY <1>10, <1>14, <1>15, <1>16, <1>18, <1>20 DEF RoundInv, PhaseInv

\* A boolean that is not FALSE, and one that a lane has.
LEMMA CountedIs == LaneTypes => \A l \in LaneIds : lane[l].counted \in BOOLEAN /\ lane[l].rest \in SUBSET Nat
BY RecFields DEF LaneTypes

LEMMA ChainEnds ==
  ASSUME RoundInv, NEW l \in LaneIds, LoopEnds(l), lane[l].at = "chain"
  PROVE  RoundInv'
<1>1. /\ step = "block" /\ lane[l].rest = {} /\ Go(l, "chained")
      /\ UNCHANGED <<input, kind, step, todo, count, elem, actr, atag, ahead, anext, block, drops>>
      /\ UNCHANGED <<aidx, gcount, tab, lchain, staged, mlist, built, out>>
  BY DEF LoopEnds, inputVars, setVars, sharedVars, outVars
<1>2. Frame
  BY <1>1 DEF Frame
<1>3. LaneTypes /\ BlockTypes /\ PhaseInv
  BY DEF RoundInv
<1>4. /\ LaneTypes' /\ Others(l) /\ SamePass(l)
      /\ lane'[l].at = "chained" /\ lane'[l].rest = lane[l].rest /\ lane'[l].oth = lane[l].oth
  BY <1>1, <1>3, GoEffect DEF LanePlaces
<1>5. Forming
  BY <1>1, <1>3, PhaseAt DEF Formed
<1>6. 0 \in LaneIds
  BY LanesAre
<1>7. \A k \in LaneIds : k # l => lane'[k] = lane[k]
  BY <1>4 DEF Others
<1>8. Agree' /\ NoWalk' /\ SamePass(0)
  BY <1>3, <1>4, <1>5, <1>6, LanesKept DEF Forming
<1>9. Fetched' /\ Fetched
  BY <1>1, <1>4, <1>5, <1>6, <1>7 DEF Fetched, Forming, Formed, All
<1>10. /\ \A p \in Members : ~Pending(p)
       /\ \A pos \in Positions : pos \in Nat /\ pos % Lanes \in LaneIds
  BY <1>5, <1>9, MembersAreShared, NothingPends DEF Forming, Formed, All
<1>11. \A p \in Members : ~Pending(p)'
  <2>1. \A k \in LaneIds : lane'[k].at # "stage"
    BY <1>4, <1>5, <1>7 DEF Forming, Formed, All
  <2> QED BY <1>9, <2>1, MembersAreShared DEF Pending
<1>12. StagedInv'
  BY <1>1, <1>5, <1>8, <1>10, <1>11, StagedKept DEF Forming
<1>13. /\ Positions' = Positions
       /\ \A x : PosSlot(x)' = PosSlot(x) /\ (Multi(x)' <=> Multi(x))
       /\ \A S, h : InSlot(S, h)' = InSlot(S, h)
  BY <1>1, SamePositions
<1>14. \A pos \in Positions : Unchained(pos)' <=> Unchained(pos)
  <2> SUFFICES ASSUME NEW pos \in Positions PROVE Unchained(pos)' <=> Unchained(pos)
    OBVIOUS
  <2>1. PICK k \in LaneIds : k = pos % Lanes
    BY <1>10
  <2>2. k # l => lane'[k] = lane[k]
    BY <1>7
  <2>3. k = l => ~Unchained(pos) /\ ~Unchained(pos)'
    BY <1>1, <1>4, <2>1 DEF Unchained
  <2> QED BY <2>1, <2>2, <2>3 DEF Unchained
<1>15. \A k \in LaneIds : /\ lane'[k].at = "zeroed" <=> lane[k].at = "zeroed"
                          /\ lane'[k].at \in Formed <=> lane[k].at \in Formed
                          /\ lane'[k].at \in {"compacted", "chain", "chained"} <=>
                               lane[k].at \in {"compacted", "chain", "chained"}
                          /\ lane'[k].at = "chain" => lane[k].at = "chain" /\ lane'[k].rest = lane[k].rest
  BY <1>1, <1>4, <1>7 DEF Formed
<1>16. lane[l].at \in Formed /\ \A k \in LaneIds : lane[k].at # "zeroed"
  <2>1. lane[l].at \in Formed
    BY DEF Formed
  <2> QED BY <1>5, <2>1 DEF Forming, All
<1>17. Forming'
  <2>1. All({"decide", "zeroed"} \cup Formed)'
    BY <1>4, <1>5, <1>7 DEF Forming, All, Formed
  <2>2. (\E k \in LaneIds : lane'[k].at \in Formed) => gcount' <= FCap \/ lane'[0].counted = TRUE
    BY <1>1, <1>5, <1>8, <1>15 DEF Forming, SamePass
  <2>3. lane'[0].at \in Formed /\ gcount' > FCap => "stage" \in drops'
    BY <1>1, <1>5, <1>6, <1>15 DEF Forming
  <2>4. kind'.mfirst => All({"chain", "chained"})'
    <3> SUFFICES ASSUME kind.mfirst PROVE All({"chain", "chained"})'
      BY <1>1
    <3>1. All({"chain", "chained"})
      BY <1>5 DEF Forming, All
    <3> QED BY <1>4, <1>7, <3>1 DEF All
  <2>5. ~kind'.mfirst => All({"decide", "zeroed", "chain", "chained"})'
    BY <1>1, <1>4, <1>5, <1>7 DEF Forming, All
  <2>6. TabChains(IF kind.mfirst THEN Positions ELSE {pos \in Positions : ~Unchained(pos)})'
    <3>1. (IF kind.mfirst THEN Positions ELSE {pos \in Positions : ~Unchained(pos)})'
          = IF kind.mfirst THEN Positions ELSE {pos \in Positions : ~Unchained(pos)}
      BY <1>1, <1>13, <1>14
    <3> QED BY <1>1, <1>5, <1>13, <3>1 DEF Forming, TabChains
  <2>7. mlist' \subseteq Positions'
    BY <1>1, <1>5, <1>13 DEF Forming
  <2>8. (kind.mfirst => \A pos \in Positions :
           Multi(pos) /\ lane[PosSlot(pos) % Lanes].at \in {"compacted", "chain", "chained"} => pos \in mlist)'
    <3> SUFFICES ASSUME kind.mfirst, NEW pos \in Positions, Multi(pos) PROVE pos \in mlist
      BY <1>1, <1>13
    <3>1. PosSlot(pos) \in Slots
      BY <1>5, <1>9, StagedAre DEF RoundInv, Forming
    <3>2. PosSlot(pos) \in Nat
      BY <3>1 DEF Slots
    <3>3. PosSlot(pos) % Lanes \in LaneIds
      BY <3>2, LanesAre
    <3>4. All({"chain", "chained"})
      BY <1>5 DEF Forming, All
    <3> QED BY <1>5, <3>3, <3>4 DEF Forming, All
  <2>9. (\A k \in LaneIds : lane[k].at = "chain" => \A pos \in lane[k].rest : pos \in Positions /\ pos % Lanes = k)'
    BY <1>5, <1>13, <1>15 DEF Forming
  <2>10. (\A pos \in Positions : Multi(pos) /\ ~Unchained(pos) => pos \in built)'
    BY <1>1, <1>5, <1>13, <1>14 DEF Forming
  <2>11. \A k \in LaneIds : lane'[k].at # "zeroed"
    BY <1>15, <1>16
  <2> QED BY <1>8, <1>12, <2>1, <2>2, <2>3, <2>4, <2>5, <2>6, <2>7, <2>8, <2>9, <2>10, <2>11 DEF Forming
<1>18. BlockTypes'
  BY <1>1, <1>3 DEF BlockTypes
<1>19. Emitting => Emitting'
  BY <1>5, <1>6 DEF Emitting, Forming, Formed, All
<1>20. SetInv' /\ Quiet' /\ MembersInv' /\ MadeInv'
  BY <1>1, <1>2, <1>4, <1>9, <1>19, PassKeeps
<1> QED BY <1>4, <1>17, <1>18, <1>20 DEF RoundInv, PhaseInv

\* A chain that staging has built leads to earlier and earlier places, and ends.
LEMMA LinkTrails ==
  ASSUME BlockTypes, kind.mfirst
  PROVE  \A a \in FPos : \E n : \E w : Trail(n, w, a, lchain, FPos)
<1> DEFINE Bad == {a \in FPos : ~\E n : \E w : Trail(n, w, a, lchain, FPos)}
<1> SUFFICES ASSUME Bad # {} PROVE FALSE
  OBVIOUS
<1>1. Bad \in SUBSET Nat
  BY FSizes
<1>2. PICK k : k \in Bad /\ \A y \in Bad : k <= y
  <2> HIDE DEF Bad
  <2> QED BY <1>1, MinIsLeast
<1>3. k \in FPos /\ k \in Nat
  BY <1>2, FSizes
<1>4. CASE lchain[k] = None
  <2>1. PICK w : w = [i \in 1 .. 1 |-> k]
    OBVIOUS
  <2>2. w \in [1 .. 1 -> FPos] /\ w[1] = k
    BY <1>3, <2>1
  <2>3. Trail(1, w, k, lchain, FPos)
    BY <1>4, <2>2 DEF Trail, Links
  <2> QED BY <1>2, <2>3
<1>5. CASE lchain[k] # None
  <2>1. lchain[k] \in FPos /\ lchain[k] < k /\ lchain[k] \in Nat
    BY <1>3, <1>5, FSizes DEF BlockTypes
  <2>2. lchain[k] \notin Bad
    BY <1>2, <1>3, <2>1
  <2>3. PICK n, w : Trail(n, w, lchain[k], lchain, FPos)
    BY <2>1, <2>2
  <2>4. PICK nx : nx = lchain
    OBVIOUS
  <2>5. \E v : Trail(n + 1, v, k, nx, FPos)
    BY <1>3, <2>3, <2>4, TrailGrows
  <2> QED BY <1>2, <2>4, <2>5
<1> QED BY <1>4, <1>5

LEMMA SlotChainIs ==
  ASSUME BlockTypes, kind.mfirst, TabChains(Positions), NEW h \in Slots
  PROVE  /\ tab[h].head # None => ChainOf(tab[h].head) = InSlot(Positions, h)
         /\ \A x, y \in InSlot(Positions, h) : x # y => Chained(tab[h].head)
<1>1. PICK S : S = InSlot(Positions, h)
  OBVIOUS
<1>2. PICK n \in Nat : \E w \in [1 .. n -> S] : Lists(n, w, S) /\ IsChain(n, w, tab[h].head, lchain)
  BY <1>1 DEF TabChains, ChainIs
<1>3. PICK w \in [1 .. n -> S] : Lists(n, w, S) /\ IsChain(n, w, tab[h].head, lchain)
  BY <1>2
<1>4. S \subseteq FPos
  BY <1>1, PositionsAre DEF InSlot, BlockTypes
<1>5. w \in [1 .. n -> FPos]
  BY <1>4
<1>6. Links(n, w, lchain) /\ tab[h].head = IF n = 0 THEN None ELSE w[1]
  BY <1>3 DEF IsChain
<1>7. lchain \in [FPos -> {None} \cup FPos]
  BY DEF BlockTypes
<1>8. ASSUME tab[h].head # None PROVE ChainOf(tab[h].head) = S
  <2>1. n \in Nat \ {0} /\ tab[h].head = w[1]
    BY <1>6, <1>8
  <2>2. ChainOf(w[1]) = {w[i] : i \in 1 .. n}
    BY <1>5, <1>6, <1>7, <2>1, LinkTrails, ChainOfIs
  <2>3. {w[i] : i \in 1 .. n} = S
    BY <1>3 DEF Lists
  <2> QED BY <2>1, <2>2, <2>3
<1>9. ASSUME NEW x \in S, NEW y \in S, x # y PROVE Chained(tab[h].head)
  <2>1. PICK i \in 1 .. n : w[i] = x
    BY <1>3 DEF Lists
  <2>2. PICK j \in 1 .. n : w[j] = y
    BY <1>3 DEF Lists
  <2>3. n # 0 /\ n # 1 /\ 1 \in 1 .. n /\ 2 \in 1 .. n
    BY <1>9, <2>1, <2>2
  <2>4. lchain[w[1]] = w[2] /\ w[2] \in FPos /\ w[1] \in FPos
    BY <1>5, <1>6, <2>3 DEF Links
  <2> QED BY <1>6, <2>3, <2>4, NoneIsNoPlace DEF Chained
<1> QED BY <1>1, <1>8, <1>9

LEMMA CompactKeeps == ASSUME RoundInv, NEW l \in LaneIds, Compact(l) PROVE RoundInv'
<1>1. /\ step = "block" /\ lane[l].at = "compact" /\ Go(l, "compacted")
      /\ mlist' = mlist \cup UNION {ChainOf(tab[h].head) : h \in {s \in Shares(l, Slots) : Chained(tab[s].head)}}
      /\ UNCHANGED <<input, kind, step, todo, count, elem, actr, atag, ahead, anext, block, drops>>
      /\ UNCHANGED <<aidx, gcount, tab, lchain, staged, built, out>>
  BY DEF Compact, At, inputVars, setVars, outVars
<1>2. Frame
  BY <1>1 DEF Frame
<1>3. LaneTypes /\ BlockTypes /\ PhaseInv
  BY DEF RoundInv
<1>4. /\ LaneTypes' /\ Others(l) /\ SamePass(l)
      /\ lane'[l].at = "compacted" /\ lane'[l].rest = lane[l].rest /\ lane'[l].oth = lane[l].oth
  BY <1>1, <1>3, GoEffect DEF LanePlaces
<1>5. Forming
  BY <1>1, <1>3, PhaseAt DEF Formed
<1>6. 0 \in LaneIds
  BY LanesAre
<1>7. \A k \in LaneIds : k # l => lane'[k] = lane[k]
  BY <1>4 DEF Others
<1>8. Agree' /\ NoWalk' /\ SamePass(0)
  BY <1>3, <1>4, <1>5, <1>6, LanesKept DEF Forming
<1>9. Fetched' /\ Fetched
  BY <1>1, <1>4, <1>5, <1>6, <1>7 DEF Fetched, Forming, Formed, All
<1>10. /\ \A p \in Members : ~Pending(p)
       /\ \A pos \in Positions : pos \in FPos /\ pos \in Nat /\ pos % Lanes \in LaneIds
  BY <1>5, <1>9, MembersAreShared, NothingPends DEF Forming, Formed, All
<1>11. \A p \in Members : ~Pending(p)'
  <2>1. \A k \in LaneIds : lane'[k].at # "stage"
    BY <1>4, <1>5, <1>7 DEF Forming, Formed, All
  <2> QED BY <1>9, <2>1, MembersAreShared DEF Pending
<1>12. StagedInv'
  BY <1>1, <1>5, <1>8, <1>10, <1>11, StagedKept DEF Forming
<1>13. /\ Positions' = Positions
       /\ \A x : PosSlot(x)' = PosSlot(x) /\ (Multi(x)' <=> Multi(x))
       /\ \A S, h : InSlot(S, h)' = InSlot(S, h)
  BY <1>1, SamePositions
<1>14. kind.mfirst /\ All({"decide", "zeroed", "compact", "compacted"})
  BY <1>1, <1>5 DEF Forming, All
<1>15. lane[l].at \in Formed /\ \A k \in LaneIds : lane[k].at # "zeroed"
  <2>1. lane[l].at \in Formed
    BY <1>1 DEF Formed
  <2> QED BY <1>1, <1>5, <2>1 DEF Forming, All
<1>16. TabChains(Positions)
  BY <1>5, <1>14 DEF Forming
<1>17. \A h \in Slots : Chained(tab[h].head) => ChainOf(tab[h].head) = InSlot(Positions, h)
  BY <1>3, <1>14, <1>16, SlotChainIs DEF Chained
<1>18. mlist' \subseteq Positions
  <2>1. mlist \subseteq Positions
    BY <1>5 DEF Forming
  <2>2. \A h \in Slots : Chained(tab[h].head) => ChainOf(tab[h].head) \subseteq Positions
    BY <1>17 DEF InSlot
  <2> QED BY <1>1, <2>1, <2>2 DEF Shares
<1>19. ASSUME NEW pos \in Positions, Multi(pos), PosSlot(pos) % Lanes = l PROVE pos \in mlist'
  <2>1. PICK h \in Slots : h = PosSlot(pos)
    BY <1>5, <1>9, StagedAre DEF RoundInv, Forming
  <2>2. PICK other \in Positions : other # pos /\ PosSlot(other) = h
    BY <1>19, <2>1 DEF Multi
  <2>3. pos \in InSlot(Positions, h) /\ other \in InSlot(Positions, h)
    BY <2>1, <2>2 DEF InSlot
  <2>4. Chained(tab[h].head)
    BY <1>3, <1>14, <1>16, <2>2, <2>3, SlotChainIs
  <2>5. pos \in ChainOf(tab[h].head)
    BY <1>17, <2>3, <2>4
  <2>6. h \in Shares(l, Slots)
    BY <1>19, <2>1 DEF Shares
  <2> QED BY <1>1, <2>4, <2>5, <2>6
<1>20. Forming'
  <2>1. All({"decide", "zeroed"} \cup Formed)' /\ All({"decide", "zeroed", "compact", "compacted"})'
    BY <1>4, <1>5, <1>7, <1>14 DEF Forming, All, Formed
  <2>2. \A k \in LaneIds : /\ lane'[k].at # "zeroed" /\ lane'[k].at # "chain"
                           /\ lane'[k].at \in Formed <=> lane[k].at \in Formed
    BY <1>1, <1>4, <1>7, <1>14, <1>15 DEF All, Formed
  <2>3. (\E k \in LaneIds : lane'[k].at \in Formed) => gcount' <= FCap \/ lane'[0].counted = TRUE
    BY <1>1, <1>5, <1>8, <2>2 DEF Forming, SamePass
  <2>4. lane'[0].at \in Formed /\ gcount' > FCap => "stage" \in drops'
    BY <1>1, <1>5, <1>6, <2>2 DEF Forming
  <2>5. TabChains(IF kind.mfirst THEN Positions ELSE {pos \in Positions : ~Unchained(pos)})'
    <3>1. TabChains(Positions)'
      BY <1>1, <1>13, <1>16 DEF TabChains
    <3> QED BY <1>1, <1>14, <3>1
  <2>6. (kind.mfirst => \A pos \in Positions :
           Multi(pos) /\ lane[PosSlot(pos) % Lanes].at \in {"compacted", "chain", "chained"} => pos \in mlist)'
    <3> SUFFICES ASSUME NEW pos \in Positions, Multi(pos),
                        lane'[PosSlot(pos) % Lanes].at \in {"compacted", "chain", "chained"}
                 PROVE  pos \in mlist'
      BY <1>13
    <3>1. PosSlot(pos) \in Slots
      BY <1>5, <1>9, StagedAre DEF RoundInv, Forming
    <3>2. PosSlot(pos) \in Nat
      BY <3>1 DEF Slots
    <3>3. PICK k \in LaneIds : k = PosSlot(pos) % Lanes
      BY <3>2, LanesAre
    <3>4. CASE k = l
      BY <1>19, <3>3, <3>4
    <3>5. CASE k # l
      <4>1. lane[k].at \in {"compacted", "chain", "chained"}
        BY <1>7, <3>3, <3>5
      <4>2. pos \in mlist
        BY <1>5, <1>14, <3>3, <4>1 DEF Forming
      <4> QED BY <1>1, <4>2
    <3> QED BY <3>4, <3>5
  <2>7. (\A pos \in Positions : Unchained(pos))'
    BY <1>10, <1>13, <2>1 DEF Unchained, All
  <2> QED BY <1>1, <1>8, <1>12, <1>13, <1>14, <1>18, <2>1, <2>2, <2>3, <2>4, <2>5, <2>6, <2>7 DEF Forming
<1>21. BlockTypes'
  <2>1. mlist' \subseteq FPos
    BY <1>10, <1>18
  <2> QED BY <1>1, <1>3, <2>1 DEF BlockTypes
<1>22. Emitting => Emitting'
  BY <1>5, <1>6 DEF Emitting, Forming, Formed, All
<1>23. SetInv' /\ Quiet' /\ MembersInv' /\ MadeInv'
  BY <1>1, <1>2, <1>4, <1>9, <1>22, PassKeeps
<1> QED BY <1>4, <1>20, <1>21, <1>23 DEF RoundInv, PhaseInv

LEMMA ExpandKeeps == ASSUME RoundInv, NEW l \in LaneIds, Expand(l) PROVE RoundInv'
<1>1. PICK p : p = Min(lane[l].rest)
  OBVIOUS
<1>2. /\ step = "block" /\ lane[l].at = "chain" /\ lane[l].rest # {} /\ Tick(l, p) /\ built' = built \cup {p}
      /\ kind.mfirst => UNCHANGED <<tab, lchain>>
      /\ ~kind.mfirst => Chain(p, PosKey(p))
      /\ UNCHANGED <<input, kind, step, todo, count, elem, actr, atag, ahead, anext, block, drops>>
      /\ UNCHANGED <<aidx, gcount, staged, mlist, out>>
  BY <1>1 DEF Expand, At, inputVars, setVars, outVars
<1>3. Frame
  BY <1>2 DEF Frame
<1>4. LaneTypes /\ BlockTypes /\ PhaseInv
  BY DEF RoundInv
<1>5. /\ LaneTypes' /\ Others(l) /\ SamePass(l)
      /\ lane'[l].at = lane[l].at /\ lane'[l].rest = lane[l].rest \ {p} /\ lane'[l].oth = lane[l].oth
  BY <1>2, <1>4, TickEffect
<1>6. Forming
  BY <1>2, <1>4, PhaseAt DEF Formed
<1>7. 0 \in LaneIds
  BY LanesAre
<1>8. \A k \in LaneIds : k # l => lane'[k] = lane[k]
  BY <1>5 DEF Others
<1>9. Agree' /\ NoWalk' /\ SamePass(0)
  BY <1>4, <1>5, <1>6, <1>7, LanesKept DEF Forming
<1>10. Fetched' /\ Fetched
  BY <1>2, <1>5, <1>6, <1>7, <1>8 DEF Fetched, Forming, Formed, All
<1>11. /\ \A r \in Members : ~Pending(r)
       /\ \A pos \in Positions : pos \in FPos /\ pos \in Nat /\ pos % Lanes \in LaneIds
  BY <1>6, <1>10, MembersAreShared, NothingPends DEF Forming, Formed, All
<1>12. \A r \in Members : ~Pending(r)'
  <2>1. \A k \in LaneIds : lane'[k].at # "stage"
    BY <1>2, <1>5, <1>6, <1>8 DEF Forming, Formed, All
  <2> QED BY <1>10, <2>1, MembersAreShared DEF Pending
<1>13. StagedInv'
  BY <1>2, <1>6, <1>9, <1>11, <1>12, StagedKept DEF Forming
<1>14. /\ Positions' = Positions
       /\ \A x : PosSlot(x)' = PosSlot(x) /\ (Multi(x)' <=> Multi(x))
       /\ \A S, h : InSlot(S, h)' = InSlot(S, h)
  BY <1>2, SamePositions
<1>15. p \in lane[l].rest
  <2>1. PICK S \in SUBSET Nat : S = lane[l].rest
    BY <1>4, CountedIs
  <2> QED BY <1>1, <1>2, <2>1, MinIsLeast
<1>16. p \in Positions /\ p % Lanes = l /\ Unchained(p) /\ p \in FPos
  <2>1. p \in Positions /\ p % Lanes = l
    BY <1>2, <1>6, <1>15 DEF Forming
  <2>2. Unchained(p)
    BY <1>2, <1>15, <2>1 DEF Unchained
  <2> QED BY <1>11, <2>1, <2>2
<1>17. \A pos \in Positions : Unchained(pos)' <=> Unchained(pos) /\ pos # p
  <2> SUFFICES ASSUME NEW pos \in Positions PROVE Unchained(pos)' <=> Unchained(pos) /\ pos # p
    OBVIOUS
  <2>1. PICK k \in LaneIds : k = pos % Lanes
    BY <1>11
  <2>2. CASE k = l
    <3>1. Unchained(pos)' <=> pos \in lane[l].rest \ {p}
      BY <1>2, <1>5, <2>1, <2>2 DEF Unchained
    <3>2. Unchained(pos) <=> pos \in lane[l].rest
      BY <1>2, <2>1, <2>2 DEF Unchained
    <3> QED BY <3>1, <3>2
  <2>3. CASE k # l
    <3>1. lane'[k] = lane[k] /\ pos # p
      BY <1>8, <1>16, <2>1, <2>3
    <3> QED BY <2>1, <3>1 DEF Unchained
  <2> QED BY <2>2, <2>3
<1>18. \A k \in LaneIds : lane'[k].at = lane[k].at
  BY <1>5, <1>8
<1>19. lane[l].at \in Formed /\ \A k \in LaneIds : lane[k].at # "zeroed"
  <2>1. lane[l].at \in Formed
    BY <1>2 DEF Formed
  <2> QED BY <1>2, <1>6, <2>1 DEF Forming, All
<1>20. PosSlot(p) \in Slots
  BY <1>6, <1>10, <1>16, StagedAre DEF RoundInv, Forming
<1>21. TabChains(IF kind.mfirst THEN Positions ELSE {pos \in Positions : ~Unchained(pos)})'
  <2>1. CASE kind.mfirst
    <3>1. TabChains(Positions) /\ UNCHANGED <<tab, lchain>>
      BY <1>2, <1>6, <2>1 DEF Forming
    <3>2. TabChains(Positions)'
      BY <1>14, <3>1 DEF TabChains
    <3> QED BY <1>2, <2>1, <3>2
  <2>2. CASE ~kind.mfirst
    <3>1. PICK S, T : S = {pos \in Positions : ~Unchained(pos)} /\ T = {pos \in Positions : ~Unchained(pos)}'
      OBVIOUS
    <3>2. T = S \cup {p} /\ p \notin S /\ S \subseteq FPos
      BY <1>11, <1>14, <1>16, <1>17, <3>1
    <3>3. \A h \in Slots : ChainIs(InSlot(S, h), tab[h].head, lchain)
      BY <1>6, <2>2, <3>1 DEF Forming, TabChains
    <3>4. PICK k : k = PosKey(p)
      OBVIOUS
    <3>5. TabSlot(k) \in Slots /\ Chain(p, k) /\ PosSlot(p)' = TabSlot(k)
      BY <1>2, <1>14, <1>20, <2>2, <3>4 DEF PosSlot
    <3>6. \A h \in Slots : ChainIs(InSlot(T, h)', tab'[h].head, lchain')
      BY <1>4, <1>14, <1>16, <3>2, <3>3, <3>5, ChainsGrow
    <3> QED BY <1>2, <2>2, <3>1, <3>6 DEF TabChains
  <2> QED BY <2>1, <2>2
<1>22. Forming'
  <2>1. /\ All({"decide", "zeroed"} \cup Formed)'
        /\ kind.mfirst => All({"chain", "chained"})'
        /\ ~kind.mfirst => All({"decide", "zeroed", "chain", "chained"})'
    <3>1. kind.mfirst => All({"chain", "chained"})
      BY <1>2, <1>6 DEF Forming, All
    <3> QED BY <1>6, <1>18, <3>1 DEF Forming, All, Formed
  <2>2. (\E k \in LaneIds : lane'[k].at \in Formed) => gcount' <= FCap \/ lane'[0].counted = TRUE
    BY <1>2, <1>6, <1>9, <1>18 DEF Forming, SamePass
  <2>3. lane'[0].at \in Formed /\ gcount' > FCap => "stage" \in drops'
    BY <1>2, <1>6, <1>7, <1>18 DEF Forming
  <2>4. (kind.mfirst => \A pos \in Positions :
           Multi(pos) /\ lane[PosSlot(pos) % Lanes].at \in {"compacted", "chain", "chained"} => pos \in mlist)'
    <3> SUFFICES ASSUME kind.mfirst, NEW pos \in Positions, Multi(pos),
                        lane'[PosSlot(pos) % Lanes].at \in {"compacted", "chain", "chained"}
                 PROVE  pos \in mlist
      BY <1>2, <1>14
    <3>1. PosSlot(pos) \in Slots
      BY <1>6, <1>10, StagedAre DEF RoundInv, Forming
    <3>2. PosSlot(pos) \in Nat
      BY <3>1 DEF Slots
    <3>3. PosSlot(pos) % Lanes \in LaneIds
      BY <3>2, LanesAre
    <3> QED BY <1>6, <1>18, <3>3 DEF Forming
  <2>5. (\A k \in LaneIds : lane[k].at = "chain" => \A pos \in lane[k].rest : pos \in Positions /\ pos % Lanes = k)'
    <3> SUFFICES ASSUME NEW k \in LaneIds, lane[k].at = "chain", NEW pos \in lane'[k].rest
                 PROVE  pos \in Positions /\ pos % Lanes = k
      BY <1>14, <1>18
    <3>1. pos \in lane[k].rest
      BY <1>5, <1>8
    <3> QED BY <1>6, <3>1 DEF Forming
  <2>6. (\A pos \in Positions : Multi(pos) /\ ~Unchained(pos) => pos \in built)'
    BY <1>2, <1>6, <1>14, <1>17 DEF Forming
  <2>7. mlist' \subseteq Positions'
    BY <1>2, <1>6, <1>14 DEF Forming
  <2> QED BY <1>2, <1>9, <1>13, <1>18, <1>19, <1>21, <2>1, <2>2, <2>3, <2>4, <2>5, <2>6, <2>7 DEF Forming
<1>23. BlockTypes'
  <2>1. /\ tab' \in [Slots -> [n : Nat, head : {None} \cup FPos]]
        /\ lchain' \in [FPos -> {None} \cup FPos]
        /\ kind.mfirst => lchain' = lchain
    <3>1. CASE kind.mfirst
      BY <1>2, <1>4, <3>1 DEF BlockTypes
    <3>2. CASE ~kind.mfirst
      <4>1. PICK k : k = PosKey(p)
        OBVIOUS
      <4>2. TabSlot(k) \in Slots /\ Chain(p, k)
        BY <1>2, <1>20, <3>2, <4>1 DEF PosSlot
      <4> QED BY <1>4, <1>16, <3>2, <4>2, ChainTab
    <3> QED BY <3>1, <3>2
  <2>2. built' \subseteq FPos
    BY <1>2, <1>4, <1>16 DEF BlockTypes
  <2> QED BY <1>2, <1>4, <2>1, <2>2 DEF BlockTypes
<1>24. Emitting => Emitting'
  BY <1>6, <1>7 DEF Emitting, Forming, Formed, All
<1>25. SetInv' /\ Quiet' /\ MembersInv' /\ MadeInv'
  BY <1>2, <1>3, <1>5, <1>10, <1>24, PassKeeps
<1> QED BY <1>5, <1>22, <1>23, <1>25 DEF RoundInv, PhaseInv

LEMMA DecideKeeps == ASSUME RoundInv, NEW l \in LaneIds, Decide(l) PROVE RoundInv'
<1>1. /\ step = "block" /\ lane[l].at = "decide"
      /\ UNCHANGED <<input, kind, step, todo, count, elem, actr, atag, ahead, anext, block>>
      /\ UNCHANGED <<aidx, gcount, tab, lchain, staged, mlist, built, out>>
      /\ drops \subseteq drops'
  BY DEF Decide, At, inputVars, setVars, outVars, Drop
<1>2. \/ gcount > FCap /\ ~lane[l].counted /\ Go(l, "zeroed")
      \/ /\ ~(gcount > FCap /\ ~lane[l].counted)
         /\ lane' = [lane EXCEPT ![l] = AfterStaging(l)]
         /\ gcount > FCap /\ l = 0 => "stage" \in drops'
  BY DEF Decide, Drop
<1>3. Frame
  BY <1>1 DEF Frame
<1>4. LaneTypes /\ BlockTypes /\ PhaseInv
  BY DEF RoundInv
<1>5. Forming
  BY <1>1, <1>4, PhaseAt
<1>6. /\ 0 \in LaneIds
      /\ lane[l].counted \in BOOLEAN /\ lane[0].counted \in BOOLEAN /\ lane[0].counted = lane[l].counted
  BY <1>4, <1>5, LanesAre, CountedIs DEF Forming, Agree
<1>7. PICK place, rest : /\ place \in {"zeroed", "compact", "chain"} /\ rest \in SUBSET Nat
                         /\ place = "zeroed" => gcount > FCap /\ ~lane[l].counted
                         /\ place # "zeroed" => /\ ~(gcount > FCap /\ ~lane[l].counted)
                                                /\ gcount > FCap /\ l = 0 => "stage" \in drops'
                         /\ place = "compact" => kind.mfirst
                         /\ place = "chain" => ~kind.mfirst /\ rest = Shares(l, Positions)
                         /\ LaneTypes' /\ Others(l) /\ SamePass(l)
                         /\ lane'[l].at = place /\ lane'[l].rest = rest /\ lane'[l].oth = lane[l].oth
  <2>1. CASE gcount > FCap /\ ~lane[l].counted /\ Go(l, "zeroed")
    <3>1. /\ LaneTypes' /\ Others(l) /\ SamePass(l)
          /\ lane'[l].at = "zeroed" /\ lane'[l].rest = lane[l].rest /\ lane'[l].oth = lane[l].oth
      BY <1>4, <2>1, GoEffect DEF LanePlaces
    <3>2. lane[l].rest \in SUBSET Nat
      BY <1>4, CountedIs
    <3> QED BY <2>1, <3>1, <3>2
  <2>2. CASE /\ ~(gcount > FCap /\ ~lane[l].counted) /\ lane' = [lane EXCEPT ![l] = AfterStaging(l)]
             /\ gcount > FCap /\ l = 0 => "stage" \in drops'
    <3>1. PICK r \in LaneRec : r = lane[l]
      BY <1>4 DEF LaneTypes
    <3>2. CASE kind.mfirst
      <4>1. lane' = [lane EXCEPT ![l] = [r EXCEPT !.at = "compact"]]
        BY <2>2, <3>1, <3>2 DEF AfterStaging
      <4>2. PICK q : q = [r EXCEPT !.at = "compact"]
        OBVIOUS
      <4>3. /\ q \in LaneRec /\ q.at = "compact" /\ q.rest = r.rest /\ q.oth = r.oth
            /\ q.xb = r.xb /\ q.xp = r.xp /\ q.parts = r.parts /\ q.counted = r.counted
        BY <4>2, RecAt DEF LanePlaces
      <4>4. lane'[l] = q /\ Others(l) /\ LaneTypes'
        BY <1>4, <4>1, <4>2, <4>3, OneLane
      <4>5. SamePass(l) /\ r.rest \in SUBSET Nat
        BY <3>1, <4>3, <4>4, RecFields DEF SamePass
      <4> QED BY <2>2, <3>1, <3>2, <4>3, <4>4, <4>5
    <3>3. CASE ~kind.mfirst
      <4>1. PICK rest \in SUBSET Nat : rest = Shares(l, Positions)
        BY <1>4, PositionsAre, FSizes DEF Shares, BlockTypes
      <4>2. PICK q : q = [r EXCEPT !.at = "chain", !.rest = rest]
        OBVIOUS
      <4>3. lane' = [lane EXCEPT ![l] = q]
        BY <2>2, <3>1, <3>3, <4>1, <4>2 DEF AfterStaging
      <4>4. /\ q \in LaneRec /\ q.at = "chain" /\ q.rest = rest /\ q.oth = r.oth
            /\ q.xb = r.xb /\ q.xp = r.xp /\ q.parts = r.parts /\ q.counted = r.counted
        BY <4>2 DEF LaneRec, LanePlaces
      <4>5. lane'[l] = q /\ Others(l) /\ LaneTypes'
        BY <1>4, <4>3, <4>4, OneLane
      <4>6. SamePass(l)
        BY <3>1, <4>4, <4>5 DEF SamePass
      <4> QED BY <2>2, <3>1, <3>3, <4>1, <4>4, <4>5, <4>6
    <3> QED BY <3>2, <3>3
  <2> QED BY <1>2, <2>1, <2>2
<1>8. \A k \in LaneIds : k # l => lane'[k] = lane[k]
  BY <1>7 DEF Others
<1>9. /\ Agree' /\ NoWalk' /\ SamePass(0)
      /\ \A k \in LaneIds : IsWhole(k)' <=> IsWhole(k)
  BY <1>4, <1>5, <1>6, <1>7, LanesKept DEF Forming
<1>10. Fetched' /\ Fetched
  BY <1>1, <1>5, <1>6, <1>7, <1>8 DEF Fetched, Forming, Formed, All
<1>11. /\ \A r \in Members : ~Pending(r)
       /\ \A pos \in Positions : pos \in Nat /\ pos % Lanes \in LaneIds
  BY <1>5, <1>10, MembersAreShared, NothingPends DEF Forming, Formed, All
<1>12. \A r \in Members : ~Pending(r)'
  <2>1. \A k \in LaneIds : lane'[k].at # "stage"
    BY <1>5, <1>7, <1>8 DEF Forming, Formed, All
  <2> QED BY <1>10, <2>1, MembersAreShared DEF Pending
<1>13. StagedInv'
  BY <1>1, <1>5, <1>9, <1>11, <1>12, StagedKept DEF Forming
<1>14. /\ Positions' = Positions
       /\ \A x : PosSlot(x)' = PosSlot(x) /\ (Multi(x)' <=> Multi(x))
       /\ \A S, h : InSlot(S, h)' = InSlot(S, h)
  BY <1>1, SamePositions
<1>15. \A pos \in Positions : Unchained(pos)' <=> Unchained(pos)
  <2> SUFFICES ASSUME NEW pos \in Positions PROVE Unchained(pos)' <=> Unchained(pos)
    OBVIOUS
  <2>1. PICK k \in LaneIds : k = pos % Lanes
    BY <1>11
  <2>2. k # l => lane'[k] = lane[k]
    BY <1>8
  <2>3. k = l => Unchained(pos) /\ Unchained(pos)'
    BY <1>1, <1>7, <2>1 DEF Unchained, Shares
  <2> QED BY <2>1, <2>2, <2>3 DEF Unchained
<1>16. FCap \in Nat /\ gcount \in Nat /\ (gcount > FCap <=> ~(gcount <= FCap))
  BY <1>4, FSizes DEF BlockTypes
<1>17. Forming'
  <2>1. All({"decide", "zeroed"} \cup Formed)'
    BY <1>5, <1>7, <1>8 DEF Forming, All, Formed
  <2>2. (\E k \in LaneIds : lane[k].at = "zeroed")' =>
          All({"decide", "zeroed"})' /\ gcount' > FCap /\ IsWhole(0)'
    <3> SUFFICES ASSUME NEW k \in LaneIds, lane'[k].at = "zeroed"
                 PROVE  All({"decide", "zeroed"})' /\ gcount > FCap /\ IsWhole(0)
      BY <1>1, <1>6, <1>9
    <3>1. CASE k = l
      <4>1. gcount > FCap /\ lane[0].counted = FALSE /\ lane'[l].at = "zeroed"
        BY <1>6, <1>7, <3>1
      <4>2. ~\E m \in LaneIds : lane[m].at \in Formed
        BY <1>5, <1>16, <4>1 DEF Forming
      <4>3. IsWhole(0)
        BY <1>5, <4>1 DEF Forming, Agree, IsPart
      <4> QED BY <1>5, <1>8, <4>1, <4>2, <4>3 DEF Forming, All
    <3>2. CASE k # l
      <4>1. lane[k].at = "zeroed"
        BY <1>8, <3>2
      <4>2. All({"decide", "zeroed"}) /\ gcount > FCap /\ IsWhole(0)
        BY <1>5, <4>1 DEF Forming
      <4>3. lane'[l].at = "zeroed"
        BY <1>6, <1>7, <4>2 DEF IsWhole
      <4> QED BY <1>8, <4>2, <4>3 DEF All
    <3> QED BY <3>1, <3>2
  <2>3. (\E k \in LaneIds : lane[k].at \in Formed)' => gcount' <= FCap \/ lane'[0].counted = TRUE
    <3> SUFFICES ASSUME NEW k \in LaneIds, lane'[k].at \in Formed PROVE gcount <= FCap \/ lane[0].counted = TRUE
      BY <1>1, <1>9 DEF SamePass
    <3>1. CASE k = l
      <4>1. lane'[l].at # "zeroed"
        BY <3>1 DEF Formed
      <4> QED BY <1>6, <1>7, <1>16, <4>1
    <3>2. CASE k # l
      BY <1>5, <1>8, <3>2 DEF Forming
    <3> QED BY <3>1, <3>2
  <2>4. lane'[0].at \in Formed /\ gcount' > FCap => "stage" \in drops'
    <3>1. CASE l = 0
      BY <1>1, <1>7, <3>1 DEF Formed
    <3>2. CASE l # 0
      BY <1>1, <1>5, <1>6, <1>8, <3>2 DEF Forming
    <3> QED BY <3>1, <3>2
  <2>5. kind'.mfirst => All({"decide", "zeroed", "compact", "compacted"})'
    <3> SUFFICES ASSUME kind.mfirst PROVE All({"decide", "zeroed", "compact", "compacted"})'
      BY <1>1
    <3>1. All({"decide", "zeroed", "compact", "compacted"})
      BY <1>1, <1>5 DEF Forming, All
    <3> QED BY <1>7, <1>8, <3>1 DEF All
  <2>6. ~kind'.mfirst => All({"decide", "zeroed", "chain", "chained"})'
    BY <1>1, <1>5, <1>7, <1>8 DEF Forming, All
  <2>7. TabChains(IF kind.mfirst THEN Positions ELSE {pos \in Positions : ~Unchained(pos)})'
    <3>1. (IF kind.mfirst THEN Positions ELSE {pos \in Positions : ~Unchained(pos)})'
          = IF kind.mfirst THEN Positions ELSE {pos \in Positions : ~Unchained(pos)}
      BY <1>1, <1>14, <1>15
    <3> QED BY <1>1, <1>5, <1>14, <3>1 DEF Forming, TabChains
  <2>8. (kind.mfirst => \A pos \in Positions :
           Multi(pos) /\ lane[PosSlot(pos) % Lanes].at \in {"compacted", "chain", "chained"} => pos \in mlist)'
    <3> SUFFICES ASSUME kind.mfirst, NEW pos \in Positions, Multi(pos),
                        lane'[PosSlot(pos) % Lanes].at \in {"compacted", "chain", "chained"}
                 PROVE  pos \in mlist
      BY <1>1, <1>14
    <3>1. PosSlot(pos) \in Slots
      BY <1>5, <1>10, StagedAre DEF RoundInv, Forming
    <3>2. PosSlot(pos) \in Nat
      BY <3>1 DEF Slots
    <3>3. PICK k \in LaneIds : k = PosSlot(pos) % Lanes
      BY <3>2, LanesAre
    <3>4. k # l
      BY <1>7, <3>3
    <3> QED BY <1>5, <1>8, <3>3, <3>4 DEF Forming
  <2>9. (\A k \in LaneIds : lane[k].at = "chain" => \A pos \in lane[k].rest : pos \in Positions /\ pos % Lanes = k)'
    <3> SUFFICES ASSUME NEW k \in LaneIds, lane'[k].at = "chain", NEW pos \in lane'[k].rest
                 PROVE  pos \in Positions /\ pos % Lanes = k
      BY <1>14
    <3>1. CASE k = l
      BY <1>7, <3>1 DEF Shares
    <3>2. CASE k # l
      BY <1>5, <1>8, <3>2 DEF Forming
    <3> QED BY <3>1, <3>2
  <2>10. (\A pos \in Positions : Multi(pos) /\ ~Unchained(pos) => pos \in built)'
    BY <1>1, <1>5, <1>14, <1>15 DEF Forming
  <2>11. mlist' \subseteq Positions'
    BY <1>1, <1>5, <1>14 DEF Forming
  <2> QED BY <1>9, <1>13, <2>1, <2>2, <2>3, <2>4, <2>5, <2>6, <2>7, <2>8, <2>9, <2>10, <2>11 DEF Forming
<1>18. BlockTypes'
  BY <1>1, <1>4 DEF BlockTypes
<1>19. Emitting => Emitting'
  BY <1>5, <1>6 DEF Emitting, Forming, Formed, All
<1>20. SetInv' /\ Quiet' /\ MembersInv' /\ MadeInv'
  BY <1>1, <1>3, <1>7, <1>10, <1>19, PassKeeps
<1> QED BY <1>7, <1>17, <1>18, <1>20 DEF RoundInv, PhaseInv

\* The chain of the element a lane is at: the place the lane has reached on it, and what
\* of it the lane has yet to go.
LEMMA PlaceOnChain ==
  ASSUME NEW l \in LaneIds, lane[l].at = "walk", NEW pos, pos \in lane[l].rest, pos = Min(lane[l].rest),
         pos % Lanes = l, lchain[pos] # None, NEW oth,
         oth = IF lane[l].oth = None THEN lchain[pos] ELSE lane[l].oth,
         NEW S, pos \in S, NEW hd, NEW n \in Nat, NEW w \in [1 .. n -> S], Lists(n, w, S),
         IsChain(n, w, hd, lchain), Ahead(n, w)
  PROVE  \E i \in 1 .. n : \E k \in 1 .. n :
           /\ i < k /\ w[i] = pos /\ w[k] = oth
           /\ \A j \in 1 .. n : i < j => (ToDo(w, i, j) <=> k <= j)
<1>1. PICK i \in 1 .. n : w[i] = pos
  BY DEF Lists
<1>2. Under(w[i])
  BY <1>1 DEF Under
<1>3. AtHand(w[i]) <=> lane[l].oth # None
  BY <1>1, <1>2 DEF AtHand
<1>4. /\ \A a, b \in 1 .. n : w[a] = w[b] => a = b
      /\ lchain[w[i]] = IF i = n THEN None ELSE w[i + 1]
  BY DEF IsChain, Links
<1>5. CASE lane[l].oth = None
  <2>1. i # n /\ oth = w[i + 1] /\ i + 1 \in 1 .. n /\ i < i + 1
    BY <1>1, <1>4, <1>5
  <2>2. \A j \in 1 .. n : i < j => ToDo(w, i, j) /\ i + 1 <= j
    BY <1>2, <1>3, <1>5 DEF ToDo
  <2> QED BY <1>1, <2>1, <2>2
<1>6. CASE lane[l].oth # None
  <2>1. PICK k \in i + 1 .. n : w[k] = lane[l].oth
    BY <1>1, <1>3, <1>6 DEF Ahead
  <2>2. k \in 1 .. n /\ i < k /\ w[k] = oth
    BY <1>6, <2>1
  <2>3. ASSUME NEW j \in 1 .. n, i < j PROVE ToDo(w, i, j) <=> k <= j
    <3>1. ToDo(w, i, j) <=> \E m \in i + 1 .. j : w[m] = oth
      BY <1>1, <1>2, <1>3, <1>6 DEF ToDo
    <3>2. \A m \in i + 1 .. j : m \in 1 .. n
      OBVIOUS
    <3>3. \A m \in i + 1 .. j : w[m] = oth => m = k
      BY <1>4, <2>2, <3>2
    <3>4. k <= j => k \in i + 1 .. j
      BY <2>1
    <3> QED BY <2>2, <3>1, <3>3, <3>4
  <2> QED BY <1>1, <2>2, <2>3
<1> QED BY <1>5, <1>6

\* The lane at the i-th of a chain has come to the k-th.
Standing(n, w, i, k) ==
  /\ n \in Nat /\ i \in 1 .. n /\ k \in 1 .. n /\ i < k
  /\ \A a \in 1 .. n : w[a] # None
  /\ \A a, b \in 1 .. n : w[a] = w[b] => a = b
  /\ \A a, b \in 1 .. n : staged[w[a]] = staged[w[b]] => a = b
  /\ Links(n, w, lchain) /\ Walked(n, w) /\ Ahead(n, w)
  /\ \A j \in 1 .. n : i < j => (ToDo(w, i, j) <=> k <= j)
\* It goes on to the next, or leaves the chain at its end.
StepsOn(n, w, i, k) ==
  LET me == lane'[w[i] % Lanes]
  IN
  /\ me.at = "walk"
  /\ \/ w[i] \notin me.rest /\ lchain[w[k]] = None
     \/ w[i] \in me.rest /\ w[i] = Min(me.rest) /\ lchain[w[k]] # None /\ me.oth = lchain[w[k]]
SteppedOn(n, w, i, k) ==
  /\ \A j \in 1 .. n : i < j => (ToDo(w, i, j)' <=> k <= j /\ j # k)
  /\ AtHand(w[i])' => \E m \in i + 1 .. n : w[m] = lane'[w[i] % Lanes].oth

LEMMA PlaceMoves ==
  ASSUME NEW n, NEW w, NEW i, NEW k, Standing(n, w, i, k), StepsOn(n, w, i, k)
  PROVE  SteppedOn(n, w, i, k)
<1> DEFINE l == w[i] % Lanes
<1> SUFFICES ASSUME n \in Nat, i \in 1 .. n, k \in 1 .. n, i < k, \A a \in 1 .. n : w[a] # None,
                    \A a, b \in 1 .. n : w[a] = w[b] => a = b, Links(n, w, lchain), lane'[l].at = "walk",
                    \/ w[i] \notin lane'[l].rest /\ lchain[w[k]] = None
                    \/ /\ w[i] \in lane'[l].rest /\ w[i] = Min(lane'[l].rest)
                       /\ lchain[w[k]] # None /\ lane'[l].oth = lchain[w[k]]
             PROVE  /\ \A j \in 1 .. n : i < j => (ToDo(w, i, j)' <=> k <= j /\ j # k)
                    /\ AtHand(w[i])' => \E m \in i + 1 .. n : w[m] = lane'[l].oth
  BY DEF Standing, StepsOn, SteppedOn
<1> HIDE DEF l
<1>0. l = w[i] % Lanes
  BY DEF l
<1>1. PICK pos, oth : pos = w[i] /\ oth = w[k]
  OBVIOUS
<1>2. lchain[oth] = IF k = n THEN None ELSE w[k + 1]
  BY <1>1 DEF Links
<1>3. CASE pos \notin lane'[l].rest /\ lchain[oth] = None
  <2>1. ~Under(pos)'
    BY <1>0, <1>1, <1>3 DEF Under
  <2>2. k = n
    <3> SUFFICES ASSUME k # n PROVE FALSE
      OBVIOUS
    <3>1. k + 1 \in 1 .. n
      OBVIOUS
    <3>2. w[k + 1] # None
      BY <3>1
    <3> QED BY <1>2, <1>3, <3>2
  <2>3. \A j \in 1 .. n : k <= j => j = k
    BY <2>2
  <2>4. \A j \in 1 .. n : ~ToDo(w, i, j)'
    BY <1>1, <2>1 DEF ToDo
  <2> QED BY <1>1, <2>1, <2>3, <2>4 DEF AtHand
<1>4. CASE /\ pos \in lane'[l].rest /\ pos = Min(lane'[l].rest)
           /\ lchain[oth] # None /\ lane'[l].oth = lchain[oth]
  <2>1. k # n /\ lane'[l].oth = w[k + 1] /\ k + 1 \in 1 .. n /\ k + 1 \in i + 1 .. n
    <3>1. k # n /\ lane'[l].oth = w[k + 1]
      BY <1>2, <1>4
    <3>2. k + 1 \in 1 .. n /\ k + 1 \in i + 1 .. n
      BY <3>1
    <3> QED BY <3>1, <3>2
  <2>2. Under(pos)' /\ AtHand(pos)'
    <3>1. pos % Lanes = l
      BY <1>0, <1>1, Zenon
    <3>2. lane'[l].at = "walk" /\ lane'[l].oth # None
      BY <1>4, Zenon
    <3>3. /\ lane'[pos % Lanes].at = "walk" /\ lane'[pos % Lanes].oth # None
          /\ pos \in lane'[pos % Lanes].rest /\ pos = Min(lane'[pos % Lanes].rest)
      BY <1>4, <3>1, <3>2, Zenon
    <3> QED BY <3>3, Zenon DEF Under, AtHand
  <2>3. ASSUME NEW j \in 1 .. n, i < j PROVE ToDo(w, i, j)' <=> k <= j /\ j # k
    <3>6. Under(w[i])' /\ AtHand(w[i])' /\ lane'[w[i] % Lanes].oth = w[k + 1]
      BY <1>0, <1>1, <2>1, <2>2
    <3>1. ToDo(w, i, j)' <=> \E m \in i + 1 .. j : w[m] = w[k + 1]
      BY <3>6 DEF ToDo
    <3>2. \A m \in i + 1 .. j : m \in 1 .. n
      OBVIOUS
    <3>3. \A m \in i + 1 .. j : w[m] = w[k + 1] => m = k + 1
      BY <2>1, <3>2
    <3>4. k <= j /\ j # k => k + 1 \in i + 1 .. j
      OBVIOUS
    <3>5. k + 1 \in i + 1 .. j => k <= j /\ j # k
      OBVIOUS
    <3> QED BY <3>1, <3>3, <3>4, <3>5
  <2> QED BY <1>1, <2>1, <2>3
<1> QED BY <1>1, <1>3, <1>4

\* A chain on which no lane has moved and nothing was emitted.
LEMMA WalkRests ==
  ASSUME NEW S, NEW n \in Nat, NEW w \in [1 .. n -> S], Walked(n, w), Ahead(n, w),
         staged' = staged, drops \subseteq drops',
         \A x \in S : /\ Under(x)' <=> Under(x)
                      /\ AtHand(x)' <=> AtHand(x)
                      /\ AtHand(x) => lane'[x % Lanes].oth = lane[x % Lanes].oth,
         \A x, y \in S : HasChild(staged[x], staged[y])' <=> HasChild(staged[x], staged[y])
  PROVE  Walked(n, w)' /\ Ahead(n, w)'
<1>1. ASSUME NEW i \in 1 .. n, NEW j \in 1 .. n PROVE ToDo(w, i, j)' <=> ToDo(w, i, j)
  BY DEF ToDo
<1>2. ASSUME NEW i \in 1 .. n, NEW j \in 1 .. n, i < j
      PROVE  /\ ToDo(w, i, j)' => ~HasChild(staged[w[i]], staged[w[j]])'
             /\ ~ToDo(w, i, j)' => drops' # {} \/ HasChild(staged[w[i]], staged[w[j]])'
  <2>1. HasChild(staged[w[i]], staged[w[j]])' <=> HasChild(staged[w[i]], staged[w[j]])
    OBVIOUS
  <2>2. /\ ToDo(w, i, j) => ~HasChild(staged[w[i]], staged[w[j]])
        /\ ~ToDo(w, i, j) => drops # {} \/ HasChild(staged[w[i]], staged[w[j]])
    BY <1>2 DEF Walked
  <2>3. drops # {} => drops' # {}
    OBVIOUS
  <2> QED BY <1>1, <2>1, <2>2, <2>3
<1>3. Walked(n, w)'
  BY <1>2 DEF Walked
<1>4. Ahead(n, w)'
  BY DEF Ahead
<1> QED BY <1>3, <1>4

LEMMA WalkEnds ==
  ASSUME RoundInv, NEW l \in LaneIds, LoopEnds(l), lane[l].at = "walk"
  PROVE  RoundInv'
<1>1. PICK place \in {"done", "passed"} : place = IF LastPass(l) THEN "done" ELSE "passed"
  OBVIOUS
<1>2. /\ step = "block" /\ lane[l].rest = {} /\ Go(l, place)
      /\ UNCHANGED <<input, kind, step, todo, count, elem, actr, atag, ahead, anext, block, drops>>
      /\ UNCHANGED <<aidx, gcount, tab, lchain, staged, mlist, built, out>>
  BY <1>1 DEF LoopEnds, inputVars, setVars, sharedVars, outVars
<1>3. Frame
  BY <1>2 DEF Frame
<1>4. LaneTypes /\ BlockTypes /\ PhaseInv
  BY DEF RoundInv
<1>5. /\ LaneTypes' /\ Others(l) /\ SamePass(l)
      /\ lane'[l].at = place /\ lane'[l].rest = lane[l].rest /\ lane'[l].oth = lane[l].oth
  BY <1>2, <1>4, GoEffect DEF LanePlaces
<1>6. Walking
  BY <1>2, <1>4, PhaseAt
<1>7. 0 \in LaneIds
  BY LanesAre
<1>8. \A k \in LaneIds : k # l => lane'[k] = lane[k]
  BY <1>5 DEF Others
<1>9. Agree' /\ SamePass(0) /\ \A k \in LaneIds : SamePass(k)
  BY <1>4, <1>5, <1>6, <1>7, LanesKept DEF Walking
<1>10. Fetched' /\ Fetched
  BY <1>2, <1>5, <1>6, <1>7, <1>8 DEF Fetched, Walking, All
<1>11. /\ \A p \in Members : ~Pending(p)
       /\ \A pos \in Positions : pos \in Nat /\ pos % Lanes \in LaneIds
  BY <1>6, <1>10, MembersAreShared, NothingPends DEF Walking, All
<1>12. \A p \in Members : ~Pending(p)'
  <2>1. \A k \in LaneIds : lane'[k].at # "stage"
    BY <1>5, <1>6, <1>8 DEF Walking, All
  <2> QED BY <1>10, <2>1, MembersAreShared DEF Pending
<1>13. StagedInv'
  BY <1>2, <1>6, <1>9, <1>11, <1>12, StagedKept DEF Walking
<1>14. /\ Positions' = Positions
       /\ \A x : Multi(x)' <=> Multi(x)
       /\ \A S, h : InSlot(S, h)' = InSlot(S, h)
  BY <1>2, SamePositions
<1>15. \A k \in LaneIds : LastPass(k)' <=> LastPass(k)
  BY <1>9 DEF LastPass, SamePass
<1>16. \A x \in Positions : /\ Under(x)' <=> Under(x)
                            /\ AtHand(x)' <=> AtHand(x)
                            /\ AtHand(x) => lane'[x % Lanes].oth = lane[x % Lanes].oth
  <2> SUFFICES ASSUME NEW x \in Positions
               PROVE  /\ Under(x)' <=> Under(x)
                      /\ AtHand(x)' <=> AtHand(x)
                      /\ AtHand(x) => lane'[x % Lanes].oth = lane[x % Lanes].oth
    OBVIOUS
  <2>1. PICK k \in LaneIds : k = x % Lanes
    BY <1>11
  <2>2. CASE k = l
    <3>1. ~Under(x) /\ ~Under(x)'
      BY <1>2, <1>5, <2>1, <2>2 DEF Under
    <3> QED BY <3>1 DEF AtHand
  <2>3. CASE k # l
    <3>1. lane'[k] = lane[k]
      BY <1>8, <2>3
    <3> QED BY <2>1, <3>1 DEF Under, AtHand
  <2> QED BY <2>2, <2>3
<1>17. \A s, t : HasChild(s, t)' <=> HasChild(s, t)
  BY <1>2 DEF HasChild
<1>18. ASSUME NEW h \in Slots PROVE WalkChain(h)'
  <2>1. PICK S : S = InSlot(Positions, h)
    OBVIOUS
  <2>2. PICK n \in Nat : \E w \in [1 .. n -> S] : /\ Lists(n, w, S) /\ IsChain(n, w, tab[h].head, lchain)
                                                  /\ Walked(n, w) /\ Ahead(n, w)
    BY <1>6, <2>1 DEF Walking, WalkChain
  <2>3. PICK w \in [1 .. n -> S] : /\ Lists(n, w, S) /\ IsChain(n, w, tab[h].head, lchain)
                                   /\ Walked(n, w) /\ Ahead(n, w)
    BY <2>2
  <2>4. S \subseteq Positions
    BY <2>1 DEF InSlot
  <2>5. \A x, y \in S : HasChild(staged[x], staged[y])' <=> HasChild(staged[x], staged[y])
    <3> SUFFICES ASSUME NEW x \in S, NEW y \in S
                 PROVE  HasChild(staged[x], staged[y])' <=> HasChild(staged[x], staged[y])
      OBVIOUS
    <3>1. PICK s, t : s = staged[x] /\ t = staged[y] /\ s = staged'[x] /\ t = staged'[y]
      BY <1>2
    <3> QED BY <1>17, <3>1
  <2>6. Walked(n, w)' /\ Ahead(n, w)'
    BY <1>2, <1>16, <2>3, <2>4, <2>5, WalkRests
  <2>7. InSlot(Positions, h)' = S
    BY <1>14, <2>1
  <2>8. Lists(n, w, S) /\ IsChain(n, w, tab'[h].head, lchain')
    BY <1>2, <2>3
  <2> QED BY <2>6, <2>7, <2>8 DEF WalkChain
<1>19. Walking'
  <2>1. All({"walk", "passed", "done"})'
    BY <1>5, <1>6, <1>8 DEF Walking, All
  <2>2. (\A k \in LaneIds : lane[k].at = "walk" =>
           /\ \A pos \in lane[k].rest : pos \in Positions /\ pos % Lanes = k /\ lchain[pos] # None
           /\ lane[k].oth # None => lane[k].rest # {})'
    <3> SUFFICES ASSUME NEW k \in LaneIds, lane'[k].at = "walk"
                 PROVE  /\ \A pos \in lane'[k].rest : pos \in Positions /\ pos % Lanes = k /\ lchain[pos] # None
                        /\ lane'[k].oth # None => lane'[k].rest # {}
      BY <1>2, <1>14
    <3>1. lane'[k] = lane[k]
      BY <1>5, <1>8
    <3> QED BY <1>6, <3>1 DEF Walking
  <2>3. (\A k \in LaneIds : lane[k].at = "passed" => lane[k].oth = None /\ ~LastPass(k))'
    <3> SUFFICES ASSUME NEW k \in LaneIds, lane'[k].at = "passed"
                 PROVE  lane'[k].oth = None /\ ~LastPass(k)
      BY <1>15
    <3>1. CASE k = l
      BY <1>1, <1>2, <1>5, <1>6, <3>1 DEF Walking
    <3>2. CASE k # l
      BY <1>6, <1>8, <3>2 DEF Walking
    <3> QED BY <3>1, <3>2
  <2>4. (\A k \in LaneIds : lane[k].at = "done" => LastPass(k))'
    <3> SUFFICES ASSUME NEW k \in LaneIds, lane'[k].at = "done" PROVE LastPass(k)
      BY <1>15
    <3>1. CASE k = l
      BY <1>1, <1>5, <3>1
    <3>2. CASE k # l
      BY <1>6, <1>8, <3>2 DEF Walking
    <3> QED BY <3>1, <3>2
  <2>5. (\A pos \in Positions : Multi(pos) => pos \in built)'
    BY <1>2, <1>6, <1>14 DEF Walking
  <2>6. gcount' > FCap => "stage" \in drops'
    BY <1>2, <1>6 DEF Walking
  <2>7. (\A h \in Slots : WalkChain(h))'
    BY <1>18
  <2> QED BY <1>9, <1>13, <2>1, <2>2, <2>3, <2>4, <2>5, <2>6, <2>7 DEF Walking
<1>20. BlockTypes'
  BY <1>2, <1>4 DEF BlockTypes
<1>21. Emitting => Emitting'
  BY <1>5, <1>6, <1>7, <1>8 DEF Emitting, Walking, All
<1>22. SetInv' /\ Quiet' /\ MembersInv' /\ MadeInv'
  BY <1>2, <1>3, <1>5, <1>10, <1>21, PassKeeps
<1> QED BY <1>5, <1>19, <1>20, <1>22 DEF RoundInv, PhaseInv

LEMMA ChildIs ==
  ASSUME NEW slot, NEW s, NEW t, NEW whole
  PROVE  {Child(slot, s, t, whole).left, Child(slot, s, t, whole).right} = {s, t}
         /\ Child(slot, s, t, whole).whole = whole
<1>1. PICK o : o = Ordered(s, t)
  OBVIOUS
<1>2. o = <<t, s>> \/ o = <<s, t>>
  BY <1>1 DEF Ordered
<1>3. {o[1], o[2]} = {s, t}
  BY <1>2
<1>4. /\ Child(slot, s, t, whole).left = o[1] /\ Child(slot, s, t, whole).right = o[2]
      /\ Child(slot, s, t, whole).whole = whole
  BY <1>1 DEF Child
<1> QED BY <1>3, <1>4

\* A child finds a slot, or is counted as lost.
LEMMA EmitIs ==
  ASSUME NEW cb, NEW s, NEW t, NEW whole, Emit(cb, s, t, whole)
  PROVE  \/ drops' = drops /\ \E slot : out' = out \cup {Child(slot, s, t, whole)}
         \/ drops \subseteq drops' /\ drops' # {} /\ out' = out
BY DEF Emit, Drop

\* The lanes at the other elements stay where they are.
OthersStand(n, w, i) ==
  \A a \in 1 .. n : a # i => /\ Under(w[a])' <=> Under(w[a])
                             /\ AtHand(w[a])' <=> AtHand(w[a])
                             /\ AtHand(w[a]) => lane'[w[a] % Lanes].oth = lane[w[a] % Lanes].oth
\* The two have their child, or it was lost.
Paired(s, t) ==
  \/ \A a, b : HasChild(a, b)' <=> HasChild(a, b) \/ {a, b} = {s, t}
  \/ drops' # {} /\ \A a, b : HasChild(a, b)' <=> HasChild(a, b)

\* The chain on which a child was emitted, or lost.
LEMMA WalkOn ==
  ASSUME NEW n, NEW w, NEW i, NEW k, Standing(n, w, i, k), StepsOn(n, w, i, k), NEW s, NEW t,
         s = staged[w[i]], t = staged[w[k]], staged' = staged, drops \subseteq drops',
         OthersStand(n, w, i), Paired(s, t)
  PROVE  Walked(n, w)' /\ Ahead(n, w)' /\ ~HasChild(s, t)
<1> SUFFICES ASSUME n \in Nat, i \in 1 .. n, k \in 1 .. n, i < k, Walked(n, w), Ahead(n, w),
                    \A a, b \in 1 .. n : staged[w[a]] = staged[w[b]] => a = b,
                    \A j \in 1 .. n : i < j => (ToDo(w, i, j) <=> k <= j),
                    \A j \in 1 .. n : i < j => (ToDo(w, i, j)' <=> k <= j /\ j # k),
                    AtHand(w[i])' => \E m \in i + 1 .. n : w[m] = lane'[w[i] % Lanes].oth,
                    \A a \in 1 .. n : a # i =>
                      /\ Under(w[a])' <=> Under(w[a])
                      /\ AtHand(w[a])' <=> AtHand(w[a])
                      /\ AtHand(w[a]) => lane'[w[a] % Lanes].oth = lane[w[a] % Lanes].oth,
                    \/ \A a, b : HasChild(a, b)' <=> HasChild(a, b) \/ {a, b} = {s, t}
                    \/ drops' # {} /\ \A a, b : HasChild(a, b)' <=> HasChild(a, b)
             PROVE  Walked(n, w)' /\ Ahead(n, w)' /\ ~HasChild(s, t)
  <2>1. SteppedOn(n, w, i, k)
    BY PlaceMoves
  <2> QED BY <2>1 DEF Standing, SteppedOn, OthersStand, Paired
<1>1. ASSUME NEW a \in 1 .. n, a # i, NEW b \in 1 .. n PROVE ToDo(w, a, b)' <=> ToDo(w, a, b)
  BY <1>1 DEF ToDo
<1>2. ~HasChild(s, t)
  <2>1. ToDo(w, i, k)
    OBVIOUS
  <2> QED BY <2>1 DEF Walked
<1>3. ASSUME NEW a \in 1 .. n, NEW b \in 1 .. n, a < b,
             {staged[w[a]], staged[w[b]]} = {s, t}
      PROVE  a = i /\ b = k
  <2>1. \/ staged[w[a]] = staged[w[i]] /\ staged[w[b]] = staged[w[k]]
        \/ staged[w[a]] = staged[w[k]] /\ staged[w[b]] = staged[w[i]]
        \/ staged[w[a]] = staged[w[b]]
    BY <1>3
  <2>2. (a = i /\ b = k) \/ (a = k /\ b = i) \/ a = b
    BY <2>1
  <2> QED BY <1>3, <2>2
<1>4. ASSUME NEW a \in 1 .. n, NEW b \in 1 .. n, a < b
      PROVE  /\ ToDo(w, a, b)' => ~HasChild(staged[w[a]], staged[w[b]])'
             /\ ~ToDo(w, a, b)' => drops' # {} \/ HasChild(staged[w[a]], staged[w[b]])'
  <2>1. PICK x, y : x = staged[w[a]] /\ y = staged[w[b]] /\ x = staged'[w[a]] /\ y = staged'[w[b]]
    OBVIOUS
  <2>2. /\ ToDo(w, a, b) => ~HasChild(x, y)
        /\ ~ToDo(w, a, b) => drops # {} \/ HasChild(x, y)
    BY <1>4, <2>1 DEF Walked
  <2>3. ToDo(w, a, b)' => ToDo(w, a, b) /\ ~(a = i /\ b = k)
    BY <1>1, <1>4
  <2>4. ~ToDo(w, a, b)' => ~ToDo(w, a, b) \/ (a = i /\ b = k)
    BY <1>1, <1>4
  <2>5. {x, y} = {s, t} => a = i /\ b = k
    BY <1>3, <1>4, <2>1
  <2>6. drops # {} => drops' # {}
    OBVIOUS
  <2>7. HasChild(x, y) => HasChild(x, y)'
    OBVIOUS
  <2>8. ToDo(w, a, b)' => ~HasChild(x, y)'
    BY <2>2, <2>3, <2>5
  <2>9. ~ToDo(w, a, b)' => drops' # {} \/ HasChild(x, y)'
    <3>1. CASE ~ToDo(w, a, b)
      BY <2>2, <2>6, <2>7, <3>1
    <3>2. CASE a = i /\ b = k
      BY <2>1, <3>2
    <3> QED BY <2>4, <3>1, <3>2
  <2> QED BY <2>1, <2>8, <2>9
<1>5. Walked(n, w)'
  BY <1>4 DEF Walked
<1>6. Ahead(n, w)'
  <2> SUFFICES ASSUME NEW a \in 1 .. n, AtHand(w[a])'
               PROVE  \E m \in a + 1 .. n : w[m] = lane'[w[a] % Lanes].oth
    BY DEF Ahead
  <2>1. CASE a = i
    BY <2>1
  <2>2. CASE a # i
    <3>1. AtHand(w[a])
      BY <2>2
    <3>2. \E m \in a + 1 .. n : w[m] = lane[w[a] % Lanes].oth
      BY <3>1 DEF Ahead
    <3> QED BY <2>2, <3>1, <3>2
  <2> QED BY <2>1, <2>2
<1> QED BY <1>2, <1>5, <1>6

\* The rest of a chain that is too long is given up, and that is counted.
LEMMA WalkDrops ==
  ASSUME NEW S, NEW n \in Nat, NEW w \in [1 .. n -> S], Walked(n, w), Ahead(n, w),
         staged' = staged, drops' # {}, NEW p, ~Under(p)', \A a, b : HasChild(a, b)' <=> HasChild(a, b),
         \A x \in S : x # p => /\ Under(x)' <=> Under(x)
                               /\ AtHand(x)' <=> AtHand(x)
                               /\ AtHand(x) => lane'[x % Lanes].oth = lane[x % Lanes].oth
  PROVE  Walked(n, w)' /\ Ahead(n, w)'
<1>1. ASSUME NEW a \in 1 .. n, NEW b \in 1 .. n, ToDo(w, a, b)' PROVE ToDo(w, a, b)
  <2>1. w[a] \in S /\ w[a] # p
    BY <1>1 DEF ToDo
  <2> QED BY <1>1, <2>1 DEF ToDo
<1>2. ASSUME NEW a \in 1 .. n, NEW b \in 1 .. n, a < b, ToDo(w, a, b)'
      PROVE  ~HasChild(staged[w[a]], staged[w[b]])'
  <2>1. ~HasChild(staged[w[a]], staged[w[b]])
    BY <1>1, <1>2 DEF Walked
  <2>2. PICK s, t : s = staged[w[a]] /\ t = staged[w[b]] /\ s = staged'[w[a]] /\ t = staged'[w[b]]
    OBVIOUS
  <2>3. ~HasChild(s, t)'
    BY <2>1, <2>2
  <2> QED BY <2>2, <2>3
<1>3. Walked(n, w)'
  BY <1>2 DEF Walked
<1>4. Ahead(n, w)'
  <2> SUFFICES ASSUME NEW a \in 1 .. n, AtHand(w[a])'
               PROVE  \E m \in a + 1 .. n : w[m] = lane'[w[a] % Lanes].oth
    BY DEF Ahead
  <2>1. w[a] \in S /\ w[a] # p
    BY DEF AtHand
  <2> QED BY <2>1 DEF Ahead
<1> QED BY <1>3, <1>4

\* The lane's step, for what becomes of its element and of its place.
Leaves(l, p) == lane'[l].rest = lane[l].rest \ {p} /\ lane'[l].oth = None
GoesOn(l, oth) == lane'[l].rest = lane[l].rest /\ lane'[l].oth = lchain[oth] /\ lchain[oth] # None

LEMMA WalkElsewhere ==
  ASSUME LaneTypes, LaneTypes', NEW l \in LaneIds, Others(l), lane[l].at = "walk", lane'[l].at = "walk",
         NEW p, p = Min(lane[l].rest), NEW oth, Leaves(l, p) \/ GoesOn(l, oth), NEW x, x % Lanes \in LaneIds, x # p
  PROVE  /\ Under(x)' <=> Under(x)
         /\ AtHand(x)' <=> AtHand(x)
         /\ AtHand(x) => lane'[x % Lanes].oth = lane[x % Lanes].oth
<1>1. PICK k \in LaneIds : k = x % Lanes
  OBVIOUS
<1>2. CASE k # l
  <2>1. lane'[k] = lane[k]
    BY <1>2 DEF Others
  <2> QED BY <1>1, <2>1 DEF Under, AtHand
<1>3. CASE k = l
  <2>1. Under(x)' <=> Under(x)
    BY <1>1, <1>3 DEF Under, Leaves, GoesOn
  <2>2. ~AtHand(x)
    BY <1>1, <1>3 DEF AtHand
  <2>3. ~AtHand(x)'
    <3>1. CASE Leaves(l, p)
      BY <1>1, <1>3, <3>1 DEF AtHand, Leaves
    <3>2. CASE GoesOn(l, oth)
      BY <1>1, <1>3, <3>2 DEF AtHand, GoesOn
    <3> QED BY <3>1, <3>2
  <2> QED BY <2>1, <2>2, <2>3
<1> QED BY <1>2, <1>3

\* The step of Walk, taken apart.
LEMMA WalkEffect ==
  ASSUME LaneTypes, NEW l \in LaneIds, Walk(l), NEW p, p = Min(lane[l].rest),
         NEW oth, oth = IF lane[l].oth = None THEN lchain[p] ELSE lane[l].oth,
         lchain[oth] \in {None} \cup FPos
  PROVE  /\ LaneTypes' /\ Others(l) /\ SamePass(l) /\ lane'[l].at = lane[l].at
         /\ \/ out' = out /\ drops \subseteq drops' /\ drops' # {} /\ Leaves(l, p)
            \/ /\ (Leaves(l, p) /\ lchain[oth] = None) \/ GoesOn(l, oth)
               /\ \E cb : Emit(cb, staged[p], staged[oth], {p, oth} \subseteq built)
<1>1. PICK r \in LaneRec : r = lane[l]
  BY DEF LaneTypes
<1>2. PICK rest \in SUBSET Nat : rest = r.rest \ {p}
  BY RecFields
<1>3. PICK q : q = [r EXCEPT !.rest = rest, !.oth = None, !.walk = 0]
  OBVIOUS
<1>4. /\ q \in LaneRec /\ q.at = r.at /\ q.rest = rest /\ q.oth = None
      /\ q.xb = r.xb /\ q.xp = r.xp /\ q.parts = r.parts /\ q.counted = r.counted
  BY <1>3 DEF LaneRec
<1>5. PICK next \in {None} \cup FPos : next = lchain[oth]
  OBVIOUS
<1>6. PICK far \in Nat : far = r.walk + 1
  BY RecFields
<1>7. PICK v : v = [r EXCEPT !.oth = next, !.walk = far]
  OBVIOUS
<1>8. /\ v \in LaneRec /\ v.at = r.at /\ v.rest = r.rest /\ v.oth = next
      /\ v.xb = r.xb /\ v.xp = r.xp /\ v.parts = r.parts /\ v.counted = r.counted
  BY <1>7 DEF LaneRec
<1>9. \/ lane' = [lane EXCEPT ![l] = q] /\ drops' = drops \cup {"walk"} /\ out' = out
      \/ /\ \E cb : Emit(cb, staged[p], staged[oth], {p, oth} \subseteq built)
         /\ lane' = [lane EXCEPT ![l] = IF next = None THEN q ELSE v]
  BY <1>1, <1>2, <1>3, <1>5, <1>6, <1>7 DEF Walk, Drop, outVars
<1>10. CASE lane' = [lane EXCEPT ![l] = q]
  <2>1. lane'[l] = q /\ Others(l) /\ LaneTypes'
    BY <1>4, <1>10, OneLane
  <2>2. SamePass(l) /\ lane'[l].at = lane[l].at /\ Leaves(l, p)
    BY <1>1, <1>2, <1>4, <2>1 DEF SamePass, Leaves
  <2>3. CASE drops' = drops \cup {"walk"} /\ out' = out
    BY <2>1, <2>2, <2>3
  <2>4. CASE next = None /\ \E cb : Emit(cb, staged[p], staged[oth], {p, oth} \subseteq built)
    BY <1>5, <2>1, <2>2, <2>4
  <2>5. CASE next # None /\ lane' = [lane EXCEPT ![l] = v]
    <3>1. lane'[l] = v
      BY <1>8, <2>5, OneLane
    <3> QED BY <1>4, <1>8, <2>1, <2>5, <3>1
  <2> QED BY <1>9, <2>3, <2>4, <2>5
<1>11. CASE /\ lane' = [lane EXCEPT ![l] = v] /\ next # None
            /\ \E cb : Emit(cb, staged[p], staged[oth], {p, oth} \subseteq built)
  <2>1. lane'[l] = v /\ Others(l) /\ LaneTypes'
    BY <1>8, <1>11, OneLane
  <2>2. SamePass(l) /\ lane'[l].at = lane[l].at /\ GoesOn(l, oth)
    BY <1>1, <1>5, <1>8, <1>11, <2>1 DEF SamePass, GoesOn
  <2> QED BY <1>11, <2>1, <2>2
<1> QED BY <1>9, <1>10, <1>11

\* A child of two elements of the group, whose first child it is.
LEMMA ChildKeeps ==
  ASSUME SetInv, BlockTypes, LaneTypes, MembersInv, StagedInv, MadeInv, Fetched, Emitting, Emitting',
         UNCHANGED <<input, count, elem, block, aidx, drops>>, SamePass(0),
         NEW p \in Positions, NEW oth \in Positions, p # oth, PosSlot(p) = PosSlot(oth),
         NEW c, out' = out \cup {c}, c.whole, {c.left, c.right} = {staged[p], staged[oth]},
         ~HasChild(staged[p], staged[oth])
  PROVE  MadeInv'
<1>1. /\ Members' = Members /\ \A r : SlotOf(r)' = SlotOf(r) /\ KeyOf(r)' = KeyOf(r)
      /\ \A q, r : Twins(q, r)' <=> Twins(q, r)
  BY SameMembers
<1>2. \A r : PartOf(r)' = PartOf(r)
  BY <1>1 DEF PartOf, SamePass
<1>3. lane'[0].xp = lane[0].xp
  BY DEF SamePass
<1>4. \A a, b : HasChild(a, b)' <=> HasChild(a, b) \/ {a, b} = {staged[p], staged[oth]}
  BY DEF HasChild
<1>5. OnceInv'
  <2>1. IsFiniteSet(out')
    BY FS_AddElement DEF MadeInv, OnceInv
  <2>2. \A d \in out : {d.left, d.right} # {c.left, c.right}
    BY DEF HasChild
  <2>3. ASSUME NEW d \in out', NEW e \in out', {d.left, d.right} = {e.left, e.right} PROVE d = e
    <3>1. d \in out \/ d = c
      OBVIOUS
    <3>2. e \in out \/ e = c
      OBVIOUS
    <3>3. CASE d \in out /\ e \in out
      BY <2>3, <3>3 DEF MadeInv, OnceInv
    <3> QED BY <2>2, <2>3, <3>1, <3>2, <3>3
  <2> QED BY <2>1, <2>3 DEF OnceInv
<1>6. PICK q \in Members : /\ InPass(0, q) /\ staged[p] = SlotOf(q)
                           /\ PosKey(p) = KeyOf(q) /\ PosSlot(p) = SlotKey(q)
  BY StagedAre
<1>7. PICK r \in Members : /\ InPass(0, r) /\ staged[oth] = SlotOf(r)
                           /\ PosKey(oth) = KeyOf(r) /\ PosSlot(oth) = SlotKey(r)
  BY StagedAre
<1>8. KeyOf(q) \in RoundKeys /\ KeyOf(r) \in RoundKeys
  BY MemberTypes
<1>9. SubMask(KeyOf(q)) = block.mask /\ SubMask(KeyOf(r)) = block.mask /\ PartOf(q) = lane[0].xp
  BY <1>6, <1>7 DEF InPass, PartOf
<1>10. KeyOf(q) = KeyOf(r)
  <2>1. TabSlot(KeyOf(q)) = TabSlot(KeyOf(r))
    BY <1>6, <1>7 DEF SlotKey
  <2> QED BY <1>8, <1>9, <2>1, KeyIsItsBits
<1>11. q # r
  BY <1>6, <1>7 DEF StagedInv
<1>12. Twins(q, r) /\ {c.left, c.right} = {SlotOf(q), SlotOf(r)}
  BY <1>6, <1>7, <1>9, <1>10, <1>11 DEF Twins
<1>13. ChildInv'
  <2> SUFFICES ASSUME NEW d \in out'
               PROVE  /\ d.whole
                      /\ \E x, y \in Members :
                           /\ Twins(x, y) /\ {d.left, d.right} = {SlotOf(x), SlotOf(y)}
                           /\ PartOf(x) < lane[0].xp \/ PartOf(x) = lane[0].xp
    BY <1>1, <1>2, <1>3 DEF ChildInv
  <2>1. CASE d \in out
    BY <2>1 DEF MadeInv, ChildInv
  <2>2. CASE d = c
    BY <1>9, <1>12, <2>2
  <2> QED BY <2>1, <2>2
<1>14. PassedInv'
  <2> SUFFICES ASSUME drops = {}, NEW x \in Members, NEW y \in Members, Twins(x, y), PartOf(x) < lane[0].xp
               PROVE  HasChild(SlotOf(x), SlotOf(y))'
    BY <1>1, <1>2, <1>3 DEF PassedInv
  <2>1. PICK s, t : s = SlotOf(x) /\ t = SlotOf(y) /\ s = SlotOf(x)' /\ t = SlotOf(y)'
    BY <1>1
  <2>2. HasChild(s, t)
    BY <2>1 DEF MadeInv, PassedInv
  <2> QED BY <1>4, <2>1, <2>2
<1> QED BY <1>5, <1>13, <1>14 DEF MadeInv, FirstInv

LEMMA WalkKeeps == ASSUME RoundInv, NEW l \in LaneIds, Walk(l) PROVE RoundInv'
<1>1. PICK p, oth : p = Min(lane[l].rest) /\ oth = IF lane[l].oth = None THEN lchain[p] ELSE lane[l].oth
  OBVIOUS
<1>2. /\ step = "block" /\ lane[l].at = "walk" /\ lane[l].rest # {} /\ drops \subseteq drops'
      /\ UNCHANGED <<input, kind, step, todo, count, elem, actr, atag, ahead, anext, block>>
      /\ UNCHANGED <<aidx, gcount, tab, lchain, staged, mlist, built>>
  BY DEF Walk, At, Drop, Emit, inputVars, setVars, sharedVars, outVars
<1>3. Frame
  BY <1>2 DEF Frame
<1>4. LaneTypes /\ BlockTypes /\ PhaseInv /\ SetInv /\ MembersInv /\ MadeInv
  BY DEF RoundInv
<1>5. Walking
  BY <1>2, <1>4, PhaseAt
<1>6. 0 \in LaneIds
  BY LanesAre
<1>7. p \in lane[l].rest
  <2>1. PICK S \in SUBSET Nat : S = lane[l].rest
    BY <1>4, CountedIs
  <2> QED BY <1>1, <1>2, <2>1, MinIsLeast
<1>8. p \in Positions /\ p % Lanes = l /\ lchain[p] # None
  BY <1>2, <1>5, <1>7 DEF Walking
<1>9. Fetched
  BY <1>2, <1>5, <1>6 DEF Fetched, Walking, All
<1>10. \A x \in Positions : x \in FPos /\ x % Lanes \in LaneIds
  BY <1>9, MembersAreShared
<1>11. PICK h \in Slots : h = PosSlot(p)
  BY <1>4, <1>5, <1>8, <1>9, StagedAre DEF Walking
<1>12. PICK S : S = InSlot(Positions, h)
  OBVIOUS
<1>13. S \subseteq Positions /\ p \in S /\ None \notin S
  <2>1. S \subseteq Positions /\ p \in S
    BY <1>8, <1>11, <1>12 DEF InSlot
  <2> QED BY <1>10, <2>1, NoneIsNoPlace
<1>14. PICK n \in Nat : \E w \in [1 .. n -> S] : /\ Lists(n, w, S) /\ IsChain(n, w, tab[h].head, lchain)
                                                 /\ Walked(n, w) /\ Ahead(n, w)
  BY <1>5, <1>12 DEF Walking, WalkChain
<1>15. PICK w \in [1 .. n -> S] : /\ Lists(n, w, S) /\ IsChain(n, w, tab[h].head, lchain)
                                  /\ Walked(n, w) /\ Ahead(n, w)
  BY <1>14
<1>16. PICK i \in 1 .. n : \E k \in 1 .. n :
         /\ i < k /\ w[i] = p /\ w[k] = oth
         /\ \A j \in 1 .. n : i < j => (ToDo(w, i, j) <=> k <= j)
  BY <1>1, <1>2, <1>7, <1>8, <1>13, <1>15, PlaceOnChain
<1>17. PICK k \in 1 .. n : /\ i < k /\ w[i] = p /\ w[k] = oth
                           /\ \A j \in 1 .. n : i < j => (ToDo(w, i, j) <=> k <= j)
  BY <1>16
<1>18. \A a, b \in 1 .. n : w[a] = w[b] => a = b
  BY <1>15 DEF IsChain
<1>19. oth \in S /\ oth \in Positions /\ oth # p /\ PosSlot(oth) = PosSlot(p)
  <2>1. oth \in S
    BY <1>17
  <2>2. oth # p
    BY <1>17, <1>18
  <2> QED BY <1>11, <1>12, <1>13, <2>1, <2>2 DEF InSlot
<1>20. p \in built /\ oth \in built
  <2>1. Multi(p) /\ Multi(oth)
    BY <1>8, <1>19 DEF Multi
  <2> QED BY <1>5, <1>8, <1>19, <2>1 DEF Walking
<1>21. lchain[oth] \in {None} \cup FPos
  BY <1>4, <1>10, <1>19 DEF BlockTypes
<1>22. /\ LaneTypes' /\ Others(l) /\ SamePass(l) /\ lane'[l].at = lane[l].at
       /\ \/ out' = out /\ drops \subseteq drops' /\ drops' # {} /\ Leaves(l, p)
          \/ /\ (Leaves(l, p) /\ lchain[oth] = None) \/ GoesOn(l, oth)
             /\ \E cb : Emit(cb, staged[p], staged[oth], {p, oth} \subseteq built)
  BY <1>1, <1>4, <1>21, WalkEffect
<1>23. \A q \in LaneIds : q # l => lane'[q] = lane[q]
  BY <1>22 DEF Others
<1>24. Leaves(l, p) \/ GoesOn(l, oth)
  BY <1>22
<1>25. \A q \in LaneIds : SamePass(q) /\ lane'[q].at = lane[q].at
  BY <1>22, <1>23 DEF SamePass
<1>26. \A x \in Positions : x # p => /\ Under(x)' <=> Under(x)
                                     /\ AtHand(x)' <=> AtHand(x)
                                     /\ AtHand(x) => lane'[x % Lanes].oth = lane[x % Lanes].oth
  <2> SUFFICES ASSUME NEW x \in Positions, x # p
               PROVE  /\ Under(x)' <=> Under(x)
                      /\ AtHand(x)' <=> AtHand(x)
                      /\ AtHand(x) => lane'[x % Lanes].oth = lane[x % Lanes].oth
    OBVIOUS
  <2> QED BY <1>1, <1>2, <1>4, <1>10, <1>22, <1>24, WalkElsewhere
<1>27. Positions' = Positions /\ (\A x : Multi(x)' <=> Multi(x)) /\ \A T, g : InSlot(T, g)' = InSlot(T, g)
  BY <1>2, SamePositions
<1>28. PICK s, t : s = staged[p] /\ t = staged[oth]
  OBVIOUS
\* The child, or what became of it.
<1>29. \/ /\ drops' = drops /\ ((Leaves(l, p) /\ lchain[oth] = None) \/ GoesOn(l, oth))
          /\ \E c : out' = out \cup {c} /\ c.whole /\ {c.left, c.right} = {s, t}
       \/ drops' # {} /\ out' = out /\ ((Leaves(l, p) /\ lchain[oth] = None) \/ GoesOn(l, oth))
       \/ drops' # {} /\ out' = out /\ Leaves(l, p)
  <2>1. CASE \E cb : Emit(cb, staged[p], staged[oth], {p, oth} \subseteq built)
    <3>1. PICK cb, whole : Emit(cb, s, t, whole) /\ whole = ({p, oth} \subseteq built)
      BY <1>28, <2>1
    <3>2. \/ drops' = drops /\ \E slot : out' = out \cup {Child(slot, s, t, whole)}
          \/ drops \subseteq drops' /\ drops' # {} /\ out' = out
      BY <3>1, EmitIs
    <3>3. whole
      BY <1>20, <3>1
    <3>4. ASSUME NEW slot, out' = out \cup {Child(slot, s, t, whole)}
          PROVE  \E c : out' = out \cup {c} /\ c.whole /\ {c.left, c.right} = {s, t}
      <4>1. PICK c : c = Child(slot, s, t, whole)
        OBVIOUS
      <4>2. {c.left, c.right} = {s, t} /\ c.whole = whole
        BY <4>1, ChildIs
      <4> QED BY <3>3, <3>4, <4>1, <4>2
    <3> QED BY <1>22, <3>2, <3>4
  <2> QED BY <1>22, <2>1
<1>30. \A x, y \in Positions : staged[x] = staged[y] => x = y
  BY <1>5 DEF Walking, StagedInv
<1>31. ASSUME (Leaves(l, p) /\ lchain[oth] = None) \/ GoesOn(l, oth),
              Paired(s, t)
       PROVE  Walked(n, w)' /\ Ahead(n, w)' /\ ~HasChild(s, t)
  <2>1. StepsOn(n, w, i, k)
    BY <1>1, <1>2, <1>7, <1>8, <1>17, <1>22, <1>31 DEF StepsOn, Leaves, GoesOn
  <2>2. \A a \in 1 .. n : w[a] \in S
    BY <1>15
  <2>3. /\ \A a \in 1 .. n : w[a] # None
        /\ \A a, b \in 1 .. n : staged[w[a]] = staged[w[b]] => a = b
    BY <1>13, <1>18, <1>30, <2>2
  <2>4. Standing(n, w, i, k)
    BY <1>14, <1>15, <1>16, <1>17, <1>18, <2>3 DEF Standing, IsChain
  <2>5. OthersStand(n, w, i)
    BY <1>13, <1>17, <1>18, <1>26, <2>2 DEF OthersStand
  <2>6. s = staged[w[i]] /\ t = staged[w[k]] /\ staged' = staged /\ drops \subseteq drops'
    BY <1>2, <1>17, <1>28
  <2> QED BY <1>31, <2>1, <2>4, <2>5, <2>6, WalkOn
<1>32. ASSUME NEW c, out' = out \cup {c}, {c.left, c.right} = {s, t}
       PROVE  \A a, b : HasChild(a, b)' <=> HasChild(a, b) \/ {a, b} = {s, t}
  BY <1>32 DEF HasChild
<1>33. out' = out => \A a, b : HasChild(a, b)' <=> HasChild(a, b)
  BY DEF HasChild
<1>34. Walked(n, w)' /\ Ahead(n, w)'
  <2>1. CASE /\ drops' = drops /\ ((Leaves(l, p) /\ lchain[oth] = None) \/ GoesOn(l, oth))
             /\ \E c : out' = out \cup {c} /\ c.whole /\ {c.left, c.right} = {s, t}
    BY <1>31, <1>32, <2>1 DEF Paired
  <2>2. CASE drops' # {} /\ out' = out /\ ((Leaves(l, p) /\ lchain[oth] = None) \/ GoesOn(l, oth))
    BY <1>31, <1>33, <2>2 DEF Paired
  <2>3. CASE drops' # {} /\ out' = out /\ Leaves(l, p)
    <3>1. ~Under(p)'
      BY <1>8, <2>3 DEF Under, Leaves
    <3>2. \A x \in S : x # p => /\ Under(x)' <=> Under(x)
                                /\ AtHand(x)' <=> AtHand(x)
                                /\ AtHand(x) => lane'[x % Lanes].oth = lane[x % Lanes].oth
      BY <1>13, <1>26
    <3> QED BY <1>2, <1>15, <1>33, <2>3, <3>1, <3>2, WalkDrops
  <2> QED BY <1>29, <2>1, <2>2, <2>3
<1>35. ASSUME NEW g \in Slots, g # h PROVE WalkChain(g)'
  <2>1. PICK T : T = InSlot(Positions, g)
    OBVIOUS
  <2>2. PICK m \in Nat : \E v \in [1 .. m -> T] : /\ Lists(m, v, T) /\ IsChain(m, v, tab[g].head, lchain)
                                                  /\ Walked(m, v) /\ Ahead(m, v)
    BY <1>5, <2>1 DEF Walking, WalkChain
  <2>3. PICK v \in [1 .. m -> T] : /\ Lists(m, v, T) /\ IsChain(m, v, tab[g].head, lchain)
                                   /\ Walked(m, v) /\ Ahead(m, v)
    BY <2>2
  <2>4. T \subseteq Positions /\ p \notin T
    BY <1>11, <1>35, <2>1 DEF InSlot
  <2>5. \A x, y \in T : HasChild(staged[x], staged[y])' <=> HasChild(staged[x], staged[y])
    <3> SUFFICES ASSUME NEW x \in T, NEW y \in T
                 PROVE  HasChild(staged[x], staged[y])' <=> HasChild(staged[x], staged[y])
      OBVIOUS
    <3>1. PICK a, b : a = staged[x] /\ b = staged[y] /\ a = staged'[x] /\ b = staged'[y]
      BY <1>2
    <3>2. {a, b} # {s, t}
      <4>1. a # s /\ b # s
        BY <1>8, <1>28, <1>30, <2>4, <3>1
      <4> QED BY <4>1
    <3>3. HasChild(a, b)' <=> HasChild(a, b)
      BY <1>29, <1>32, <1>33, <3>2
    <3> QED BY <3>1, <3>3
  <2>6. \A x \in T : /\ Under(x)' <=> Under(x)
                     /\ AtHand(x)' <=> AtHand(x)
                     /\ AtHand(x) => lane'[x % Lanes].oth = lane[x % Lanes].oth
    BY <1>26, <2>4
  <2>7. Walked(m, v)' /\ Ahead(m, v)'
    BY <1>2, <2>3, <2>5, <2>6, WalkRests
  <2>8. InSlot(Positions, g)' = T
    BY <1>27, <2>1
  <2>9. Lists(m, v, T) /\ IsChain(m, v, tab'[g].head, lchain')
    BY <1>2, <2>3
  <2> QED BY <2>7, <2>8, <2>9 DEF WalkChain
<1>36. WalkChain(h)'
  <2>1. InSlot(Positions, h)' = S
    BY <1>12, <1>27
  <2>2. Lists(n, w, S) /\ IsChain(n, w, tab'[h].head, lchain')
    BY <1>2, <1>15
  <2> QED BY <1>34, <2>1, <2>2 DEF WalkChain
<1>37. Fetched'
  BY <1>2, <1>9, <1>6, <1>25 DEF Fetched
<1>38. Agree' /\ StagedInv' /\ \A q \in LaneIds : LastPass(q)' <=> LastPass(q)
  <2>1. Agree'
    <3>1. \A q \in LaneIds : (IsWhole(q)' <=> IsWhole(q)) /\ (IsPart(q)' <=> IsPart(q))
      BY <1>25 DEF IsWhole, IsPart, SamePass
    <3> QED BY <1>5, <1>6, <1>25, <3>1 DEF Walking, Agree, SamePass
  <2>2. \A q \in LaneIds : lane[q].at # "stage" /\ lane'[q].at # "stage"
    BY <1>5, <1>25 DEF Walking, All
  <2>3. \A r \in Members : Pending(r)' <=> Pending(r)
    BY <1>9, <2>2, MembersAreShared DEF Pending
  <2>4. StagedInv'
    BY <1>2, <1>5, <1>6, <1>25, <2>3, StagedKept DEF Walking
  <2> QED BY <1>25, <2>1, <2>4 DEF LastPass, SamePass
<1>39. Walking'
  <2>1. All({"walk", "passed", "done"})'
    BY <1>5, <1>25 DEF Walking, All
  <2>2. (\A q \in LaneIds : lane[q].at = "walk" =>
           /\ \A pos \in lane[q].rest : pos \in Positions /\ pos % Lanes = q /\ lchain[pos] # None
           /\ lane[q].oth # None => lane[q].rest # {})'
    <3> SUFFICES ASSUME NEW q \in LaneIds, lane'[q].at = "walk"
                 PROVE  /\ \A pos \in lane'[q].rest : pos \in Positions /\ pos % Lanes = q /\ lchain[pos] # None
                        /\ lane'[q].oth # None => lane'[q].rest # {}
      BY <1>2, <1>27
    <3>1. CASE q = l
      <4>1. lane'[l].rest \subseteq lane[l].rest
        BY <1>24 DEF Leaves, GoesOn
      <4>2. lane'[l].oth # None => lane'[l].rest # {}
        BY <1>2, <1>24 DEF Leaves, GoesOn
      <4> QED BY <1>2, <1>5, <3>1, <4>1, <4>2 DEF Walking
    <3>2. CASE q # l
      BY <1>5, <1>23, <3>2 DEF Walking
    <3> QED BY <3>1, <3>2
  <2>3. (\A q \in LaneIds : lane[q].at = "passed" => lane[q].oth = None /\ ~LastPass(q))'
    <3> SUFFICES ASSUME NEW q \in LaneIds, lane'[q].at = "passed" PROVE lane'[q].oth = None /\ ~LastPass(q)
      BY <1>38
    <3>1. q # l
      BY <1>2, <1>25
    <3> QED BY <1>5, <1>23, <3>1 DEF Walking
  <2>4. (\A q \in LaneIds : lane[q].at = "done" => LastPass(q))'
    BY <1>5, <1>25, <1>38 DEF Walking
  <2>5. (\A pos \in Positions : Multi(pos) => pos \in built)'
    BY <1>2, <1>5, <1>27 DEF Walking
  <2>6. gcount' > FCap => "stage" \in drops'
    BY <1>2, <1>5 DEF Walking
  <2>7. (\A g \in Slots : WalkChain(g))'
    BY <1>35, <1>36
  <2> QED BY <1>38, <2>1, <2>2, <2>3, <2>4, <2>5, <2>6, <2>7 DEF Walking
<1>40. Emitting /\ Emitting'
  BY <1>5, <1>6, <1>25 DEF Emitting, Walking, All
<1>41. MadeInv'
  <2>1. CASE out' = out
    BY <1>2, <1>4, <1>6, <1>9, <1>25, <1>40, <2>1, MadeKept
  <2>2. CASE /\ drops' = drops /\ ((Leaves(l, p) /\ lchain[oth] = None) \/ GoesOn(l, oth))
             /\ \E c : out' = out \cup {c} /\ c.whole /\ {c.left, c.right} = {s, t}
    <3>1. PICK c : out' = out \cup {c} /\ c.whole /\ {c.left, c.right} = {s, t}
      BY <2>2
    <3>2. ~HasChild(s, t)
      BY <1>31, <1>32, <2>2, <3>1 DEF Paired
    <3>3. StagedInv
      BY <1>5 DEF Walking
    <3>4. SamePass(0)
      BY <1>6, <1>25
    <3> QED BY <1>2, <1>4, <1>8, <1>9, <1>19, <1>28, <1>40, <2>2, <3>1, <3>2, <3>3, <3>4, ChildKeeps
  <2> QED BY <1>29, <2>1, <2>2
<1>42. SetInv' /\ Quiet'
  BY <1>3, FrameKeeps
<1>43. MembersInv'
  BY <1>2, <1>4, <1>9, MembersKept
<1>44. BlockTypes'
  BY <1>2, <1>4 DEF BlockTypes
<1> QED BY <1>22, <1>39, <1>41, <1>42, <1>43, <1>44 DEF RoundInv, PhaseInv

(***************************************************************************)
(* The barriers.  Behind one, every lane is at the next place.             *)
(***************************************************************************)
Still == /\ step = "block"
         /\ UNCHANGED <<input, kind, step, todo, count, elem, actr, atag, ahead, anext, block, drops>>
         /\ UNCHANGED <<aidx, gcount, tab, lchain, cnt8, staged, mlist, built, out>>
Waiting(barrier) == \A l \in LaneIds : lane[l].at = barrier
SetFree(barrier) == lane' = [l \in LaneIds |-> Behind(barrier, l)]

LEMMA SyncIs == SyncThreads => Still /\ \E barrier \in Barriers : Waiting(barrier) /\ SetFree(barrier)
BY DEF SyncThreads, Still, Waiting, SetFree, inputVars, setVars, sharedVars, outVars

\* The lanes agree behind a barrier as before it.
LEMMA AgreeKept ==
  ASSUME \A l \in LaneIds : SamePass(l) /\ lane'[l].oth = lane[l].oth
  PROVE  /\ Agree => Agree'
         /\ NoWalk => NoWalk'
         /\ \A l \in LaneIds : IsWhole(l)' <=> IsWhole(l)
         /\ SamePass(0)
<1>1. \A k \in LaneIds : (IsWhole(k)' <=> IsWhole(k)) /\ (IsPart(k)' <=> IsPart(k))
  BY DEF IsWhole, IsPart, SamePass
<1>2. 0 \in LaneIds
  BY LanesAre
<1>3. Agree => Agree'
  BY <1>1, <1>2 DEF Agree, SamePass
<1>4. NoWalk => NoWalk'
  BY DEF NoWalk
<1> QED BY <1>1, <1>2, <1>3, <1>4

\* What is not the lanes' is as it was.
LEMMA StillKeeps ==
  ASSUME RoundInv, Still, lane[0].at # "fetch"
  PROVE  /\ SetInv' /\ Quiet' /\ BlockTypes' /\ MembersInv' /\ Fetched
         /\ SamePass(0) /\ (Emitting => Emitting') => MadeInv'
<1>1. Frame
  BY DEF Still, Frame
<1>2. SetInv' /\ Quiet'
  BY <1>1, FrameKeeps
<1>3. BlockTypes'
  BY DEF RoundInv, BlockTypes, Still
<1>4. Fetched
  BY DEF Fetched, Still
<1>5. MembersInv'
  BY <1>4, MembersKept DEF RoundInv, Still
<1>6. SamePass(0) /\ (Emitting => Emitting') => MadeInv'
  BY <1>4, MadeKept DEF RoundInv, Still
<1> QED BY <1>2, <1>3, <1>4, <1>5, <1>6

\* A barrier behind which a lane goes on in its pass.
LEMMA GoesOnFrom ==
  ASSUME LaneTypes, NEW barrier, NEW place, Waiting(barrier), SetFree(barrier),
         <<barrier, place>> \in {<<"fetched", "clear">>, <<"staged", "decide">>, <<"zeroed", "tally">>,
                                 <<"tallied", "choose">>, <<"chosen", "clear">>}
  PROVE  LaneTypes' /\ Moved(place)
<1>1. place \in LanePlaces
  BY DEF LanePlaces
<1>2. lane' = [l \in LaneIds |-> Behind(barrier, l)]
  BY DEF SetFree
<1>3. ASSUME NEW l PROVE Behind(barrier, l) = [lane[l] EXCEPT !.at = place]
  <2>1. CASE barrier = "fetched" /\ place = "clear"
    BY <2>1, Zenon DEF Behind
  <2>2. CASE barrier = "staged" /\ place = "decide"
    BY <2>2, Zenon DEF Behind
  <2>3. CASE barrier = "zeroed" /\ place = "tally"
    BY <2>3, Zenon DEF Behind
  <2>4. CASE barrier = "tallied" /\ place = "choose"
    BY <2>4, Zenon DEF Behind
  <2>5. CASE barrier = "chosen" /\ place = "clear"
    BY <2>5, Zenon DEF Behind
  <2> QED BY <2>1, <2>2, <2>3, <2>4, <2>5
<1>4. lane' = [l \in LaneIds |-> [lane[l] EXCEPT !.at = place]]
  BY <1>2, <1>3, Zenon
<1> QED BY <1>1, <1>4, SyncMoves, Zenon

LEMMA FetchedKeeps == ASSUME RoundInv, Still, Waiting("fetched"), SetFree("fetched") PROVE RoundInv'
<1>1. LaneTypes' /\ Moved("clear")
  BY GoesOnFrom DEF RoundInv
<1>2. 0 \in LaneIds /\ \A l \in LaneIds : lane'[l].at = "clear" /\ lane[l].at = "fetched"
  BY <1>1, LanesAre DEF Moved, Waiting
<1>3. Clearing
  BY <1>2, PhaseAt DEF RoundInv, Still
<1>4. Agree' /\ NoWalk' /\ SamePass(0)
  BY <1>1, <1>3, AgreeKept DEF Clearing, Moved
<1>5. Clearing'
  BY <1>2, <1>4 DEF Clearing, All
<1>6. SetInv' /\ Quiet' /\ BlockTypes' /\ MembersInv' /\ MadeInv'
  BY <1>2, <1>4, StillKeeps DEF Emitting
<1> QED BY <1>1, <1>5, <1>6 DEF RoundInv, PhaseInv

LEMMA ZeroedKeeps == ASSUME RoundInv, Still, Waiting("zeroed"), SetFree("zeroed") PROVE RoundInv'
<1>1. LaneTypes' /\ Moved("tally")
  BY GoesOnFrom DEF RoundInv
<1>2. 0 \in LaneIds /\ \A l \in LaneIds : lane'[l].at = "tally" /\ lane[l].at = "zeroed"
  BY <1>1, LanesAre DEF Moved, Waiting
<1>3. Forming
  BY <1>2, PhaseAt DEF RoundInv, Still
<1>4. NoWalk' /\ SamePass(0) /\ \A l \in LaneIds : IsWhole(l)' <=> IsWhole(l)
  BY <1>1, <1>3, AgreeKept DEF Forming, Moved
<1>5. \A l \in LaneIds : IsWhole(l)
  BY <1>2, <1>3 DEF Forming, Agree, IsWhole
<1>6. Tallying'
  BY <1>2, <1>4, <1>5 DEF Tallying, All
<1>7. SetInv' /\ Quiet' /\ BlockTypes' /\ MembersInv' /\ MadeInv'
  BY <1>2, <1>4, StillKeeps DEF Emitting
<1> QED BY <1>1, <1>6, <1>7 DEF RoundInv, PhaseInv

LEMMA TalliedKeeps == ASSUME RoundInv, Still, Waiting("tallied"), SetFree("tallied") PROVE RoundInv'
<1>1. LaneTypes' /\ Moved("choose")
  BY GoesOnFrom DEF RoundInv
<1>2. 0 \in LaneIds /\ \A l \in LaneIds : lane'[l].at = "choose" /\ lane[l].at = "tallied"
  BY <1>1, LanesAre DEF Moved, Waiting
<1>3. Tallying
  BY <1>2, PhaseAt DEF RoundInv, Still
<1>4. NoWalk' /\ SamePass(0) /\ \A l \in LaneIds : IsWhole(l)' <=> IsWhole(l)
  BY <1>1, <1>3, AgreeKept DEF Tallying, Moved
<1>5. Choosing'
  BY <1>2, <1>3, <1>4 DEF Tallying, Choosing, All
<1>6. SetInv' /\ Quiet' /\ BlockTypes' /\ MembersInv' /\ MadeInv'
  BY <1>2, <1>4, StillKeeps DEF Emitting
<1> QED BY <1>1, <1>5, <1>6 DEF RoundInv, PhaseInv

LEMMA ChosenKeeps == ASSUME RoundInv, Still, Waiting("chosen"), SetFree("chosen") PROVE RoundInv'
<1>1. LaneTypes' /\ Moved("clear")
  BY GoesOnFrom DEF RoundInv
<1>2. 0 \in LaneIds /\ \A l \in LaneIds : lane'[l].at = "clear" /\ lane[l].at = "chosen"
  BY <1>1, LanesAre DEF Moved, Waiting
<1>3. Choosing
  BY <1>2, PhaseAt DEF RoundInv, Still
<1>4. NoWalk' /\ SamePass(0) /\ \A l \in LaneIds : SamePass(l)
  BY <1>1, <1>3, AgreeKept DEF Choosing, Moved
<1>5. PICK xb \in 1 .. MaxSpill : xb = SplitLevel(cnt8)
  BY SplitLevelIs
<1>6. 2 ^ xb \in Nat \ {0}
  BY TwoPowers, FSizes
<1>7. \A l \in LaneIds : lane'[l].xb = xb /\ lane'[l].xp = 0 /\ lane'[l].parts = 2 ^ xb /\ lane'[l].counted = TRUE
  BY <1>2, <1>3, <1>4, <1>5 DEF Choosing, SamePass
<1>8. Agree'
  <2>1. \A l \in LaneIds : /\ lane'[l].xb = lane'[0].xb /\ lane'[l].xp = lane'[0].xp
                          /\ lane'[l].parts = lane'[0].parts /\ lane'[l].counted = lane'[0].counted
    BY <1>2, <1>7
  <2>2. PICK n \in Nat \ {0} : n = 2 ^ xb
    BY <1>6
  <2>3. lane'[0].xb = xb /\ lane'[0].xp = 0 /\ lane'[0].parts = n /\ lane'[0].counted = TRUE
    BY <1>2, <1>7, <2>2
  <2>4. IsPart(0)'
    BY <1>5, <2>2, <2>3 DEF IsPart
  <2> QED BY <2>1, <2>4 DEF Agree
<1>9. Clearing'
  BY <1>2, <1>4, <1>8 DEF Clearing, All
<1>10. SetInv' /\ Quiet' /\ BlockTypes' /\ MembersInv' /\ MadeInv'
  BY <1>2, <1>4, StillKeeps DEF Emitting
<1> QED BY <1>1, <1>9, <1>10 DEF RoundInv, PhaseInv

LEMMA StagedKeeps == ASSUME RoundInv, Still, Waiting("staged"), SetFree("staged") PROVE RoundInv'
<1>1. LaneTypes' /\ Moved("decide")
  BY GoesOnFrom DEF RoundInv
<1>2. 0 \in LaneIds /\ \A l \in LaneIds : lane'[l].at = "decide" /\ lane[l].at = "staged"
  BY <1>1, LanesAre DEF Moved, Waiting
<1>3. Staging
  BY <1>2, PhaseAt DEF RoundInv, Still
<1>4. Agree' /\ NoWalk' /\ SamePass(0)
  BY <1>1, <1>3, AgreeKept DEF Staging, Moved
<1>5. SetInv' /\ Quiet' /\ BlockTypes' /\ MembersInv' /\ MadeInv' /\ Fetched
  BY <1>2, <1>4, StillKeeps DEF Emitting
<1>6. StagedInv'
  <2>1. \A p \in Members : ~Pending(p) /\ ~Pending(p)'
    BY <1>2, <1>5, MembersAreShared DEF Pending
  <2> QED BY <1>3, <1>4, <2>1, StagedKept DEF Staging, Still
<1>7. Positions' = Positions /\ (\A x : PosSlot(x)' = PosSlot(x)) /\ \A S, h : InSlot(S, h)' = InSlot(S, h)
  BY SamePositions DEF Still
<1>8. \A pos \in Positions : Unchained(pos)' /\ PosSlot(pos) % Lanes \in LaneIds
  <2> SUFFICES ASSUME NEW pos \in Positions PROVE Unchained(pos)' /\ PosSlot(pos) % Lanes \in LaneIds
    OBVIOUS
  <2>1. pos % Lanes \in LaneIds
    BY <1>5, MembersAreShared
  <2>2. PosSlot(pos) \in Nat
    BY <1>3, <1>5, StagedAre DEF RoundInv, Staging, Slots
  <2> QED BY <1>2, <2>1, <2>2, LanesAre DEF Unchained
<1>9. Forming'
  <2>1. (TabChains(IF kind.mfirst THEN Positions ELSE {pos \in Positions : ~Unchained(pos)}))'
    <3>1. PICK S : S = IF kind.mfirst THEN Positions ELSE {}
      OBVIOUS
    <3>2. S = (IF kind.mfirst THEN Positions ELSE {pos \in Positions : ~Unchained(pos)})'
      BY <1>7, <1>8, <3>1 DEF Still
    <3>3. TabChains(S)
      BY <1>3, <3>1 DEF Staging
    <3>4. TabChains(S)'
      BY <1>7, <3>3 DEF TabChains, Still
    <3> QED BY <3>2, <3>4
  <2>2. (kind.mfirst => \A pos \in Positions :
           Multi(pos) /\ lane[PosSlot(pos) % Lanes].at \in {"compacted", "chain", "chained"} => pos \in mlist)'
    <3> SUFFICES ASSUME NEW pos \in Positions
                 PROVE  lane'[PosSlot(pos)' % Lanes].at \notin {"compacted", "chain", "chained"}
      BY <1>7
    <3>1. lane'[PosSlot(pos) % Lanes].at = "decide"
      BY <1>2, <1>8
    <3> QED BY <1>7, <3>1
  <2>3. (\A pos \in Positions : Multi(pos) /\ ~Unchained(pos) => pos \in built)'
    BY <1>7, <1>8
  <2>4. mlist' = {}
    BY <1>3 DEF Staging, Still
  <2> QED BY <1>2, <1>4, <1>6, <2>1, <2>2, <2>3, <2>4 DEF Forming, Formed, All
<1> QED BY <1>1, <1>5, <1>9 DEF RoundInv, PhaseInv

LEMMA BehindCompacted ==
  ASSUME NEW l
  PROVE  Behind("compacted", l) = [lane[l] EXCEPT !.at = "chain", !.rest = Shares(l, mlist)]
BY Zenon DEF Behind

LEMMA CompactedKeeps == ASSUME RoundInv, Still, Waiting("compacted"), SetFree("compacted") PROVE RoundInv'
<1>1. PICK R : R = [l \in LaneIds |-> Shares(l, mlist)]
  OBVIOUS
<1>2. \A l \in LaneIds : R[l] \in SUBSET Nat /\ R[l] = Shares(l, mlist)
  BY <1>1, FSizes DEF RoundInv, BlockTypes, Shares
<1>0. \A l \in LaneIds : R[l] = Shares(l, mlist)
  BY <1>2, Zenon
<1>3. lane' = [l \in LaneIds |-> [lane[l] EXCEPT !.at = "chain", !.rest = R[l]]]
  <2>1. ASSUME NEW l \in LaneIds
        PROVE  Behind("compacted", l) = [lane[l] EXCEPT !.at = "chain", !.rest = R[l]]
    <3>1. R[l] = Shares(l, mlist)
      BY <1>0, Zenon
    <3> QED BY <3>1, BehindCompacted, Zenon
  <2> QED BY <2>1, Zenon DEF SetFree
<1>4. /\ LaneTypes'
      /\ \A l \in LaneIds : /\ lane'[l].at = "chain" /\ SamePass(l)
                            /\ lane'[l].rest = R[l] /\ lane'[l].oth = lane[l].oth
  <2>1. LaneTypes /\ "chain" \in LanePlaces
    BY DEF RoundInv, LanePlaces
  <2> QED BY <1>2, <1>3, <2>1, SyncLoops
<1>5. 0 \in LaneIds /\ \A l \in LaneIds : lane[l].at = "compacted"
  BY LanesAre DEF Waiting
<1>6. Forming
  BY <1>5, PhaseAt DEF RoundInv, Still, Formed
<1>7. Agree' /\ NoWalk' /\ SamePass(0)
  BY <1>4, <1>6, AgreeKept DEF Forming
<1>8. SetInv' /\ Quiet' /\ BlockTypes' /\ MembersInv' /\ MadeInv' /\ Fetched
  BY <1>5, <1>7, StillKeeps DEF Emitting
<1>9. StagedInv'
  <2>1. \A p \in Members : ~Pending(p) /\ ~Pending(p)'
    BY <1>4, <1>5, <1>8, MembersAreShared DEF Pending
  <2> QED BY <1>6, <1>7, <2>1, StagedKept DEF Forming, Still
<1>10. /\ Positions' = Positions
       /\ \A x : PosSlot(x)' = PosSlot(x) /\ (Multi(x)' <=> Multi(x))
       /\ \A S, h : InSlot(S, h)' = InSlot(S, h)
  BY SamePositions DEF Still
<1>11. kind.mfirst
  BY <1>5, <1>6 DEF Forming, All
<1>12. \A pos \in Positions : pos % Lanes \in LaneIds /\ PosSlot(pos) % Lanes \in LaneIds
  <2> SUFFICES ASSUME NEW pos \in Positions PROVE pos % Lanes \in LaneIds /\ PosSlot(pos) % Lanes \in LaneIds
    OBVIOUS
  <2>1. PosSlot(pos) \in Nat
    BY <1>6, <1>8, StagedAre DEF RoundInv, Forming, Slots
  <2> QED BY <1>8, <2>1, MembersAreShared, LanesAre
<1>13. \A pos \in Positions : Multi(pos) => pos \in mlist
  BY <1>5, <1>6, <1>11, <1>12 DEF Forming
<1>14. Forming'
  <2>1. TabChains(IF kind.mfirst THEN Positions ELSE {pos \in Positions : ~Unchained(pos)})'
    <3>1. TabChains(Positions)
      BY <1>6, <1>11 DEF Forming
    <3>2. TabChains(Positions)'
      BY <1>10, <3>1 DEF TabChains, Still
    <3> QED BY <1>11, <3>2 DEF Still
  <2>2. (\A l \in LaneIds : lane[l].at = "chain" => \A pos \in lane[l].rest : pos \in Positions /\ pos % Lanes = l)'
    BY <1>2, <1>4, <1>6, <1>10 DEF Shares, Forming
  <2>3. (\A pos \in Positions : Multi(pos) /\ ~Unchained(pos) => pos \in built)'
    <3> SUFFICES ASSUME NEW pos \in Positions, Multi(pos) PROVE Unchained(pos)'
      BY <1>10
    <3>1. PICK l \in LaneIds : l = pos % Lanes
      BY <1>12
    <3>2. pos \in lane'[l].rest
      BY <1>2, <1>4, <1>13, <3>1 DEF Shares
    <3> QED BY <1>4, <3>1, <3>2 DEF Unchained
  <2>4. gcount' <= FCap \/ lane'[0].counted = TRUE
    BY <1>5, <1>6, <1>7 DEF Forming, Formed, SamePass, Still
  <2>5. gcount' > FCap => "stage" \in drops'
    BY <1>5, <1>6 DEF Forming, Formed, Still
  <2>6. mlist' \subseteq Positions' /\ \A pos \in Positions' : Multi(pos)' => pos \in mlist'
    BY <1>6, <1>10, <1>13 DEF Forming, Still
  <2>7. All({"chain", "chained"})' /\ \A l \in LaneIds : lane'[l].at = "chain"
    BY <1>4 DEF All
  <2>8. \A l \in LaneIds : lane'[l].at \in Formed => gcount' <= FCap \/ lane'[0].counted = TRUE
    BY <2>4
  <2>9. kind'.mfirst
    BY <1>11 DEF Still
  <2> QED BY <1>5, <1>7, <1>9, <2>1, <2>2, <2>3, <2>4, <2>5, <2>6, <2>7, <2>9 DEF Forming, Formed, All
<1> QED BY <1>4, <1>8, <1>14 DEF RoundInv, PhaseInv

\* The staging of a group begins: each lane with its elements of the group, but for those
\* that are alone.
LEMMA StageStarts ==
  ASSUME RoundInv, Still, NEW barrier, barrier \in {"cleared", "censused"}, Waiting(barrier), SetFree(barrier),
         barrier = "cleared" => ~kind.solo, Agree, NoWalk, gcount = 0, mlist = {},
         \A h \in Slots : tab[h].head = None,
         \A p \in Members : InPass(0, p) => Alone(p) \/ \A l \in LaneIds : Wanted(l, p)
  PROVE  RoundInv'
<1>1. PICK R : R = [l \in LaneIds |-> {p \in Shares(l, Members) : Wanted(l, p)}]
  OBVIOUS
<1>2. 0 \in LaneIds /\ \A l \in LaneIds : lane[l].at = barrier
  BY LanesAre DEF Waiting
<1>3. Fetched
  BY <1>2, StillKeeps
<1>4. \A l \in LaneIds : R[l] \in SUBSET Nat /\ R[l] = {p \in Shares(l, Members) : Wanted(l, p)}
  BY <1>1, <1>3, MembersAreShared DEF Shares
<1>5. lane' = [l \in LaneIds |-> [lane[l] EXCEPT !.at = "stage", !.rest = R[l]]]
  <2>1. \A l \in LaneIds : Behind(barrier, l) = [lane[l] EXCEPT !.at = "stage", !.rest = R[l]]
    BY <1>4 DEF Behind
  <2> QED BY <2>1 DEF SetFree
<1>6. /\ LaneTypes'
      /\ \A l \in LaneIds : /\ lane'[l].at = "stage" /\ SamePass(l)
                            /\ lane'[l].rest = R[l] /\ lane'[l].oth = lane[l].oth
  <2>1. LaneTypes /\ "stage" \in LanePlaces
    BY DEF RoundInv, LanePlaces
  <2> QED BY <1>4, <1>5, <2>1, SyncLoops
<1>7. Agree' /\ NoWalk' /\ SamePass(0)
  BY <1>6, AgreeKept
<1>8. SetInv' /\ Quiet' /\ BlockTypes' /\ MembersInv' /\ MadeInv'
  BY <1>2, <1>7, StillKeeps DEF Emitting
<1>9. /\ Members' = Members
      /\ \A p : SlotOf(p)' = SlotOf(p) /\ (InPass(0, p)' <=> InPass(0, p)) /\ (Alone(p)' <=> Alone(p))
  BY <1>7, SameGroup DEF Still
<1>10. Positions' = {} /\ gcount' = 0
  <2>1. Staged = 0
    BY PositionsAre, FSizes
  <2> QED BY <2>1, SamePositions DEF Positions, Still
<1>11. ASSUME NEW p \in Members, InPass(0, p) PROVE Pending(p)' \/ Alone(p)
  <2>1. PICK l \in LaneIds : l = p % Lanes
    BY <1>3, MembersAreShared
  <2>2. CASE Wanted(l, p)
    <3>1. p \in lane'[l].rest
      BY <1>4, <1>6, <2>1, <2>2 DEF Shares
    <3> QED BY <1>6, <2>1, <3>1 DEF Pending
  <2> QED BY <1>11, <2>2
<1>12. StagedInv'
  BY <1>9, <1>10, <1>11 DEF StagedInv
<1>13. Staging'
  <2>1. ASSUME NEW l \in LaneIds, NEW p \in lane'[l].rest PROVE p \in Members /\ InPass(0, p) /\ p % Lanes = l
    BY <1>4, <1>6, <2>1, OneGroup DEF Shares, Wanted
  <2>2. TabChains(IF kind.mfirst THEN Positions ELSE {})'
    <3>1. (IF kind.mfirst THEN Positions ELSE {})' = {}
      BY <1>10
    <3>2. TabChains({})'
      <4> SUFFICES ASSUME NEW h \in Slots PROVE ChainIs(InSlot({}, h)', tab'[h].head, lchain')
        BY DEF TabChains
      <4>1. InSlot({}, h)' = {} /\ tab'[h].head = None
        BY DEF InSlot, Still
      <4> QED BY <4>1, ChainEmpty
    <3> QED BY <3>1, <3>2
  <2>3. mlist' = {}
    BY DEF Still
  <2> QED BY <1>6, <1>7, <1>9, <1>12, <2>1, <2>2, <2>3 DEF Staging, All
<1> QED BY <1>6, <1>8, <1>13 DEF RoundInv, PhaseInv

LEMMA ClearedKeeps == ASSUME RoundInv, Still, Waiting("cleared"), SetFree("cleared") PROVE RoundInv'
<1>1. 0 \in LaneIds /\ \A l \in LaneIds : lane[l].at = "cleared"
  BY LanesAre DEF Waiting
<1>2. Clearing
  BY <1>1, PhaseAt DEF RoundInv, Still
<1>3. \A h \in Slots : tab[h].head = None /\ tab[h].n = 0
  <2> SUFFICES ASSUME NEW h \in Slots PROVE tab[h].head = None /\ tab[h].n = 0
    OBVIOUS
  <2>1. h % Lanes \in LaneIds
    BY LanesAre DEF Slots
  <2>2. tab[h] = EmptySlot
    BY <1>1, <1>2, <2>1 DEF Clearing
  <2> QED BY <2>2, EmptySlotIs
<1>4. gcount = 0 /\ mlist = {} /\ Agree /\ NoWalk
  BY <1>1, <1>2 DEF Clearing
<1>5. CASE ~kind.solo
  <2>1. \A p \in Members : InPass(0, p) => Alone(p) \/ \A l \in LaneIds : Wanted(l, p)
    BY <1>4, <1>5, OneGroup DEF Wanted
  <2> QED BY <1>3, <1>4, <1>5, <2>1, StageStarts
<1>6. CASE kind.solo
  <2>1. "census" \in LanePlaces
    BY DEF LanePlaces
  <2>2. lane' = [l \in LaneIds |-> [lane[l] EXCEPT !.at = "census"]]
    BY <1>6 DEF SetFree, Behind
  <2>3. LaneTypes' /\ Moved("census")
    BY <2>1, <2>2, SyncMoves DEF RoundInv
  <2>4. Agree' /\ NoWalk' /\ SamePass(0)
    BY <1>4, <2>3, AgreeKept DEF Moved
  <2>5. SetInv' /\ Quiet' /\ BlockTypes' /\ MembersInv' /\ MadeInv' /\ Fetched
    BY <1>1, <2>4, StillKeeps DEF Emitting
  <2>6. ASSUME NEW h \in Slots PROVE tab'[h].head = None /\ tab'[h].n = Cardinality(Counted(h)')
    <3>1. Members' = Members
      BY <2>4, SameGroup DEF Still
    <3>2. \A p \in Members : lane'[p % Lanes].at = "census"
      BY <2>3, <2>5, MembersAreShared DEF Moved
    <3>3. Counted(h)' = {}
      BY <3>1, <3>2 DEF Counted
    <3>4. Cardinality({}) = 0
      BY FS_EmptySet
    <3> QED BY <1>3, <3>3, <3>4 DEF Still
  <2>7. Censusing'
    <3>1. (\A h \in Slots : tab[h].head = None /\ tab[h].n = Cardinality(Counted(h)))'
      BY <2>6
    <3>2. All({"census", "censused"})'
      BY <2>3 DEF All, Moved
    <3>3. kind'.solo /\ gcount' = 0 /\ mlist' = {}
      BY <1>4, <1>6 DEF Still
    <3> QED BY <2>4, <3>1, <3>2, <3>3 DEF Censusing
  <2> QED BY <2>3, <2>5, <2>7 DEF RoundInv, PhaseInv
<1> QED BY <1>5, <1>6

\* Two of a set are two.
LEMMA TwoAreTwo ==
  ASSUME NEW S, IsFiniteSet(S), NEW x \in S, NEW y \in S, x # y
  PROVE  Cardinality(S) >= 2
<1>1. IsFiniteSet({x}) /\ IsFiniteSet({y}) /\ Cardinality({x}) = 1 /\ Cardinality({y}) = 1
  BY FS_Singleton
<1>2. Cardinality({x} \cup {y}) = Cardinality({x}) + Cardinality({y})
  BY <1>1, CountMore
<1>3. {x} \cup {y} \subseteq S
  OBVIOUS
<1>4. Cardinality({x} \cup {y}) <= Cardinality(S)
  BY <1>3, FS_Subset
<1>5. Cardinality(S) \in Nat
  BY FS_CardinalityType
<1> QED BY <1>1, <1>2, <1>4, <1>5

LEMMA CensusedKeeps == ASSUME RoundInv, Still, Waiting("censused"), SetFree("censused") PROVE RoundInv'
<1>1. 0 \in LaneIds /\ \A l \in LaneIds : lane[l].at = "censused"
  BY LanesAre DEF Waiting
<1>2. Censusing
  BY <1>1, PhaseAt DEF RoundInv, Still
<1>3. Fetched
  BY <1>1, StillKeeps
<1>4. gcount = 0 /\ mlist = {} /\ Agree /\ NoWalk /\ \A h \in Slots : tab[h].head = None
  BY <1>2 DEF Censusing
<1>5. ASSUME NEW p \in Members, InPass(0, p) PROVE Alone(p) \/ \A l \in LaneIds : Wanted(l, p)
  <2> SUFFICES ASSUME ~Alone(p) PROVE \A l \in LaneIds : Wanted(l, p)
    OBVIOUS
  <2>1. PICK r \in Members : InPass(0, r) /\ SlotKey(r) = SlotKey(p) /\ r # p
    BY DEF Alone
  <2>2. PICK h \in Slots : h = SlotKey(p)
    BY <1>3, MemberTypes DEF RoundInv
  <2>3. p \in Counted(h) /\ r \in Counted(h)
    BY <1>1, <1>3, <1>5, <2>1, <2>2, MembersAreShared DEF Counted
  <2>4. IsFiniteSet(Counted(h))
    <3>1. Counted(h) \subseteq Members /\ IsFiniteSet(Members)
      BY MembersAreFew DEF Counted, RoundInv
    <3> QED BY <3>1, FS_Subset
  <2>5. Cardinality(Counted(h)) >= 2
    BY <2>1, <2>3, <2>4, TwoAreTwo
  <2>6. tab[h].n >= 2
    BY <1>2, <2>5 DEF Censusing
  <2> QED BY <1>4, <1>5, <2>2, <2>6, OneGroup DEF Wanted, SlotKey
<1> QED BY <1>4, <1>5, StageStarts

\* Before a part of the group is walked, none of its elements is in a child.
LEMMA NoneYet ==
  ASSUME RoundInv, Fetched, StagedInv, ~Emitting, NEW x \in Positions, NEW y
  PROVE  ~HasChild(staged[x], y)
<1> SUFFICES ASSUME NEW c \in out, {c.left, c.right} = {staged[x], y} PROVE FALSE
  BY DEF HasChild
<1>1. PICK q \in Members : InPass(0, q) /\ staged[x] = SlotOf(q)
  BY StagedAre DEF RoundInv
<1>2. PICK p \in Members, r \in Members :
        /\ Twins(p, r) /\ {c.left, c.right} = {SlotOf(p), SlotOf(r)}
        /\ PartOf(p) < lane[0].xp
  BY DEF RoundInv, MadeInv, ChildInv
<1>3. PartOf(r) = PartOf(p)
  BY <1>2 DEF Twins, PartOf
<1>4. q = p \/ q = r
  <2>1. SlotOf(q) = SlotOf(p) \/ SlotOf(q) = SlotOf(r)
    BY <1>1, <1>2
  <2> QED BY <2>1 DEF RoundInv, MembersInv
<1>5. PartOf(q) = lane[0].xp
  BY <1>1 DEF InPass, PartOf
<1>6. PartOf(q) \in Nat
  BY MemberTypes DEF RoundInv
<1> QED BY <1>2, <1>3, <1>4, <1>5, <1>6

LEMMA ChainedKeeps == ASSUME RoundInv, Still, Waiting("chained"), SetFree("chained") PROVE RoundInv'
<1>1. PICK R : R = [l \in LaneIds |-> {pos \in Shares(l, Positions) : lchain[pos] # None}]
  OBVIOUS
<1>2. 0 \in LaneIds /\ \A l \in LaneIds : lane[l].at = "chained"
  BY LanesAre DEF Waiting
<1>3. Forming
  BY <1>2, PhaseAt DEF RoundInv, Still, Formed
<1>4. Fetched
  BY <1>2, StillKeeps
<1>5. \A l \in LaneIds : R[l] \in SUBSET Nat /\ R[l] = {pos \in Shares(l, Positions) : lchain[pos] # None}
  BY <1>1, <1>4, MembersAreShared DEF Shares
<1>6. lane' = [l \in LaneIds |-> [lane[l] EXCEPT !.at = "walk", !.rest = R[l]]]
  <2>1. \A l \in LaneIds : Behind("chained", l) = [lane[l] EXCEPT !.at = "walk", !.rest = R[l]]
    BY <1>5 DEF Behind
  <2> QED BY <2>1 DEF SetFree
<1>7. /\ LaneTypes'
      /\ \A l \in LaneIds : /\ lane'[l].at = "walk" /\ SamePass(l)
                            /\ lane'[l].rest = R[l] /\ lane'[l].oth = lane[l].oth
  <2>1. LaneTypes /\ "walk" \in LanePlaces
    BY DEF RoundInv, LanePlaces
  <2> QED BY <1>5, <1>6, <2>1, SyncLoops
<1>8. Agree' /\ NoWalk' /\ SamePass(0)
  BY <1>3, <1>7, AgreeKept DEF Forming
<1>9. SetInv' /\ Quiet' /\ BlockTypes' /\ MembersInv' /\ MadeInv'
  BY <1>2, <1>8, StillKeeps DEF Emitting
<1>10. StagedInv'
  <2>1. \A p \in Members : ~Pending(p) /\ ~Pending(p)'
    BY <1>2, <1>4, <1>7, MembersAreShared DEF Pending
  <2> QED BY <1>3, <1>8, <2>1, StagedKept DEF Forming, Still
<1>11. Positions' = Positions /\ (\A x : Multi(x)' <=> Multi(x)) /\ \A S, h : InSlot(S, h)' = InSlot(S, h)
  BY SamePositions DEF Still
<1>12. \A pos \in Positions : ~Unchained(pos)
  BY <1>2, <1>4, MembersAreShared DEF Unchained
<1>13. TabChains(Positions)
  <2>1. {pos \in Positions : ~Unchained(pos)} = Positions
    BY <1>12
  <2> QED BY <1>3, <2>1 DEF Forming
<1>14. ASSUME NEW h \in Slots PROVE WalkChain(h)'
  <2>1. PICK S : S = InSlot(Positions, h)
    OBVIOUS
  <2>2. PICK n \in Nat : \E w \in [1 .. n -> S] : Lists(n, w, S) /\ IsChain(n, w, tab[h].head, lchain)
    BY <1>13, <2>1 DEF TabChains, ChainIs
  <2>3. PICK w \in [1 .. n -> S] : Lists(n, w, S) /\ IsChain(n, w, tab[h].head, lchain)
    BY <2>2
  <2>4. \A i \in 1 .. n : w[i] \in S
    BY <2>3
  <2>5. \A i \in 1 .. n : w[i] \in Positions /\ w[i] % Lanes \in LaneIds /\ w[i] # None
    BY <1>4, <2>1, <2>4, MembersAreShared, NoneIsNoPlace DEF InSlot
  <2>6. ASSUME NEW i \in 1 .. n PROVE ~AtHand(w[i])'
    BY <1>8, <2>5 DEF AtHand, NoWalk
  <2>7. ASSUME NEW i \in 1 .. n, NEW j \in 1 .. n, i < j PROVE ToDo(w, i, j)'
    <3>1. lchain[w[i]] = w[i + 1] /\ i + 1 \in 1 .. n
      BY <2>2, <2>3, <2>7 DEF IsChain, Links
    <3>2. lchain[w[i]] # None
      BY <2>5, <3>1
    <3>3. PICK l \in LaneIds : l = w[i] % Lanes
      BY <2>5
    <3>4. w[i] \in lane'[l].rest /\ lane'[l].at = "walk"
      BY <1>5, <1>7, <2>5, <3>2, <3>3 DEF Shares
    <3>5. Under(w[i])'
      BY <3>3, <3>4 DEF Under
    <3> QED BY <2>6, <3>5 DEF ToDo
  <2>8. ASSUME NEW i \in 1 .. n, NEW j \in 1 .. n PROVE ~HasChild(staged[w[i]], staged[w[j]])'
    <3>1. ~Emitting /\ StagedInv
      BY <1>2, <1>3 DEF Emitting, Forming
    <3>2. ~HasChild(staged[w[i]], staged[w[j]])
      BY <1>4, <2>5, <3>1, NoneYet
    <3> QED BY <3>2 DEF HasChild, Still
  <2>9. Walked(n, w)' /\ Ahead(n, w)'
    BY <2>6, <2>7, <2>8 DEF Walked, Ahead
  <2>10. InSlot(Positions, h)' = S
    BY <1>11, <2>1
  <2>11. Lists(n, w, S) /\ IsChain(n, w, tab'[h].head, lchain')
    BY <2>3 DEF Still
  <2> QED BY <2>2, <2>3, <2>9, <2>10, <2>11 DEF WalkChain
<1>15. Walking'
  <2>1. All({"walk", "passed", "done"})'
    BY <1>7 DEF All
  <2>2. (\A l \in LaneIds : lane[l].at = "walk" =>
           /\ \A pos \in lane[l].rest : pos \in Positions /\ pos % Lanes = l /\ lchain[pos] # None
           /\ lane[l].oth # None => lane[l].rest # {})'
    BY <1>5, <1>7, <1>8, <1>11 DEF Shares, NoWalk, Still
  <2>3. (\A pos \in Positions : Multi(pos) => pos \in built)'
    BY <1>3, <1>11, <1>12 DEF Forming, Still
  <2>4. gcount' > FCap => "stage" \in drops'
    BY <1>2, <1>3 DEF Forming, Formed, Still
  <2>5. (\A h \in Slots : WalkChain(h))'
    BY <1>14
  <2> QED BY <1>7, <1>8, <1>10, <2>1, <2>2, <2>3, <2>4, <2>5 DEF Walking
<1> QED BY <1>7, <1>9, <1>15 DEF RoundInv, PhaseInv

\* When all lanes have walked, every two of a key of the part have their child, unless
\* something was lost.
LEMMA PartIsMade ==
  ASSUME RoundInv, Fetched, Walking, drops = {}, \A l \in LaneIds : lane[l].at # "walk",
         NEW p \in Members, NEW r \in Members, Twins(p, r), PartOf(p) = lane[0].xp
  PROVE  HasChild(SlotOf(p), SlotOf(r))
<1>1. /\ InPass(0, p) /\ InPass(0, r) /\ SlotKey(p) = SlotKey(r) /\ p # r
  BY DEF Twins, PartOf, InPass, SlotKey
<1>2. StagedInv /\ gcount <= FCap
  <2>1. StagedInv /\ (gcount > FCap => "stage" \in drops)
    BY DEF Walking
  <2>2. gcount \in Nat /\ FCap \in Nat
    BY FSizes DEF RoundInv, BlockTypes
  <2> QED BY <2>1, <2>2
<1>3. ~Alone(p) /\ ~Alone(r)
  BY <1>1 DEF Alone
<1>4. \A q \in Members : ~Pending(q)
  <2>1. \A l \in LaneIds : lane[l].at # "stage"
    BY DEF Walking, All
  <2> QED BY <2>1, NothingPends
<1>5. PICK x \in Positions : staged[x] = SlotOf(p)
  BY <1>1, <1>2, <1>3, <1>4 DEF StagedInv
<1>6. PICK y \in Positions : staged[y] = SlotOf(r)
  BY <1>1, <1>2, <1>3, <1>4 DEF StagedInv
<1>7. PosSlot(x) = SlotKey(p) /\ PosSlot(y) = SlotKey(r)
  BY <1>5, <1>6 DEF PosSlot, PosKey, SlotKey, KeyOf
<1>8. PICK h \in Slots : h = PosSlot(x)
  BY <1>2, StagedAre DEF RoundInv
<1>9. x # y
  BY <1>1, <1>5, <1>6 DEF RoundInv, MembersInv
<1>10. PICK S : S = InSlot(Positions, h)
  OBVIOUS
<1>11. x \in S /\ y \in S
  BY <1>1, <1>7, <1>8, <1>10 DEF InSlot
<1>12. PICK n \in Nat : \E w \in [1 .. n -> S] : Lists(n, w, S) /\ Walked(n, w)
  BY <1>10 DEF Walking, WalkChain
<1>13. PICK w \in [1 .. n -> S] : Lists(n, w, S) /\ Walked(n, w)
  BY <1>12
<1>14. PICK i \in 1 .. n : w[i] = x
  BY <1>11, <1>13 DEF Lists
<1>15. PICK j \in 1 .. n : w[j] = y
  BY <1>11, <1>13 DEF Lists
<1>16. \A a, b \in 1 .. n : ~ToDo(w, a, b)
  <2>1. \A z \in Positions : ~Under(z)
    BY MembersAreShared DEF Under
  <2>2. \A a \in 1 .. n : w[a] \in Positions
    BY <1>10, <1>13 DEF InSlot
  <2> QED BY <2>1, <2>2 DEF ToDo
<1>17. HasChild(staged[x], staged[y]) \/ HasChild(staged[y], staged[x])
  <2>1. i < j \/ j < i
    BY <1>9, <1>12, <1>14, <1>15
  <2> QED BY <1>13, <1>14, <1>15, <1>16, <2>1 DEF Walked
<1>18. {SlotOf(p), SlotOf(r)} = {SlotOf(r), SlotOf(p)}
  OBVIOUS
<1> QED BY <1>5, <1>6, <1>17, <1>18 DEF HasChild

LEMMA PassedKeeps == ASSUME RoundInv, Still, Waiting("passed"), SetFree("passed") PROVE RoundInv'
<1>1. AllPass
  <2>1. ASSUME NEW l PROVE Behind("passed", l) = [lane[l] EXCEPT !.at = "clear", !.xp = @ + 1]
    BY Zenon DEF Behind
  <2> QED BY <2>1, Zenon DEF SetFree, AllPass
<1>2. /\ LaneTypes'
      /\ \A l \in LaneIds : /\ lane'[l].at = "clear" /\ lane'[l].xb = lane[l].xb
                            /\ lane'[l].xp = lane[l].xp + 1 /\ lane'[l].parts = lane[l].parts
                            /\ lane'[l].counted = lane[l].counted /\ lane'[l].oth = lane[l].oth
  BY <1>1, SyncPasses DEF RoundInv
<1>3. 0 \in LaneIds /\ \A l \in LaneIds : lane[l].at = "passed"
  BY LanesAre DEF Waiting
<1>4. Walking
  BY <1>3, PhaseAt DEF RoundInv, Still
<1>5. SetInv' /\ Quiet' /\ BlockTypes' /\ MembersInv' /\ Fetched
  BY <1>3, StillKeeps
<1>6. lane[0].xp \in Nat /\ lane[0].parts \in Nat
  BY <1>3, RecFields DEF RoundInv, LaneTypes
<1>7. IsPart(0) /\ lane[0].xp + 1 < lane[0].parts
  <2>1. ~(lane[0].xp + 1 >= lane[0].parts)
    BY <1>3, <1>4 DEF Walking, LastPass
  <2>2. ~IsWhole(0)
    BY <2>1 DEF IsWhole
  <2> QED BY <1>4, <1>6, <2>1, <2>2 DEF Walking, Agree
<1>8. Agree' /\ NoWalk'
  <2>1. \A l \in LaneIds : /\ lane'[l].xb = lane'[0].xb /\ lane'[l].xp = lane'[0].xp
                          /\ lane'[l].parts = lane'[0].parts /\ lane'[l].counted = lane'[0].counted
    <3> SUFFICES ASSUME NEW l \in LaneIds
                 PROVE  /\ lane'[l].xb = lane'[0].xb /\ lane'[l].xp = lane'[0].xp
                        /\ lane'[l].parts = lane'[0].parts /\ lane'[l].counted = lane'[0].counted
      OBVIOUS
    <3>1. /\ lane[l].xb = lane[0].xb /\ lane[l].xp = lane[0].xp
          /\ lane[l].parts = lane[0].parts /\ lane[l].counted = lane[0].counted
      BY <1>4 DEF Walking, Agree
    <3> QED BY <1>2, <1>3, <3>1
  <2>2. IsPart(0)'
    BY <1>2, <1>3, <1>6, <1>7 DEF IsPart
  <2>3. NoWalk'
    BY <1>2, <1>3, <1>4 DEF NoWalk, Walking
  <2> QED BY <2>1, <2>2, <2>3 DEF Agree
<1>9. Clearing'
  BY <1>2, <1>3, <1>8 DEF Clearing, All
<1>10. /\ Members' = Members /\ \A p : SlotOf(p)' = SlotOf(p)
       /\ \A p, r : Twins(p, r)' <=> Twins(p, r)
  BY SameMembers DEF Still
<1>11. \A p : PartOf(p)' = PartOf(p)
  BY <1>2, <1>3, SameMembers DEF PartOf, Still
<1>12. lane'[0].xp = lane[0].xp + 1
  BY <1>2, <1>3
<1>13. \A p \in Members : PartOf(p) \in Nat
  BY <1>5, MemberTypes DEF RoundInv
<1>14. ChildInv'
  <2> SUFFICES ASSUME NEW c \in out
               PROVE  /\ c.whole
                      /\ \E p, r \in Members :
                           /\ Twins(p, r) /\ {c.left, c.right} = {SlotOf(p), SlotOf(r)}
                           /\ PartOf(p) < lane[0].xp + 1
    BY <1>10, <1>11, <1>12 DEF ChildInv, Still
  <2>1. c.whole
    BY DEF RoundInv, MadeInv, ChildInv
  <2>2. PICK p \in Members, r \in Members :
          /\ Twins(p, r) /\ {c.left, c.right} = {SlotOf(p), SlotOf(r)}
          /\ PartOf(p) < lane[0].xp \/ PartOf(p) = lane[0].xp
    BY DEF RoundInv, MadeInv, ChildInv
  <2>3. PartOf(p) < lane[0].xp + 1
    BY <1>6, <1>13, <2>2
  <2> QED BY <2>1, <2>2, <2>3
<1>15. PassedInv'
  <2> SUFFICES ASSUME drops = {}, NEW p \in Members, NEW r \in Members, Twins(p, r), PartOf(p) < lane[0].xp + 1
               PROVE  HasChild(SlotOf(p), SlotOf(r))'
    BY <1>10, <1>11, <1>12 DEF PassedInv, Still
  <2>1. PartOf(p) < lane[0].xp \/ PartOf(p) = lane[0].xp
    BY <1>6, <1>13
  <2>2. HasChild(SlotOf(p), SlotOf(r))
    <3>1. CASE PartOf(p) < lane[0].xp
      BY <1>5, <3>1 DEF RoundInv, MadeInv, PassedInv
    <3>2. CASE PartOf(p) = lane[0].xp
      BY <1>3, <1>4, <1>5, <3>2, PartIsMade
    <3> QED BY <2>1, <3>1, <3>2
  <2>3. PICK s, t : s = SlotOf(p) /\ t = SlotOf(r) /\ s = SlotOf(p)' /\ t = SlotOf(r)'
    BY <1>10
  <2>4. HasChild(s, t)'
    BY <2>2, <2>3 DEF HasChild, Still
  <2> QED BY <2>3, <2>4
<1>16. MadeInv'
  <2>1. ~IsWhole(0)'
    BY <1>2, <1>3, <1>7 DEF IsWhole, IsPart
  <2>2. OnceInv'
    BY DEF RoundInv, MadeInv, OnceInv, Still
  <2> QED BY <1>14, <1>15, <2>1, <2>2 DEF MadeInv, FirstInv
<1> QED BY <1>2, <1>5, <1>9, <1>16 DEF RoundInv, PhaseInv

LEMMA SyncKeeps == ASSUME RoundInv, SyncThreads PROVE RoundInv'
<1>1. Still
  BY SyncIs
<1>2. PICK barrier \in Barriers : Waiting(barrier) /\ SetFree(barrier)
  BY SyncIs
<1>3. CASE barrier \in {"fetched", "cleared", "censused", "staged"}
  BY <1>1, <1>2, <1>3, FetchedKeeps, ClearedKeeps, CensusedKeeps, StagedKeeps
<1>4. CASE barrier \in {"zeroed", "tallied", "chosen"}
  BY <1>1, <1>2, <1>4, ZeroedKeeps, TalliedKeeps, ChosenKeeps
<1>5. CASE barrier \in {"compacted", "chained", "passed"}
  BY <1>1, <1>2, <1>5, CompactedKeeps, ChainedKeeps, PassedKeeps
<1> QED BY <1>2, <1>3, <1>4, <1>5 DEF Barriers

LEMMA ThreadKeeps == ASSUME RoundInv, NEW l \in LaneIds, Thread(l) PROVE RoundInv'
<1>1. CASE Fetch(l)
  BY <1>1, FetchKeeps
<1>2. CASE Clear(l)
  BY <1>2, ClearKeeps
<1>3. CASE Census(l)
  BY <1>3, CensusKeeps
<1>4. CASE Stage(l)
  BY <1>4, StageKeeps
<1>5. CASE LoopEnds(l)
  <2>1. lane[l].at \in {"stage", "chain", "walk"}
    BY <1>5 DEF LoopEnds
  <2> QED BY <1>5, <2>1, StageEnds, ChainEnds, WalkEnds
<1>6. CASE Decide(l)
  BY <1>6, DecideKeeps
<1>7. CASE Tally(l)
  BY <1>7, TallyKeeps
<1>8. CASE Choose(l)
  BY <1>8, ChooseKeeps
<1>9. CASE Compact(l)
  BY <1>9, CompactKeeps
<1>10. CASE Expand(l)
  BY <1>10, ExpandKeeps
<1>11. CASE Walk(l)
  BY <1>11, WalkKeeps
<1> QED BY <1>1, <1>2, <1>3, <1>4, <1>5, <1>6, <1>7, <1>8, <1>9, <1>10, <1>11 DEF Thread

LEMMA RoundKeeps == ASSUME RoundInv, RoundNext PROVE RoundInv'
<1>1. CASE (\E i \in todo : Scatter(i) \/ ArenaLink(i)) \/ EntryEnds
  BY <1>1, EntryKeeps
<1>2. CASE \E b \in Blocks : LaunchBlock(b)
  BY <1>2, LaunchKeeps
<1>3. CASE \E l \in LaneIds : Thread(l)
  BY <1>3, ThreadKeeps
<1>4. CASE SyncThreads
  BY <1>4, SyncKeeps
<1> QED BY <1>1, <1>2, <1>3, <1>4 DEF RoundNext

(***************************************************************************)
(* The way back reads the round and changes nothing of it; it may count a  *)
(* loss of its own.                                                        *)
(***************************************************************************)
Resting == /\ UNCHANGED <<input, kind, step, todo, count, elem, actr, atag, ahead, anext, block>>
           /\ UNCHANGED <<aidx, gcount, tab, lchain, cnt8, staged, mlist, built, lane, out>>
           /\ drops \subseteq drops'

LEMMA SetsRest == ASSUME SetInv, Resting PROVE SetInv'
<1>1. \A s, c : Holds(s, c)' <=> Holds(s, c)
  BY DEF Resting, Holds, InRow, InPool, Pooled, PoolSlot
<1>2. \A j : Scattered(j)' <=> Scattered(j)
  BY DEF Resting, Scattered
<1>3. SlotInv'
  <2>1. (\A b \in BucketIds, s \in SlotIds : Holds(s, b) =>
          elem[s] \in DOMAIN input /\ Scattered(elem[s]) /\ input[elem[s]].bucket = b)'
    BY <1>1, <1>2 DEF Resting, SetInv, SlotInv
  <2>2. (\A b, c \in BucketIds, s, t \in SlotIds :
          Holds(s, b) /\ Holds(t, c) /\ elem[s] = elem[t] => s = t)'
    BY <1>1 DEF Resting, SetInv, SlotInv
  <2>3. (\A i \in DOMAIN input : Scattered(i) =>
          "entry" \in drops \/ \E s \in SlotIds : Holds(s, input[i].bucket) /\ elem[s] = i)'
    BY <1>1, <1>2 DEF Resting, SetInv, SlotInv
  <2> QED BY <2>1, <2>2, <2>3 DEF SlotInv
<1>4. Linked' = Linked
  BY DEF Resting, Linked, Pooled
<1>5. \A c : LinkedTo(c)' = LinkedTo(c)
  BY <1>4 DEF Resting, LinkedTo
<1>6. PoolInv'
  BY <1>4, <1>5 DEF Resting, PoolInv, SetInv
<1>7. SetTypes'
  BY DEF Resting, SetTypes, SetInv, Pooled
<1> QED BY <1>3, <1>6, <1>7 DEF SetInv

LEMMA FormingRests == ASSUME Forming, Resting PROVE Forming'
<1>1. /\ Positions' = Positions
      /\ \A x : /\ PosKey(x)' = PosKey(x) /\ PosSlot(x)' = PosSlot(x) /\ (Multi(x)' <=> Multi(x))
                /\ (Unchained(x)' <=> Unchained(x))
      /\ \A S, h : InSlot(S, h)' = InSlot(S, h)
  BY SamePositions DEF Resting, Unchained
<1>2. Agree' /\ NoWalk' /\ (IsWhole(0)' <=> IsWhole(0))
  BY DEF Resting, Forming, Agree, NoWalk, IsWhole, IsPart
<1>3. StagedInv'
  <2>1. SamePass(0) /\ \A p \in Members : Pending(p)' <=> Pending(p)
    BY DEF Resting, SamePass, Pending
  <2> QED BY <2>1, StagedKept DEF Resting, Forming
<1>4. (TabChains(IF kind.mfirst THEN Positions ELSE {pos \in Positions : ~Unchained(pos)}))'
  <2>1. PICK S : S = IF kind.mfirst THEN Positions ELSE {pos \in Positions : ~Unchained(pos)}
    OBVIOUS
  <2>2. S = (IF kind.mfirst THEN Positions ELSE {pos \in Positions : ~Unchained(pos)})'
    BY <1>1, <2>1 DEF Resting
  <2>3. TabChains(S)
    BY <2>1 DEF Forming
  <2>4. TabChains(S)'
    BY <1>1, <2>3 DEF Resting, TabChains
  <2> QED BY <2>2, <2>4 DEF TabChains
<1>5. /\ All({"decide", "zeroed"} \cup Formed)'
      /\ ((\E l \in LaneIds : lane[l].at = "zeroed") => All({"decide", "zeroed"}) /\ gcount > FCap /\ IsWhole(0))'
      /\ ((\E l \in LaneIds : lane[l].at \in Formed) => gcount <= FCap \/ lane[0].counted = TRUE)'
      /\ (lane[0].at \in Formed /\ gcount > FCap => "stage" \in drops)'
      /\ (kind.mfirst => All({"chain", "chained"}) \/ All({"decide", "zeroed", "compact", "compacted"}))'
      /\ (~kind.mfirst => All({"decide", "zeroed", "chain", "chained"}))'
  BY <1>2 DEF Resting, Forming, All
<1>6. /\ (mlist \subseteq Positions)'
      /\ (kind.mfirst => \A pos \in Positions :
            Multi(pos) /\ lane[PosSlot(pos) % Lanes].at \in {"compacted", "chain", "chained"} => pos \in mlist)'
      /\ (\A l \in LaneIds : lane[l].at = "chain" => \A pos \in lane[l].rest : pos \in Positions /\ pos % Lanes = l)'
      /\ (\A pos \in Positions : Multi(pos) /\ ~Unchained(pos) => pos \in built)'
  BY <1>1 DEF Resting, Forming
<1> QED BY <1>2, <1>3, <1>4, <1>5, <1>6 DEF Forming

LEMMA WalkingRests == ASSUME Walking, Resting PROVE Walking'
<1>1. /\ Positions' = Positions
      /\ \A x : /\ PosSlot(x)' = PosSlot(x) /\ (Multi(x)' <=> Multi(x))
      /\ \A S, h : InSlot(S, h)' = InSlot(S, h)
  BY SamePositions DEF Resting
<1>2. Agree' /\ All({"walk", "passed", "done"})'
  BY DEF Resting, Walking, Agree, IsWhole, IsPart, All
<1>3. StagedInv'
  <2>1. SamePass(0) /\ \A p \in Members : Pending(p)' <=> Pending(p)
    BY DEF Resting, SamePass, Pending
  <2> QED BY <2>1, StagedKept DEF Resting, Walking
<1>4. ASSUME NEW h \in Slots PROVE WalkChain(h)'
  <2>1. PICK S : S = InSlot(Positions, h)
    OBVIOUS
  <2>2. PICK n \in Nat : \E w \in [1 .. n -> S] :
          Lists(n, w, S) /\ IsChain(n, w, tab[h].head, lchain) /\ Walked(n, w) /\ Ahead(n, w)
    BY <2>1 DEF Walking, WalkChain
  <2>3. PICK w \in [1 .. n -> S] :
          Lists(n, w, S) /\ IsChain(n, w, tab[h].head, lchain) /\ Walked(n, w) /\ Ahead(n, w)
    BY <2>2
  <2>4. \A i, j : (ToDo(w, i, j)' <=> ToDo(w, i, j)) /\ (AtHand(w[i])' <=> AtHand(w[i]))
    BY DEF Resting, ToDo, AtHand, Under
  <2>5. \A s, t : HasChild(s, t)' <=> HasChild(s, t)
    BY DEF Resting, HasChild
  <2>6. drops # {} => drops' # {}
    BY DEF Resting
  <2>7. Walked(n, w)'
    BY <2>3, <2>4, <2>5, <2>6 DEF Walked, Resting
  <2>8. Ahead(n, w)'
    BY <2>3, <2>4 DEF Ahead, Resting
  <2>9. InSlot(Positions, h)' = S
    BY <1>1, <2>1
  <2>10. Lists(n, w, S) /\ IsChain(n, w, tab'[h].head, lchain')
    BY <2>3 DEF Resting
  <2> QED BY <2>2, <2>3, <2>7, <2>8, <2>9, <2>10 DEF WalkChain
<1>5. /\ (gcount > FCap => "stage" \in drops)'
      /\ (\A l \in LaneIds : lane[l].at = "walk" =>
            /\ \A pos \in lane[l].rest : pos \in Positions /\ pos % Lanes = l /\ lchain[pos] # None
            /\ lane[l].oth # None => lane[l].rest # {})'
      /\ (\A l \in LaneIds : lane[l].at = "passed" => lane[l].oth = None /\ ~LastPass(l))'
      /\ (\A l \in LaneIds : lane[l].at = "done" => LastPass(l))'
      /\ (\A pos \in Positions : Multi(pos) => pos \in built)'
  BY <1>1 DEF Resting, Walking, LastPass
<1> QED BY <1>2, <1>3, <1>4, <1>5 DEF Walking

LEMMA RoundRests == ASSUME RoundInv, Resting PROVE RoundInv'
<1>1. SetInv'
  BY SetsRest DEF RoundInv
<1>2. BlockTypes' /\ LaneTypes' /\ Quiet'
  BY DEF RoundInv, Resting, BlockTypes, LaneTypes, Quiet
<1>3. (Fetched' <=> Fetched) /\ (Emitting' <=> Emitting) /\ SamePass(0)
  BY DEF Resting, Fetched, Emitting, SamePass
<1>4. MembersInv'
  BY <1>3, MembersKept DEF RoundInv, Resting
<1>5. MadeInv'
  BY <1>3, MadeKept DEF RoundInv, Resting
<1>6. ASSUME Clearing PROVE Clearing'
  BY <1>6 DEF Resting, Clearing, All, Agree, NoWalk, IsWhole, IsPart
<1>7. /\ Members' = Members
      /\ \A p : /\ KeyOf(p)' = KeyOf(p) /\ SlotKey(p)' = SlotKey(p) /\ (InPass(0, p)' <=> InPass(0, p))
                /\ Pending(p)' <=> Pending(p)
  BY <1>3, SameGroup DEF Resting, Pending
<1>8. ASSUME Censusing PROVE Censusing'
  <2>1. \A h : Counted(h)' = Counted(h)
    BY <1>7 DEF Resting, Counted
  <2> QED BY <1>8, <2>1 DEF Resting, Censusing, All, Agree, NoWalk, IsWhole, IsPart
<1>9. ASSUME Staging PROVE Staging'
  <2>1. /\ Positions' = Positions /\ \A S, h : InSlot(S, h)' = InSlot(S, h)
    BY SamePositions DEF Resting
  <2>2. StagedInv'
    BY <1>3, <1>7, <1>9, StagedKept DEF Resting, Staging
  <2>3. (TabChains(IF kind.mfirst THEN Positions ELSE {}))'
    BY <1>9, <2>1 DEF Resting, Staging, TabChains
  <2>4. Agree' /\ NoWalk' /\ All({"stage", "staged"})'
    BY <1>9 DEF Resting, Staging, All, Agree, NoWalk, IsWhole, IsPart
  <2>5. (\A l \in LaneIds : lane[l].at = "stage" =>
          \A p \in lane[l].rest : p \in Members /\ InPass(0, p) /\ p % Lanes = l)' /\ mlist' = {}
    BY <1>7, <1>9 DEF Resting, Staging
  <2> QED BY <2>2, <2>3, <2>4, <2>5 DEF Staging
<1>10. ASSUME Tallying PROVE Tallying'
  BY <1>10 DEF Resting, Tallying, All, NoWalk, IsWhole
<1>11. ASSUME Choosing PROVE Choosing'
  BY <1>11 DEF Resting, Choosing, All, NoWalk, IsWhole
<1>12. PhaseInv'
  BY <1>6, <1>8, <1>9, <1>10, <1>11, FormingRests, WalkingRests DEF Resting, RoundInv, PhaseInv
<1> QED BY <1>1, <1>2, <1>4, <1>5, <1>12 DEF RoundInv

LEMMA RecoveryRests == Recovery => Resting
BY DEF Recovery, Survives, LaunchReplay, Insert, AppendPair, ScanEnds, StartScan, TryPairs, RecoverLeaves,
       tableVars, Drop, Resting, inputVars, setVars, sharedVars, outVars

LEMMA ReplayKeeps == RoundInv /\ [ReplayNext]_<<roundVars, replayVars>> => RoundInv'
<1> SUFFICES ASSUME RoundInv, [ReplayNext]_<<roundVars, replayVars>> PROVE RoundInv'
  OBVIOUS
<1>1. CASE Round
  BY <1>1, RoundKeeps DEF Round
<1>2. CASE Recovery
  BY <1>2, RecoveryRests, RoundRests
<1>3. CASE UNCHANGED <<roundVars, replayVars>>
  <2>1. Resting
    BY <1>3 DEF Resting, roundVars, inputVars, setVars, sharedVars, outVars
  <2> QED BY <2>1, RoundRests
<1> QED BY <1>1, <1>2, <1>3 DEF ReplayNext

LEMMA RoundStarts == RoundInit => RoundInv
<1> SUFFICES ASSUME RoundInit PROVE RoundInv
  OBVIOUS
<1>1. SetInv
  BY SetInit
<1>2. /\ step = "entry" /\ block = [bucket |-> 0, mask |-> 0] /\ lane = [l \in LaneIds |-> Fresh] /\ out = {}
      /\ aidx = <<>> /\ gcount = 0 /\ tab = [h \in Slots |-> EmptySlot] /\ lchain = [pos \in FPos |-> None]
      /\ staged = [pos \in FPos |-> 0] /\ mlist = {} /\ built = {}
  BY DEF RoundInit, InitShared, FPos
<1>3. LaneTypes
  <2>1. PICK r : r = Fresh
    OBVIOUS
  <2>2. r \in LaneRec
    BY <2>1, FSizes DEF Fresh, LaneRec, LanePlaces
  <2> QED BY <1>2, <2>1, <2>2 DEF LaneTypes
<1>4. BlockTypes
  <2>1. block \in Blocks
    <3>1. SubBits \in Nat
      BY FusedRoundAssumption
    <3>2. 0 \in 0 .. 2 ^ SubBits - 1
      BY <3>1, TwoPowers
    <3>3. 0 \in 0 .. Buckets - 1
      BY InSizes
    <3> QED BY <1>2, <3>2, <3>3 DEF Blocks
  <2>2. 0 \in SlotIds
    <3>1. 0 \in BucketIds /\ 0 \in 0 .. InCap - 1
      BY InSizes DEF BucketIds
    <3>2. 0 * InCap + 0 \in SlotIds
      BY <3>1, RowIsLow
    <3>3. 0 * InCap + 0 = 0
      BY InSizes
    <3> QED BY <3>2, <3>3
  <2>3. tab \in [Slots -> [n : Nat, head : {None} \cup FPos]]
    BY <1>2, EmptySlotIs
  <2> QED BY <1>2, <2>1, <2>2, <2>3 DEF BlockTypes
<1>5. Quiet
  BY <1>2 DEF Quiet
<1>6. MembersInv /\ PhaseInv
  BY <1>2 DEF MembersInv, PhaseInv, Fetched
<1>7. MadeInv
  <2>1. OnceInv
    BY <1>2, FS_EmptySet DEF OnceInv
  <2>2. ChildInv /\ PassedInv /\ FirstInv
    BY <1>2 DEF ChildInv, PassedInv, FirstInv, Fetched
  <2> QED BY <2>1, <2>2 DEF MadeInv
<1> QED BY <1>1, <1>3, <1>4, <1>5, <1>6, <1>7 DEF RoundInv

\* There are children only once the block has its members.
LEMMA ChildrenComeLater == RoundInv /\ out # {} => Fetched
<1> SUFFICES ASSUME RoundInv, out # {} PROVE Fetched
  OBVIOUS
<1>1. step = "block"
  BY DEF RoundInv, Quiet
<1>2. 0 \in LaneIds
  BY LanesAre
<1>3. lane[0].at # "fetch"
  <2> SUFFICES ASSUME lane[0].at = "fetch" PROVE FALSE
    OBVIOUS
  <2>1. IsWhole(0)
    BY <1>1, <1>2, PhaseAt DEF RoundInv, Clearing
  <2>2. ~Emitting
    BY DEF Emitting
  <2> QED BY <2>1, <2>2 DEF RoundInv, MadeInv, FirstInv
<1> QED BY <1>1, <1>3 DEF Fetched

\* The element of a member, and that no two members have the same.
LEMMA MemberIsOf ==
  ASSUME RoundInv, Fetched, NEW p \in Members, SubMask(KeyOf(p)) = block.mask
  PROVE  elem[SlotOf(p)] \in Of(block) /\ input[elem[SlotOf(p)]].key = KeyOf(p)
BY MemberTypes DEF RoundInv, Of, KeyOf, ElemAt

LEMMA MembersApart ==
  ASSUME RoundInv, Fetched, NEW p \in Members, NEW r \in Members, elem[SlotOf(p)] = elem[SlotOf(r)]
  PROVE  p = r
<1>1. block.bucket \in BucketIds
  BY DenseIs DEF RoundInv, BlockTypes
<1>2. /\ SlotOf(p) \in SlotIds /\ Holds(SlotOf(p), block.bucket)
      /\ SlotOf(r) \in SlotIds /\ Holds(SlotOf(r), block.bucket)
  BY DEF RoundInv, MembersInv
<1>3. SlotOf(p) = SlotOf(r)
  BY <1>1, <1>2 DEF RoundInv, SetInv, SlotInv
<1> QED BY <1>3 DEF RoundInv, MembersInv

LEMMA TwoOfASet ==
  ASSUME NEW S, IsFiniteSet(S), Cardinality(S) = 2
  PROVE  \E i, j \in S : i # j /\ S = {i, j}
<1>1. PICK i : i \in S
  BY FS_EmptySet
<1>2. IsFiniteSet(S \ {i}) /\ Cardinality(S \ {i}) = 1
  BY <1>1, FS_RemoveElement
<1>3. PICK j : S \ {i} = {j}
  BY <1>2, FS_Singleton
<1> QED BY <1>1, <1>3

LEMMA PairIsTwo == ASSUME NEW i, NEW j, i # j PROVE Cardinality({i, j}) = 2
<1>1. IsFiniteSet({i}) /\ Cardinality({i}) = 1
  BY FS_Singleton
<1>2. Cardinality({i} \cup {j}) = 1 + 1
  BY <1>1, FS_AddElement
<1>3. {i} \cup {j} = {i, j}
  OBVIOUS
<1> QED BY <1>2, <1>3

\* Only two elements of one key have a child.
LEMMA OnlyPairs == RoundInv => Made \subseteq PairsOf(Of(block))
<1> SUFFICES ASSUME RoundInv, NEW c \in out
             PROVE  {elem[c.left], elem[c.right]} \in PairsOf(Of(block))
  BY DEF Made
<1>1. Fetched
  BY ChildrenComeLater
<1>2. PICK p \in Members, r \in Members : Twins(p, r) /\ {c.left, c.right} = {SlotOf(p), SlotOf(r)}
  BY DEF RoundInv, MadeInv, ChildInv
<1>3. p # r /\ KeyOf(p) = KeyOf(r) /\ SubMask(KeyOf(p)) = block.mask
  BY <1>2 DEF Twins
<1>4. PICK i, j : i = elem[SlotOf(p)] /\ j = elem[SlotOf(r)]
  OBVIOUS
<1>5. /\ i \in Of(block) /\ j \in Of(block) /\ input[i].key = KeyOf(p) /\ input[j].key = KeyOf(r)
  BY <1>1, <1>3, <1>4, MemberIsOf
<1>6. i # j
  BY <1>1, <1>3, <1>4, MembersApart
<1>7. {elem[c.left], elem[c.right]} = {i, j}
  BY <1>2, <1>4
<1>8. Cardinality({i, j}) = 2
  BY <1>6, PairIsTwo
<1>9. \A x, y \in {i, j} : input[x].key = input[y].key
  BY <1>3, <1>5
<1>10. {i, j} \in PairsOf(Of(block))
  BY <1>5, <1>8, <1>9 DEF PairsOf
<1> QED BY <1>7, <1>10

\* No two children are made of the same two elements.
LEMMA OneChildEach == RoundInv => Cardinality(Made) = Cardinality(out)
<1> SUFFICES ASSUME RoundInv PROVE Cardinality(Made) = Cardinality(out)
  OBVIOUS
<1>1. PICK f : f = [c \in out |-> {elem[c.left], elem[c.right]}]
  OBVIOUS
<1>2. IsFiniteSet(out)
  BY DEF RoundInv, MadeInv, OnceInv
<1>3. f \in Surjection(out, Made)
  BY <1>1 DEF Surjection, Made
<1>4. ASSUME NEW c \in out, NEW d \in out, f[c] = f[d] PROVE c = d
  <2>1. Fetched
    BY ChildrenComeLater
  <2>2. PICK p \in Members, r \in Members : {c.left, c.right} = {SlotOf(p), SlotOf(r)}
    BY DEF RoundInv, MadeInv, ChildInv
  <2>3. PICK q \in Members, s \in Members : {d.left, d.right} = {SlotOf(q), SlotOf(s)}
    BY DEF RoundInv, MadeInv, ChildInv
  <2>4. {elem[c.left], elem[c.right]} = {elem[d.left], elem[d.right]}
    BY <1>1, <1>4
  <2>5. {elem[SlotOf(p)], elem[SlotOf(r)]} = {elem[SlotOf(q)], elem[SlotOf(s)]}
    BY <2>2, <2>3, <2>4
  <2>6. {p, r} = {q, s}
    <3>1. \A x, y \in Members : elem[SlotOf(x)] = elem[SlotOf(y)] => x = y
      BY <2>1, MembersApart
    <3> QED BY <2>5, <3>1
  <2>7. {c.left, c.right} = {d.left, d.right}
    BY <2>2, <2>3, <2>6
  <2> QED BY <2>7 DEF RoundInv, MadeInv, OnceInv
<1>5. f \in Injection(out, Made)
  BY <1>3, <1>4 DEF Injection, Surjection, IsInjective
<1> QED BY <1>2, <1>3, <1>5, FS_Surjection

\* A block that has come to its end has walked every part.
LEMMA AllWalked ==
  ASSUME RoundInv, BlockDone, drops = {}, NEW p \in Members, NEW r \in Members, Twins(p, r)
  PROVE  HasChild(SlotOf(p), SlotOf(r))
<1>1. step = "block" /\ 0 \in LaneIds /\ \A l \in LaneIds : lane[l].at = "done"
  BY LanesAre DEF BlockDone
<1>2. Walking /\ Fetched
  BY <1>1, PhaseAt DEF RoundInv, Fetched
<1>3. lane[0].xp \in Nat /\ lane[0].parts \in Nat /\ lane[0].xp + 1 >= lane[0].parts
  BY <1>1, <1>2, RecFields DEF RoundInv, LaneTypes, Walking, LastPass
<1>4. PartOf(p) \in 0 .. 2 ^ lane[0].xb - 1
  BY <1>2, MemberTypes DEF RoundInv
<1>5. lane[0].parts = 2 ^ lane[0].xb
  BY <1>2, TwoPowers DEF Walking, Agree, IsWhole, IsPart
<1>6. PartOf(p) < lane[0].xp \/ PartOf(p) = lane[0].xp
  <2>1. PICK n \in Nat : n = lane[0].parts
    BY <1>3
  <2>2. PartOf(p) \in 0 .. n - 1
    BY <1>4, <1>5, <2>1
  <2> QED BY <1>3, <2>1, <2>2
<1>7. CASE PartOf(p) < lane[0].xp
  BY <1>2, <1>7 DEF RoundInv, MadeInv, PassedInv
<1>8. CASE PartOf(p) = lane[0].xp
  BY <1>1, <1>2, <1>8, PartIsMade
<1> QED BY <1>6, <1>7, <1>8

\* Without a loss, the members are the block's elements.
LEMMA OfAreMembers ==
  ASSUME RoundInv, Fetched, drops = {}, NEW i \in Of(block)
  PROVE  \E p \in Members : elem[SlotOf(p)] = i
<1>1. i \in DOMAIN input /\ input[i].bucket = block.bucket
  BY DEF Of
<1>2. Scattered(i)
  BY DEF Scattered, Fetched
<1>3. PICK s \in SlotIds : Holds(s, block.bucket) /\ elem[s] = i
  BY <1>1, <1>2 DEF RoundInv, SetInv, SlotInv
<1> QED BY <1>3 DEF RoundInv, MembersInv

LEMMA EveryPairMade == RoundInv /\ BlockDone /\ drops = {} => PairsOf(Of(block)) \subseteq Made
<1> SUFFICES ASSUME RoundInv, BlockDone, drops = {}, NEW pq \in PairsOf(Of(block)) PROVE pq \in Made
  OBVIOUS
<1>1. Fetched
  BY LanesAre DEF BlockDone, Fetched
<1>2. pq \in SUBSET Of(block) /\ Cardinality(pq) = 2 /\ \A i, j \in pq : input[i].key = input[j].key
  BY DEF PairsOf
<1>3. IsFiniteSet(pq)
  <2>1. PICK M : M = Members /\ IsFiniteSet(M)
    BY MembersAreFew DEF RoundInv
  <2>2. PICK f : f = [p \in M |-> elem[SlotOf(p)]]
    OBVIOUS
  <2>3. PICK T : T = {f[p] : p \in M}
    OBVIOUS
  <2>4. f \in Surjection(M, T)
    BY <2>2, <2>3 DEF Surjection
  <2>5. IsFiniteSet(T)
    BY <2>1, <2>4, FS_Surjection
  <2>6. pq \subseteq T
    BY <1>1, <1>2, <2>1, <2>2, <2>3, OfAreMembers
  <2> QED BY <2>5, <2>6, FS_Subset
<1>4. PICK i \in pq, j \in pq : i # j /\ pq = {i, j}
  BY <1>2, <1>3, TwoOfASet
<1>5. PICK p \in Members : elem[SlotOf(p)] = i
  BY <1>1, <1>2, OfAreMembers
<1>6. PICK r \in Members : elem[SlotOf(r)] = j
  BY <1>1, <1>2, OfAreMembers
<1>7. Twins(p, r)
  <2>1. KeyOf(p) = input[i].key /\ KeyOf(r) = input[j].key
    BY <1>5, <1>6 DEF KeyOf, ElemAt
  <2>2. SubMask(input[i].key) = block.mask
    BY <1>2 DEF Of
  <2> QED BY <1>2, <1>4, <1>5, <1>6, <2>1, <2>2 DEF Twins
<1>8. PICK c \in out : {c.left, c.right} = {SlotOf(p), SlotOf(r)}
  BY <1>7, AllWalked DEF HasChild
<1>9. {elem[c.left], elem[c.right]} = pq
  BY <1>4, <1>5, <1>6, <1>8
<1> QED BY <1>9 DEF Made

\* Every two elements of one key that came to the block's bucket have one child, made of what
\* both hold, and nothing else has a child, however the threads of the block interleave; what
\* was lost on the way has been counted.
THEOREM EveryPairHasOneChild == ReplaySpec => []EveryPairOnce
<1>1. ReplayInit => RoundInv
  BY RoundStarts DEF ReplayInit
<1>2. RoundInv => EveryPairOnce
  <2>1. RoundInv => \A c \in out : c.whole
    BY DEF RoundInv, MadeInv, ChildInv
  <2> QED BY <2>1, OnlyPairs, OneChildEach, EveryPairMade DEF EveryPairOnce
<1> QED BY <1>1, <1>2, ReplayKeeps, PTL DEF ReplaySpec
-----------------------------------------------------------------------------
(***************************************************************************)
(* The way back finds what the round paired.  The replay's members are the *)
(* round's (TakenInv, SurvivorInv), its chains hold what was inserted      *)
(* (TableInv), and a pair that makes the target is on the list, on the     *)
(* part of a chain its lane has yet to scan, or found (SoughtInv).         *)
(***************************************************************************)
Taken == IF kind.arena THEN SubSeq(PoolChain, 1, Min({Len(PoolChain), AMax})) ELSE <<>>
TakenInv == Fetched => aidx = Taken

RepPos == 0 .. InCap + AMax - 1
RepIds == 0 .. RepCount - 1
RepHashes == 0 .. RepTab - 1
Working(places) == \A l \in LaneIds : worker[l].at \in places
Idling == Working({"idle"})
Inserting == Working({"insert", "inserted"})
Scanning == Working({"scan", "scanned"})

WorkersInv ==
  /\ worker = [l \in LaneIds |-> worker[l]]
  /\ \A l \in LaneIds : worker[l].p \in Nat /\ worker[l].p % Lanes = l
  /\ Idling \/ Inserting \/ Scanning

SurvivorInv ==
  /\ half \in 0 .. 2
  /\ half > 0 => survivor # <<>>
  /\ survivor # <<>> => BlockDone /\ \E c, d \in out : survivor = <<c, d>>
  /\ ~Idling => half > 0
  /\ half > 0 => pool = Taken /\ (Dense > RepN => "stage" \in drops)
  /\ leaves # <<>> => half = 2

Inserted(p) == worker[p % Lanes].at # "insert" \/ p < worker[p % Lanes].p
InHash(h) == {p \in RepIds : RepKey(p) % RepTab = h /\ Inserted(p)}
TableInv ==
  /\ nxt \in [RepPos -> {None} \cup RepPos] /\ DOMAIN head = RepHashes
  /\ Idling => head = NoHead /\ nxt = NoNext
  /\ ~Idling =>
       /\ \A h \in RepHashes : ChainIs(InHash(h), head[h], nxt)
       /\ \A p \in RepPos : p \notin RepIds \/ ~Inserted(p) => nxt[p] = None

\* A pair whose child is the target.
Candidate(p, r) == Match(p, r) /\ <<elem[Parents(p, r)[1]], elem[Parents(p, r)[2]]>> = Ident(target)
Reaches(a, r) == \E n : \E w : Trail(n, w, a, nxt, RepPos) /\ \E j \in 1 .. n : w[j] = r
ToScan(p, r) ==
  LET me == worker[p % Lanes] IN me.p < p \/ (me.p = p /\ Reaches(me.cur, r))
SoughtInv ==
  Scanning => \A p, r \in RepIds :
    Candidate(p, r) => l3Slots[half] # <<>> \/ <<p, r>> \in pairs \/ ToScan(p, r)

FoundInv ==
  /\ DOMAIN l3Slots = Halves /\ DOMAIN l4Lead = Halves
  /\ \A k \in Halves : l3Slots[k] # <<>> =>
       /\ k <= half
       /\ <<elem[l3Slots[k][1]], elem[l3Slots[k][2]]>> = Ident(survivor[k])
       /\ l4Lead[k] = Lead(survivor[k])
  /\ \A k \in Halves : Dense <= RepN /\ (k < half \/ (k = half /\ Idling)) => l3Slots[k] # <<>>

\* The round has put the elements of a child in order.
OrderInv == \A c \in out : Ordered(c.left, c.right) = <<c.left, c.right>>

RecoveryInv ==
  /\ TakenInv /\ OrderInv /\ WorkersInv /\ SurvivorInv /\ TableInv /\ SoughtInv /\ FoundInv
  /\ LeavesInTreeOrder

LEMMA Shared ==
  ASSUME NEW n \in Nat \ {0}, NEW a \in Nat, NEW b \in Nat, a % n = b % n, a < b
  PROVE  a + n <= b
<1>1. PICK c \in Nat, d \in Nat : c = a \div n /\ d = b \div n
  OBVIOUS
<1>2. PICK m \in 0 .. n - 1 : m = a % n
  OBVIOUS
<1>3. a = n * c + m /\ b = n * d + m
  BY <1>1, <1>2
<1>4. c * n \in Nat /\ d * n \in Nat /\ n * c = c * n /\ n * d = d * n
  OBVIOUS
<1>5. c < d
  <2>1. CASE d < c
    <3>1. d * n + n <= c * n
      BY <2>1, RowsFollow
    <3> QED BY <1>3, <1>4, <3>1
  <2>2. CASE c = d
    BY <1>3, <2>2
  <2> QED BY <2>1, <2>2
<1>6. c * n + n <= d * n
  BY <1>5, RowsFollow
<1> QED BY <1>3, <1>4, <1>6

LEMMA SharedNext == ASSUME NEW n \in Nat \ {0}, NEW a \in Nat PROVE (a + n) % n = a % n
<1>1. PICK x \in Nat : x = a + n
  OBVIOUS
<1>2. PICK c \in Nat, d \in Nat : c = a \div n /\ d = x \div n
  OBVIOUS
<1>3. PICK m \in 0 .. n - 1, r \in 0 .. n - 1 : m = a % n /\ r = x % n
  OBVIOUS
<1>4. a = n * c + m /\ x = n * d + r
  BY <1>2, <1>3
<1>5. (c + 1) * n = n * c + n /\ d * n = n * d /\ c + 1 \in Nat
  OBVIOUS
<1>6. (c + 1) * n + m = d * n + r
  BY <1>1, <1>4, <1>5
<1>7. m = r
  BY <1>5, <1>6, RowsApart
<1> QED BY <1>1, <1>3, <1>7

\* The first entry of a trail that M holds of, and that the model's recursive function finds it.
Stops(from, nx, M, D) == \A a \in {None} \cup D : from[a] = IF a = None \/ a \in M THEN a ELSE from[nx[a]]
IsFirst(x, n, w, M) ==
  \/ x = None /\ \A i \in 1 .. n : w[i] \notin M
  \/ \E i \in 1 .. n : x = w[i] /\ x \in M /\ \A j \in 1 .. n : j < i => w[j] \notin M

LEMMA FirstIs ==
  ASSUME NEW D, None \notin D, NEW M, NEW n \in Nat \ {0}, NEW w \in [1 .. n -> D]
  PROVE  /\ \E x : IsFirst(x, n, w, M)
         /\ \A x, y : IsFirst(x, n, w, M) /\ IsFirst(y, n, w, M) => x = y
<1>1. \E x : IsFirst(x, n, w, M)
  <2>1. CASE \A i \in 1 .. n : w[i] \notin M
    BY <2>1 DEF IsFirst
  <2>2. CASE \E i \in 1 .. n : w[i] \in M
    <3>1. PICK T : T = {i \in 1 .. n : w[i] \in M}
      OBVIOUS
    <3>2. T \in SUBSET Nat /\ T # {}
      BY <2>2, <3>1
    <3>3. PICK k : k \in T /\ \A y \in T : k <= y
      BY <3>2, MinIsLeast
    <3>4. k \in 1 .. n /\ w[k] \in M /\ \A j \in 1 .. n : j < k => w[j] \notin M
      BY <3>1, <3>3
    <3> QED BY <3>4 DEF IsFirst
  <2> QED BY <2>1, <2>2
<1>2. ASSUME NEW x, NEW y, IsFirst(x, n, w, M), IsFirst(y, n, w, M) PROVE x = y
  <2>1. \A i \in 1 .. n : w[i] # None
    OBVIOUS
  <2>2. CASE x = None
    BY <1>2, <2>1, <2>2 DEF IsFirst
  <2>3. CASE y = None
    BY <1>2, <2>1, <2>3 DEF IsFirst
  <2>4. CASE x # None /\ y # None
    <3>1. PICK i \in 1 .. n : x = w[i] /\ x \in M /\ \A j \in 1 .. n : j < i => w[j] \notin M
      BY <1>2, <2>4 DEF IsFirst
    <3>2. PICK k \in 1 .. n : y = w[k] /\ y \in M /\ \A j \in 1 .. n : j < k => w[j] \notin M
      BY <1>2, <2>4 DEF IsFirst
    <3>3. ~(i < k) /\ ~(k < i)
      BY <3>1, <3>2
    <3> QED BY <3>1, <3>2, <3>3
  <2> QED BY <2>2, <2>3, <2>4
<1> QED BY <1>1, <1>2

LEMMA FirstsExist ==
  ASSUME NEW D, None \notin D, NEW nx \in [D -> {None} \cup D], NEW M,
         \A a \in D : \E n : \E w : Trail(n, w, a, nx, D)
  PROVE  \E from : from = [a \in {None} \cup D |-> IF a = None \/ a \in M THEN a ELSE from[nx[a]]]
<1> DEFINE First(a) == CHOOSE x : \E n : \E w : Trail(n, w, a, nx, D) /\ IsFirst(x, n, w, M)
<1>1. ASSUME NEW a \in D PROVE \E n : \E w : Trail(n, w, a, nx, D) /\ IsFirst(First(a), n, w, M)
  <2>1. PICK n, w : Trail(n, w, a, nx, D)
    OBVIOUS
  <2>2. n \in Nat \ {0} /\ w \in [1 .. n -> D]
    BY <2>1 DEF Trail
  <2>3. \E x : IsFirst(x, n, w, M)
    BY <2>2, FirstIs
  <2> QED BY <2>1, <2>3
<1>2. ASSUME NEW a \in D, NEW n, NEW w, NEW x, Trail(n, w, a, nx, D), IsFirst(x, n, w, M)
      PROVE  First(a) = x
  <2>1. PICK m, v : Trail(m, v, a, nx, D) /\ IsFirst(First(a), m, v, M)
    BY <1>1
  <2> HIDE DEF First
  <2>2. n = m /\ w = v
    BY <1>2, <2>1, TrailsAgree
  <2>3. n \in Nat \ {0} /\ w \in [1 .. n -> D]
    BY <1>2 DEF Trail
  <2>4. IsFirst(First(a), n, w, M)
    BY <2>1, <2>2
  <2> QED BY <1>2, <2>3, <2>4, FirstIs
<1> HIDE DEF First
<1>3. PICK from : from = [a \in {None} \cup D |-> IF a = None THEN None ELSE First(a)]
  OBVIOUS
<1>4. from[None] = None /\ \A a \in D : from[a] = First(a)
  BY <1>3
<1>5. ASSUME NEW a \in D, a \in M PROVE First(a) = a
  <2>1. PICK n, w : Trail(n, w, a, nx, D)
    OBVIOUS
  <2>2. n \in Nat \ {0} /\ w[1] = a
    BY <2>1 DEF Trail
  <2>3. 1 \in 1 .. n /\ \A j \in 1 .. n : ~(j < 1)
    BY <2>2
  <2>4. IsFirst(a, n, w, M)
    BY <1>5, <2>2, <2>3 DEF IsFirst
  <2> QED BY <1>2, <2>1, <2>4
<1>6. ASSUME NEW a \in D, a \notin M PROVE First(a) = from[nx[a]]
  <2>1. CASE nx[a] = None
    <3>1. PICK w : w = [i \in 1 .. 1 |-> a]
      OBVIOUS
    <3>2. w \in [1 .. 1 -> D] /\ w[1] = a
      BY <3>1
    <3>3. Trail(1, w, a, nx, D)
      BY <2>1, <3>2 DEF Trail, Links
    <3>4. \A i \in 1 .. 1 : w[i] \notin M
      BY <1>6, <3>1
    <3>5. IsFirst(None, 1, w, M)
      BY <3>4 DEF IsFirst
    <3> QED BY <1>2, <1>4, <2>1, <3>3, <3>5
  <2>2. CASE nx[a] \in D
    <3>1. PICK b \in D : b = nx[a]
      BY <2>2
    <3>2. PICK m, v : Trail(m, v, b, nx, D) /\ IsFirst(First(b), m, v, M)
      BY <1>1
    <3>3. m \in Nat \ {0} /\ v \in [1 .. m -> D]
      BY <3>2 DEF Trail
    <3>4. PICK n \in Nat \ {0} : n = m + 1
      BY <3>3
    <3>5. PICK w : w = [i \in 1 .. m + 1 |-> IF i = 1 THEN a ELSE v[i - 1]]
      OBVIOUS
    <3>6. Trail(n, w, a, nx, D)
      BY <3>1, <3>2, <3>4, <3>5, TrailGrows
    <3>7. \A i \in 1 .. m : i + 1 \in 1 .. n /\ w[i + 1] = v[i]
      BY <3>3, <3>4, <3>5
    <3>8. \A i \in 1 .. n : w[i] = a \/ (i - 1 \in 1 .. m /\ w[i] = v[i - 1])
      BY <3>3, <3>4, <3>5
    <3>9. IsFirst(First(b), n, w, M)
      <4>1. CASE First(b) = None /\ \A i \in 1 .. m : v[i] \notin M
        BY <1>6, <3>8, <4>1 DEF IsFirst
      <4>2. CASE \E i \in 1 .. m : First(b) = v[i] /\ First(b) \in M /\ \A j \in 1 .. m : j < i => v[j] \notin M
        <5>1. PICK i \in 1 .. m : First(b) = v[i] /\ First(b) \in M /\ \A j \in 1 .. m : j < i => v[j] \notin M
          BY <4>2
        <5>2. ASSUME NEW j \in 1 .. n, j < i + 1 PROVE w[j] \notin M
          <6>1. j - 1 < i
            BY <3>4, <5>2
          <6> QED BY <1>6, <3>8, <5>1, <6>1
        <5>3. i + 1 \in 1 .. n /\ First(b) = w[i + 1]
          BY <3>7, <5>1
        <5> QED BY <5>1, <5>2, <5>3 DEF IsFirst
      <4> QED BY <3>2, <4>1, <4>2 DEF IsFirst
    <3> QED BY <1>2, <1>4, <3>1, <3>6, <3>9
  <2> QED BY <2>1, <2>2
<1>7. \A a \in {None} \cup D : from[a] = IF a = None \/ a \in M THEN a ELSE from[nx[a]]
  BY <1>4, <1>5, <1>6
<1>8. from = [a \in {None} \cup D |-> from[a]]
  BY <1>3
<1>9. from = [a \in {None} \cup D |-> IF a = None \/ a \in M THEN a ELSE from[nx[a]]]
  BY <1>7, <1>8
<1> QED BY <1>9

\* Where M holds somewhere on a trail, the function stops there or before.
LEMMA StopsInTime ==
  ASSUME NEW D, None \notin D, NEW nx, NEW M, NEW from, Stops(from, nx, M, D),
         NEW n \in Nat \ {0}, NEW w \in [1 .. n -> D], Links(n, w, nx),
         NEW j \in 1 .. n, w[j] \in M
  PROVE  \E i \in 1 .. j : from[w[1]] = w[i] /\ w[i] \in M
<1> DEFINE Met(k) == \E i \in k .. j : from[w[k]] = w[i] /\ w[i] \in M
           Bad == {k \in Nat : k < j /\ ~Met(j - k)}
<1>1. \A i \in 1 .. n : w[i] \in D /\ w[i] # None /\ nx[w[i]] = IF i = n THEN None ELSE w[i + 1]
  BY DEF Links
<1>2. \A i \in 1 .. n : from[w[i]] = IF w[i] \in M THEN w[i] ELSE from[nx[w[i]]]
  BY <1>1 DEF Stops
<1>3. Met(j)
  <2>1. from[w[j]] = w[j] /\ j \in j .. j
    BY <1>2
  <2> QED BY <2>1
<1>4. ASSUME NEW k \in 1 .. j, k # j, Met(k + 1) PROVE Met(k)
  <2>1. k \in 1 .. n /\ k # n /\ k \in k .. j
    BY <1>4
  <2>2. CASE w[k] \in M
    <3>1. from[w[k]] = w[k]
      BY <1>2, <2>1, <2>2
    <3> QED BY <2>1, <2>2, <3>1
  <2>3. CASE w[k] \notin M
    <3>1. from[w[k]] = from[w[k + 1]]
      BY <1>1, <1>2, <2>1, <2>3
    <3>2. PICK i \in k + 1 .. j : from[w[k + 1]] = w[i] /\ w[i] \in M
      BY <1>4
    <3>3. i \in k .. j
      BY <3>2
    <3> QED BY <3>1, <3>2, <3>3
  <2> QED BY <2>2, <2>3
<1>5. Bad = {}
  <2> SUFFICES ASSUME Bad # {} PROVE FALSE
    OBVIOUS
  <2>1. PICK k : k \in Bad /\ \A y \in Bad : k <= y
    <3>1. Bad \in SUBSET Nat
      OBVIOUS
    <3> HIDE DEF Bad
    <3> QED BY <3>1, MinIsLeast
  <2>2. k \in Nat /\ k < j /\ ~Met(j - k)
    BY <2>1
  <2> HIDE DEF Met
  <2>3. k # 0
    BY <1>3, <2>2
  <2>4. k - 1 \in Nat /\ k - 1 < j /\ k - 1 < k
    BY <2>2, <2>3
  <2>5. Met(j - (k - 1))
    <3>1. k - 1 \notin Bad
      <4> HIDE DEF Bad
      <4> QED BY <2>1, <2>2, <2>4
    <3> QED BY <2>4, <3>1
  <2>6. PICK i \in 1 .. j : i = j - k /\ i # j
    BY <2>2, <2>3
  <2>7. j - (k - 1) = i + 1
    BY <2>2, <2>6
  <2> QED BY <1>4, <2>2, <2>5, <2>6, <2>7
<1>6. Met(1)
  <2> HIDE DEF Met
  <2>1. j - 1 \in Nat /\ j - 1 < j /\ j - (j - 1) = 1
    OBVIOUS
  <2>2. Met(j - (j - 1))
    BY <1>5, <2>1
  <2> QED BY <2>1, <2>2
<1> QED BY <1>6

\* Once a block is done nothing of the round moves.
LEMMA RoundStops == BlockDone => ~RoundNext
<1> SUFFICES ASSUME BlockDone, RoundNext PROVE FALSE
  OBVIOUS
<1>1. step = "block" /\ 0 \in LaneIds /\ \A l \in LaneIds : lane[l].at = "done"
  BY LanesAre DEF BlockDone
<1>2. CASE (\E i \in todo : Scatter(i) \/ ArenaLink(i)) \/ EntryEnds \/ \E b \in Blocks : LaunchBlock(b)
  BY <1>1, <1>2 DEF Scatter, ArenaLink, EntryEnds, LaunchBlock
<1>3. ASSUME NEW l \in LaneIds, Thread(l) PROVE FALSE
  <2>1. lane[l].at = "done"
    BY <1>1
  <2> QED BY <1>3, <2>1 DEF Thread, Fetch, Clear, Census, Stage, LoopEnds, Decide, Tally, Choose, Compact,
                            Expand, Walk, At
<1>4. CASE SyncThreads
  BY <1>1, <1>4 DEF SyncThreads, Barriers
<1> QED BY <1>2, <1>3, <1>4 DEF RoundNext

LEMMA SameTaken == UNCHANGED <<kind, ahead, anext, block>> => Taken' = Taken
BY DEF Taken, PoolChain

LEMMA TakenKeeps == ASSUME RoundInv, TakenInv, RoundNext PROVE TakenInv'
<1>1. 0 \in LaneIds
  BY LanesAre
<1>2. CASE (\E i \in todo : Scatter(i) \/ ArenaLink(i)) \/ EntryEnds
  <2>1. step' # "block"
    BY <1>2 DEF Scatter, ArenaLink, EntryEnds
  <2> QED BY <2>1 DEF TakenInv, Fetched
<1>3. ASSUME NEW b \in Blocks, LaunchBlock(b) PROVE TakenInv'
  <2>1. lane = [l \in LaneIds |-> Fresh] /\ aidx = <<>> /\ lane' = lane /\ aidx' = aidx
    BY <1>3 DEF LaunchBlock, RoundInv, Quiet, sharedVars
  <2>2. lane'[0].at = "fetch"
    BY <1>1, <2>1 DEF Fresh
  <2> QED BY <2>1, <2>2 DEF TakenInv, Fetched, Taken
<1>4. ASSUME NEW l \in LaneIds, Fetch(l) PROVE TakenInv'
  <2>1. UNCHANGED <<kind, ahead, anext, block, step>> /\ step = "block" /\ lane[l].at = "fetch"
    BY <1>4 DEF Fetch, At, inputVars, setVars
  <2>2. Taken' = Taken
    BY <2>1, SameTaken
  <2>3. CASE kind.arena /\ l = 0
    <3>1. aidx' = Taken
      BY <1>4, <2>3 DEF Fetch, Taken
    <3> QED BY <2>2, <3>1 DEF TakenInv
  <2>4. CASE ~(kind.arena /\ l = 0)
    <3>1. aidx' = aidx
      BY <1>4, <2>4 DEF Fetch
    <3>2. l # 0 => lane'[0] = lane[0]
      BY <1>1, <1>4 DEF Fetch, Go, RoundInv, LaneTypes
    <3>3. Fetched' => Fetched
      BY <2>1, <2>4, <3>2 DEF Fetched
    <3> QED BY <2>2, <3>1, <3>3 DEF TakenInv
  <2> QED BY <2>3, <2>4
<1>5. ASSUME UNCHANGED <<kind, ahead, anext, block, aidx, step>>, lane'[0] = lane[0] \/ lane[0].at # "fetch"
      PROVE  TakenInv'
  <2>1. Taken' = Taken
    BY <1>5, SameTaken
  <2>2. Fetched' => Fetched
    BY <1>5 DEF Fetched
  <2> QED BY <1>5, <2>1, <2>2 DEF TakenInv
<1>6. ASSUME NEW l \in LaneIds, Thread(l), ~Fetch(l) PROVE TakenInv'
  <2>1. UNCHANGED <<kind, ahead, anext, block, aidx, step>>
    BY <1>6 DEF Thread, Clear, Census, Stage, LoopEnds, Decide, Tally, Choose, Compact, Expand, Walk,
                inputVars, setVars, sharedVars
  <2>2. lane[l].at # "fetch"
    BY <1>6 DEF Thread, Clear, Census, Stage, LoopEnds, Decide, Tally, Choose, Compact, Expand, Walk, At
  <2>3. l # 0 => lane'[0] = lane[0]
    <3>1. \E x : lane' = [lane EXCEPT ![l] = x]
      BY <1>6 DEF Thread, Clear, Census, Stage, LoopEnds, Decide, Tally, Choose, Compact, Expand, Walk, Go, Tick
    <3>2. PICK x : lane' = [lane EXCEPT ![l] = x]
      BY <3>1
    <3> QED BY <1>1, <3>2 DEF RoundInv, LaneTypes
  <2> QED BY <1>5, <2>1, <2>2, <2>3
<1>7. CASE SyncThreads
  <2>1. UNCHANGED <<kind, ahead, anext, block, aidx, step>>
    BY <1>7 DEF SyncThreads, inputVars, setVars, sharedVars
  <2>2. lane[0].at # "fetch"
    BY <1>1, <1>7 DEF SyncThreads, Barriers
  <2> QED BY <1>5, <2>1, <2>2
<1> QED BY <1>2, <1>3, <1>4, <1>6, <1>7 DEF RoundNext

\* The replay's members are members of the block, all of them if it stages all.
RepMember(p) == IF p < RepDense THEN p ELSE p - RepDense + Dense

LEMMA RepSizes ==
  ASSUME RoundInv, step = "block", pool = Taken
  PROVE  /\ RepDense \in Nat /\ RepDense <= Dense /\ Dense \in Nat /\ Len(pool) \in Nat
         /\ RepCount \in Nat /\ RepIds \subseteq RepPos /\ RepIds \subseteq Nat
         /\ Dense <= RepN => RepDense = Dense
<1>1. PICK d \in Nat : d = Dense /\ d <= InCap
  BY DenseIs DEF RoundInv, BlockTypes
<1>2. RepN \in Nat \ {0} /\ InCap \in Nat /\ AMax \in Nat
  BY ReplayAssumption, InSizes, FSizes
<1>3. Min({d, RepN}) \in Nat /\ Min({d, RepN}) <= d /\ Min({d, RepN}) <= RepN /\ Min({d, RepN}) \in {d, RepN}
  BY <1>2, MinOfTwo
<1>4. PICK r \in Nat : r = RepDense /\ r <= d /\ (d <= RepN => r = d)
  BY <1>1, <1>2, <1>3 DEF RepDense
<1>5. Len(pool) \in Nat /\ Len(pool) <= AMax
  <2>1. CASE kind.arena
    <3>1. PICK q : q = pool /\ q = SubSeq(PoolChain, 1, Min({Len(PoolChain), AMax}))
      BY <2>1 DEF Taken
    <3>2. PICK c \in Seq(PoolIds) : c = PoolChain
      BY PoolTaken DEF RoundInv, BlockTypes
    <3>3. PICK n \in Nat : n = Len(c)
      BY LenProperties
    <3>4. PICK m \in Nat : m = Min({n, AMax}) /\ m <= n /\ m <= AMax
      BY <1>2, MinOfTwo
    <3>5. \A i \in 1 .. m : c[i] \in PoolIds
      BY <3>3, <3>4, ElementOfSeq
    <3>6. Len(SubSeq(c, 1, m)) = IF 1 <= m THEN m - 1 + 1 ELSE 0
      BY <3>4, <3>5, SubSeqProperties
    <3>7. Len(q) = m
      BY <3>1, <3>2, <3>3, <3>4, <3>6
    <3> QED BY <3>1, <3>4, <3>7
  <2>2. CASE ~kind.arena
    <3>1. pool = <<>>
      BY <2>2 DEF Taken
    <3>2. Len(pool) = 0
      BY <3>1
    <3> QED BY <1>2, <3>2
  <2> QED BY <2>1, <2>2
<1>6. PICK n \in Nat : n = RepCount /\ n <= InCap + AMax
  BY <1>1, <1>2, <1>4, <1>5 DEF RepCount
<1>7. RepIds \subseteq RepPos /\ RepIds \subseteq Nat
  BY <1>2, <1>6 DEF RepIds, RepPos
<1> QED BY <1>1, <1>4, <1>5, <1>6, <1>7

LEMMA RepMembers ==
  ASSUME RoundInv, TakenInv, Fetched, pool = Taken
  PROVE  /\ \A p \in RepIds : /\ RepMember(p) \in Members /\ RepSlot(p) = SlotOf(RepMember(p))
                              /\ RepKey(p) = KeyOf(RepMember(p)) /\ RepKey(p) \in Nat
         /\ Dense <= RepN => RepIds = Members /\ \A p \in RepIds : RepMember(p) = p
<1>1. pool = aidx /\ step = "block"
  BY DEF TakenInv, Fetched
<1>2. PICK d \in Nat, r \in Nat, n \in Nat : /\ d = Dense /\ r = RepDense /\ n = Len(pool) /\ r <= d
                                            /\ (Dense <= RepN => r = d)
  BY <1>1, RepSizes
<1>3. RepIds = 0 .. r + n - 1 /\ Members = 0 .. d + n - 1
  BY <1>1, <1>2 DEF RepIds, RepCount, Members
<1>4. ASSUME NEW p \in RepIds PROVE RepMember(p) \in Members /\ RepSlot(p) = SlotOf(RepMember(p))
  <2>1. p \in 0 .. r + n - 1
    BY <1>3
  <2>2. CASE p < r
    <3>1. RepMember(p) = p /\ p < d /\ p \in 0 .. d + n - 1
      BY <1>2, <2>1, <2>2 DEF RepMember
    <3> QED BY <1>2, <1>3, <2>2, <3>1 DEF RepSlot, SlotOf
  <2>3. CASE ~(p < r)
    <3>1. PICK m : m = p - r + d
      OBVIOUS
    <3>2. m \in 0 .. d + n - 1 /\ ~(m < d) /\ m - d + 1 = p - r + 1
      BY <2>1, <2>3, <3>1
    <3>3. RepMember(p) = m
      BY <1>2, <2>3, <3>1 DEF RepMember
    <3>4. SlotOf(m) = PoolSlot(aidx[m - d + 1])
      BY <1>2, <3>2 DEF SlotOf
    <3>5. RepSlot(p) = PoolSlot(pool[p - r + 1])
      BY <1>2, <2>3 DEF RepSlot
    <3> QED BY <1>1, <1>3, <3>2, <3>3, <3>4, <3>5
  <2> QED BY <2>2, <2>3
<1>5. ASSUME NEW p \in RepIds PROVE RepKey(p) = KeyOf(RepMember(p)) /\ RepKey(p) \in Nat
  <2>1. RepKey(p) = KeyOf(RepMember(p))
    BY <1>4 DEF RepKey, KeyOf
  <2>2. KeyOf(RepMember(p)) \in RoundKeys
    BY <1>4, MemberTypes DEF RoundInv
  <2> QED BY <2>1, <2>2, KeyBits
<1>6. ASSUME Dense <= RepN PROVE RepIds = Members /\ \A p \in RepIds : RepMember(p) = p
  <2>1. r = d
    BY <1>2, <1>6
  <2>2. \A p \in RepIds : RepMember(p) = p
    BY <1>2, <1>3, <2>1 DEF RepMember
  <2> QED BY <1>3, <2>1, <2>2
<1> QED BY <1>4, <1>5, <1>6

LEMMA AtTheEnd ==
  ASSUME RoundInv, TakenInv, SurvivorInv, half > 0
  PROVE  /\ step = "block" /\ Fetched /\ BlockDone /\ pool = Taken /\ survivor # <<>>
         /\ \A k \in Halves : survivor[k] \in out
<1>1. survivor # <<>> /\ BlockDone /\ pool = Taken
  BY DEF SurvivorInv
<1>2. PICK c \in out, d \in out : survivor = <<c, d>>
  BY <1>1 DEF SurvivorInv
<1>3. survivor[1] = c /\ survivor[2] = d
  BY <1>2
<1>4. 0 \in LaneIds
  BY LanesAre
<1>5. step = "block" /\ Fetched
  BY <1>1, <1>4 DEF BlockDone, Fetched
<1> QED BY <1>1, <1>3, <1>5 DEF Halves

LEMMA NoneIsNoRep == None \notin RepPos
BY InSizes, FSizes DEF None, RepPos

LEMMA RepTrails ==
  ASSUME RoundInv, TakenInv, SurvivorInv, TableInv, ~Idling
  PROVE  \A a \in RepPos : \E n : \E w : Trail(n, w, a, nxt, RepPos)
<1> SUFFICES ASSUME NEW a \in RepPos PROVE \E n : \E w : Trail(n, w, a, nxt, RepPos)
  OBVIOUS
<1>1. half > 0 /\ step = "block" /\ Fetched /\ pool = Taken
  <2>1. half > 0
    BY DEF SurvivorInv
  <2> QED BY <2>1, AtTheEnd
<1>2. RepIds \subseteq RepPos
  BY <1>1, RepSizes
<1>3. CASE a \in RepIds /\ Inserted(a)
  <2>1. RepKey(a) \in Nat
    BY <1>1, <1>3, RepMembers
  <2>2. PICK h \in RepHashes : h = RepKey(a) % RepTab
    BY <2>1, ReplayAssumption DEF RepHashes
  <2>3. PICK S : S = InHash(h) /\ a \in S /\ S \subseteq RepPos
    BY <1>2, <1>3, <2>2 DEF InHash
  <2>4. PICK nx : nx = nxt
    OBVIOUS
  <2>5. ChainIs(S, head[h], nx)
    BY <2>3, <2>4 DEF TableInv
  <2>6. PICK n \in Nat : \E w \in [1 .. n -> S] : Lists(n, w, S) /\ IsChain(n, w, head[h], nx)
    BY <2>5 DEF ChainIs
  <2>7. PICK w \in [1 .. n -> S] : Lists(n, w, S) /\ IsChain(n, w, head[h], nx)
    BY <2>6
  <2>8. PICK i \in 1 .. n : w[i] = a
    BY <2>3, <2>7 DEF Lists
  <2>9. w \in [1 .. n -> RepPos] /\ n \in Nat \ {0} /\ Links(n, w, nx)
    BY <2>3, <2>7, <2>8 DEF IsChain
  <2>10. \E m : \E v : Trail(m, v, w[i], nx, RepPos)
    BY <2>9, TrailEnds
  <2> QED BY <2>4, <2>8, <2>10
<1>4. CASE ~(a \in RepIds /\ Inserted(a))
  <2>1. nxt[a] = None
    BY <1>4 DEF TableInv
  <2>2. PICK w : w = [i \in 1 .. 1 |-> a]
    OBVIOUS
  <2>3. w \in [1 .. 1 -> RepPos] /\ w[1] = a
    BY <2>2
  <2>4. Trail(1, w, a, nxt, RepPos)
    BY <2>1, <2>3 DEF Trail, Links
  <2> QED BY <2>4
<1> QED BY <1>3, <1>4

\* A match that lies ahead on the chain is not passed: it is the next one or lies behind it.
LEMMA NextMatchIs ==
  ASSUME nxt \in [RepPos -> {None} \cup RepPos],
         \A a \in RepPos : \E n : \E w : Trail(n, w, a, nxt, RepPos),
         NEW p, NEW a, NEW r, Reaches(a, r), Match(p, r)
  PROVE  /\ NextMatch(p, a) # None /\ Reaches(NextMatch(p, a), r)
         /\ NextMatch(p, a) # r => Reaches(nxt[NextMatch(p, a)], r)
<1> DEFINE Body(f) == [x \in {None} \cup RepPos |-> IF x = None \/ Match(p, x) THEN x ELSE f[nxt[x]]]
<1>1. PICK M : M = {x \in RepPos : Match(p, x)}
  OBVIOUS
<1>2. PICK nx : nx = nxt
  OBVIOUS
<1>3. PICK f : f = [x \in {None} \cup RepPos |-> IF x = None \/ x \in M THEN x ELSE f[nx[x]]]
  <2>1. nx \in [RepPos -> {None} \cup RepPos] /\ \A x \in RepPos : \E n : \E w : Trail(n, w, x, nx, RepPos)
    BY <1>2
  <2> QED BY <2>1, NoneIsNoRep, FirstsExist
<1>4. f = Body(f)
  <2>1. \A x \in {None} \cup RepPos : x = None \/ x \in M <=> x = None \/ Match(p, x)
    BY <1>1
  <2> QED BY <1>2, <1>3, <2>1
<1>5. PICK from : from = CHOOSE g : g = Body(g)
  OBVIOUS
<1>6. from = Body(from)
  BY <1>4, <1>5
<1>7. NextMatch(p, a) = from[a]
  BY <1>5 DEF NextMatch, RepPos
<1>8. Stops(from, nx, M, RepPos)
  BY <1>1, <1>2, <1>6 DEF Stops
<1> HIDE DEF Body
<1>9. PICK n, w : Trail(n, w, a, nx, RepPos) /\ \E j \in 1 .. n : w[j] = r
  BY <1>2 DEF Reaches
<1>10. PICK j \in 1 .. n : w[j] = r
  BY <1>9
<1>11. n \in Nat \ {0} /\ w \in [1 .. n -> RepPos] /\ w[1] = a /\ Links(n, w, nx)
  BY <1>9 DEF Trail
<1>12. w[j] \in M
  BY <1>1, <1>10, <1>11
<1>13. \E i \in 1 .. j : from[w[1]] = w[i] /\ w[i] \in M
  BY <1>8, <1>11, <1>12, NoneIsNoRep, StopsInTime
<1>14. PICK i \in 1 .. j : from[a] = w[i]
  BY <1>11, <1>13
<1>15. i \in 1 .. n /\ w[i] \in RepPos
  BY <1>11, <1>14
<1>16. ASSUME NEW k \in 1 .. n, k <= j PROVE Reaches(w[k], r)
  <2>1. PICK m \in Nat : m = n - k + 1
    BY <1>11
  <2>2. PICK v : v = [x \in 1 .. n - k + 1 |-> w[x + k - 1]]
    OBVIOUS
  <2>3. Trail(n - k + 1, v, w[k], nx, RepPos)
    BY <1>11, <2>2, TrailEnds
  <2>4. PICK y \in 1 .. n - k + 1 : y = j - k + 1
    BY <1>10, <1>11, <1>16
  <2>5. v[y] = w[j]
    <3>1. y + k - 1 = j
      BY <2>4
    <3> QED BY <2>2, <2>4, <3>1
  <2> QED BY <1>2, <1>10, <2>3, <2>5 DEF Reaches
<1>17. ASSUME w[i] # r PROVE Reaches(nxt[w[i]], r)
  <2>1. i # j /\ i + 1 \in 1 .. n /\ i + 1 <= j
    BY <1>10, <1>11, <1>14, <1>15, <1>17
  <2>2. nxt[w[i]] = w[i + 1]
    BY <1>2, <1>11, <1>15, <2>1 DEF Links
  <2> QED BY <1>16, <2>1, <2>2
<1>18. Reaches(w[i], r)
  BY <1>14, <1>15, <1>16
<1> QED BY <1>7, <1>14, <1>15, <1>17, <1>18, NoneIsNoRep

\* While the replay goes on, what it stages stays the same.
LEMMA SameReplay ==
  ASSUME Resting, UNCHANGED <<pool, survivor>>
  PROVE  /\ RepIds' = RepIds /\ RepCount' = RepCount /\ RepPos' = RepPos /\ Dense' = Dense
         /\ \A p : RepSlot(p)' = RepSlot(p) /\ RepKey(p)' = RepKey(p)
         /\ \A p, r : (Match(p, r)' <=> Match(p, r)) /\ Parents(p, r)' = Parents(p, r)
         /\ \A c : Ident(c)' = Ident(c) /\ Lead(c)' = Lead(c)
         /\ (BlockDone' <=> BlockDone) /\ Taken' = Taken
<1>1. UNCHANGED <<input, kind, step, count, elem, ahead, anext, block, aidx, lane, pool>>
  BY DEF Resting
<1>2. Dense' = Dense
  BY <1>1 DEF Dense
<1>3. RepDense' = RepDense
  BY <1>2 DEF RepDense
<1>4. RepCount' = RepCount
  BY <1>1, <1>3 DEF RepCount
<1>5. RepIds' = RepIds
  BY <1>4 DEF RepIds
<1>6. \A p : RepSlot(p)' = RepSlot(p)
  BY <1>1, <1>3 DEF RepSlot
<1>7. \A s : ElemAt(s)' = ElemAt(s)
  BY <1>1 DEF ElemAt
<1>8. \A p : RepKey(p)' = RepKey(p)
  BY <1>6, <1>7 DEF RepKey
<1>9. \A p, r : Match(p, r)' <=> Match(p, r)
  BY <1>8 DEF Match
<1>10. \A p, r : Parents(p, r)' = Parents(p, r)
  BY <1>6, <1>7 DEF Parents, Ordered
<1>11. \A c : Ident(c)' = Ident(c) /\ Lead(c)' = Lead(c)
  BY <1>1, <1>7 DEF Ident, Lead
<1>12. BlockDone' <=> BlockDone
  BY <1>1 DEF BlockDone
<1>13. Taken' = Taken
  BY <1>1, SameTaken
<1>14. RepPos' = RepPos
  BY DEF RepPos
<1> QED BY <1>2, <1>4, <1>5, <1>6, <1>8, <1>9, <1>10, <1>11, <1>12, <1>13, <1>14

LEMMA TakenRests == ASSUME TakenInv, Resting PROVE TakenInv'
<1>1. UNCHANGED <<kind, step, ahead, anext, block, aidx, lane>>
  BY DEF Resting
<1>2. Taken' = Taken
  BY <1>1, SameTaken
<1>3. Fetched' <=> Fetched
  BY <1>1 DEF Fetched
<1> QED BY <1>1, <1>2, <1>3 DEF TakenInv

\* Leaves once written stay right.
LEMMA LeavesRest ==
  ASSUME LeavesInTreeOrder, Resting, UNCHANGED <<survivor, leaves>>
  PROVE  LeavesInTreeOrder'
<1>1. UNCHANGED <<input, count, elem, block>> /\ drops \subseteq drops'
  BY DEF Resting
<1>2. Dense' = Dense
  BY <1>1 DEF Dense
<1>3. TreeOrder' = TreeOrder
  <2>1. \A c : Ident(c)' = Ident(c)
    BY <1>1 DEF Ident
  <2>2. \A c : Lead(c)' = Lead(c)
    BY <1>1 DEF Lead, ElemAt
  <2> QED BY <2>1, <2>2 DEF TreeOrder
<1> QED BY <1>1, <1>2, <1>3 DEF LeavesInTreeOrder

LEMMA WorkerMoved ==
  ASSUME WorkersInv, NEW l \in LaneIds, NEW at, NEW p, NEW a, Move(l, Worker(at, p, a))
  PROVE  /\ worker' = [k \in LaneIds |-> worker'[k]]
         /\ worker'[l].at = at /\ worker'[l].p = p /\ worker'[l].cur = a
         /\ \A k \in LaneIds : k # l => worker'[k] = worker[k]
<1>1. worker = [k \in LaneIds |-> worker[k]]
  BY DEF WorkersInv
<1>2. PICK w : w = Worker(at, p, a)
  OBVIOUS
<1>3. worker' = [worker EXCEPT ![l] = w]
  BY <1>2 DEF Move
<1>4. worker'[l] = w /\ \A k \in LaneIds : k # l => worker'[k] = worker[k]
  BY <1>1, <1>3
<1>5. worker' = [k \in LaneIds |-> worker'[k]]
  BY <1>1, <1>3
<1>6. w.at = at /\ w.p = p /\ w.cur = a
  BY <1>2 DEF Worker
<1> QED BY <1>4, <1>5, <1>6

\* What a lane's own step leaves to be shown.
LEMMA StillScanning ==
  ASSUME RoundInv, TakenInv, WorkersInv, SurvivorInv, ~Idling, Resting, UNCHANGED tableVars,
         Inserting' \/ Scanning'
  PROVE  SurvivorInv' /\ ~Idling' /\ half > 0
<1>1. half > 0
  BY DEF SurvivorInv
<1>2. UNCHANGED <<survivor, half, pool, leaves, drops, out>>
  BY DEF tableVars, Resting
<1>3. Dense' = Dense /\ Taken' = Taken /\ (BlockDone' <=> BlockDone)
  BY <1>2, SameReplay
<1>4. ~Idling'
  BY DEF Idling, Inserting, Scanning, Working
<1> QED BY <1>1, <1>2, <1>3, <1>4 DEF SurvivorInv

LEMMA FoundRests ==
  ASSUME FoundInv, SurvivorInv, ~Idling, ~Idling', Resting, UNCHANGED tableVars
  PROVE  FoundInv'
<1>1. UNCHANGED <<survivor, half, pool, l3Slots, l4Lead, elem, count, block>>
  BY DEF tableVars, Resting
<1>2. Dense' = Dense /\ \A c : Ident(c)' = Ident(c) /\ Lead(c)' = Lead(c)
  BY <1>1, SameReplay
<1> QED BY <1>1, <1>2 DEF FoundInv

LEMMA OrderedTwo ==
  ASSUME NEW s \in Nat, NEW t \in Nat, ElemAt(s).lead \in Nat, ElemAt(t).lead \in Nat, s # t
  PROVE  /\ Ordered(s, t) = Ordered(t, s)
         /\ Ordered(s, t) = <<s, t>> \/ Ordered(s, t) = <<t, s>>
BY DEF Ordered

\* The slots a child names are two members' of one key.
LEMMA ChildSlots ==
  RoundInv => \A c \in out :
    /\ c.left \in Nat /\ c.right \in Nat /\ c.left # c.right
    /\ ElemAt(c.left).lead \in Nat /\ ElemAt(c.right).lead \in Nat
    /\ \E p, r \in Members : p # r /\ KeyOf(p) = KeyOf(r) /\ c.left = SlotOf(p) /\ c.right = SlotOf(r)
<1> SUFFICES ASSUME RoundInv, NEW c \in out
             PROVE  /\ c.left \in Nat /\ c.right \in Nat /\ c.left # c.right
                    /\ ElemAt(c.left).lead \in Nat /\ ElemAt(c.right).lead \in Nat
                    /\ \E p, r \in Members :
                         p # r /\ KeyOf(p) = KeyOf(r) /\ c.left = SlotOf(p) /\ c.right = SlotOf(r)
  OBVIOUS
<1>1. Fetched
  BY ChildrenComeLater
<1>2. PICK p \in Members, r \in Members : Twins(p, r) /\ {c.left, c.right} = {SlotOf(p), SlotOf(r)}
  BY DEF RoundInv, MadeInv, ChildInv
<1>3. p # r /\ KeyOf(p) = KeyOf(r) /\ SlotOf(p) # SlotOf(r)
  BY <1>1, <1>2 DEF Twins, RoundInv, MembersInv
<1>4. \A m \in Members : SlotOf(m) \in Nat /\ ElemAt(SlotOf(m)).lead \in Nat
  <2> SUFFICES ASSUME NEW m \in Members PROVE SlotOf(m) \in Nat /\ ElemAt(SlotOf(m)).lead \in Nat
    OBVIOUS
  <2>1. SlotOf(m) \in SlotIds /\ elem[SlotOf(m)] \in DOMAIN input
    BY <1>1, MemberTypes DEF RoundInv
  <2>2. SlotOf(m) \in Nat
    BY <2>1, InSizes DEF SlotIds
  <2>3. input[elem[SlotOf(m)]].lead \in Nat
    BY <2>1, InputTypes DEF RoundInv, SetInv
  <2> QED BY <2>2, <2>3 DEF ElemAt
<1>5. \/ c.left = SlotOf(p) /\ c.right = SlotOf(r)
      \/ c.left = SlotOf(r) /\ c.right = SlotOf(p)
  BY <1>2, <1>3
<1> QED BY <1>3, <1>4, <1>5

LEMMA OutGrows ==
  ASSUME RoundNext
  PROVE  \/ out' = out
         \/ /\ UNCHANGED <<input, elem>>
            /\ \E slot, s, t, whole : out' = out \cup {Child(slot, s, t, whole)}
<1>1. ASSUME NEW l \in LaneIds, Thread(l), ~Walk(l) PROVE out' = out
  BY <1>1 DEF Thread, Fetch, Clear, Census, Stage, LoopEnds, Decide, Tally, Choose, Compact, Expand, outVars
<1>2. ASSUME NEW l \in LaneIds, Walk(l)
      PROVE  \/ out' = out
             \/ /\ UNCHANGED <<input, elem>>
                /\ \E slot, s, t, whole : out' = out \cup {Child(slot, s, t, whole)}
  <2>1. UNCHANGED <<input, elem>>
    BY <1>2 DEF Walk, inputVars, setVars
  <2>2. CASE UNCHANGED outVars
    BY <2>2 DEF outVars
  <2>3. ASSUME NEW cb, NEW s, NEW t, NEW whole, Emit(cb, s, t, whole)
        PROVE  out' = out \/ \E slot : out' = out \cup {Child(slot, s, t, whole)}
    BY <2>3, EmitIs
  <2>4. UNCHANGED outVars \/ \E cb, s, t, whole : Emit(cb, s, t, whole)
    BY <1>2 DEF Walk
  <2> QED BY <2>1, <2>2, <2>3, <2>4
<1>3. CASE \E i \in todo : Scatter(i) \/ ArenaLink(i)
  BY <1>3 DEF Scatter, ArenaLink, outVars
<1>4. CASE EntryEnds \/ (\E b \in Blocks : LaunchBlock(b)) \/ SyncThreads
  BY <1>4 DEF EntryEnds, LaunchBlock, SyncThreads, outVars
<1> QED BY <1>1, <1>2, <1>3, <1>4 DEF RoundNext

LEMMA OutStarts == RoundInv /\ RoundNext /\ out # {} => UNCHANGED <<input, elem>>
<1> SUFFICES ASSUME RoundInv, RoundNext, out # {} PROVE UNCHANGED <<input, elem>>
  OBVIOUS
<1>1. step = "block"
  BY DEF RoundInv, Quiet
<1>2. ~\E i \in todo : Scatter(i)
  BY <1>1 DEF Scatter
<1>3. CASE \E i \in todo : ArenaLink(i)
  BY <1>3 DEF ArenaLink, inputVars
<1>4. CASE EntryEnds \/ (\E b \in Blocks : LaunchBlock(b)) \/ SyncThreads
  BY <1>4 DEF EntryEnds, LaunchBlock, SyncThreads, inputVars, setVars
<1>5. ASSUME NEW l \in LaneIds, Thread(l) PROVE UNCHANGED <<input, elem>>
  BY <1>5 DEF Thread, Fetch, Clear, Census, Stage, LoopEnds, Decide, Tally, Choose, Compact, Expand, Walk,
              inputVars, setVars
<1> QED BY <1>2, <1>3, <1>4, <1>5 DEF RoundNext

LEMMA SameOrder == UNCHANGED <<input, elem>> => \A s, t : Ordered(s, t)' = Ordered(s, t)
BY DEF Ordered, ElemAt

TwoSlots(c) ==
  /\ c.left \in Nat /\ c.right \in Nat /\ c.left # c.right
  /\ ElemAt(c.left).lead \in Nat /\ ElemAt(c.right).lead \in Nat

LEMMA ChildrenInSlots == RoundInv => \A c \in out : TwoSlots(c)
BY ChildSlots DEF TwoSlots

LEMMA OrderKeeps == ASSUME RoundInv, RoundInv', OrderInv, RoundNext PROVE OrderInv'
<1>1. CASE out' = out
  <2>1. CASE out = {}
    BY <1>1, <2>1 DEF OrderInv
  <2>2. CASE out # {}
    BY <1>1, <2>2, OutStarts, SameOrder DEF OrderInv
  <2> QED BY <2>1, <2>2
<1>2. CASE /\ UNCHANGED <<input, elem>>
           /\ \E slot, s, t, whole : out' = out \cup {Child(slot, s, t, whole)}
  <2>1. PICK slot, s, t, whole : out' = out \cup {Child(slot, s, t, whole)}
    BY <1>2
  <2>2. PICK d : d = Child(slot, s, t, whole)
    OBVIOUS
  <2>3. {d.left, d.right} = {s, t}
    BY <2>2, ChildIs
  <2>4. (RoundInv => \A c \in out : TwoSlots(c))'
    BY ChildrenInSlots, PTL
  <2>5. \A x : ElemAt(x)' = ElemAt(x)
    BY <1>2 DEF ElemAt
  <2>6. /\ d.left \in Nat /\ d.right \in Nat /\ d.left # d.right
        /\ ElemAt(d.left).lead \in Nat /\ ElemAt(d.right).lead \in Nat
    BY <2>1, <2>2, <2>4, <2>5 DEF TwoSlots
  <2>7. Ordered(d.left, d.right) = Ordered(d.right, d.left)
    BY <2>6, OrderedTwo
  <2>8. Ordered(d.left, d.right) = Ordered(s, t)
    BY <2>3, <2>7
  <2>9. Ordered(s, t) = <<d.left, d.right>>
    <3>1. PICK o : o = Ordered(s, t)
      OBVIOUS
    <3>2. d.left = o[1] /\ d.right = o[2]
      BY <2>2, <3>1 DEF Child
    <3>3. \E x, y : o = <<x, y>>
      BY <3>1 DEF Ordered
    <3> QED BY <3>1, <3>2, <3>3
  <2>10. \A x \in out' : Ordered(x.left, x.right) = <<x.left, x.right>>
    BY <2>1, <2>2, <2>8, <2>9 DEF OrderInv
  <2> QED BY <1>2, <2>10, SameOrder DEF OrderInv
<1> QED BY <1>1, <1>2, OutGrows

\* A replay that stages all of the bucket has the pair it looks for.
LEMMA CandidateExists ==
  ASSUME RoundInv, TakenInv, OrderInv, SurvivorInv, half > 0, Dense <= RepN
  PROVE  \E p, r \in RepIds : Candidate(p, r)
<1>1. step = "block" /\ Fetched /\ pool = Taken /\ target \in out
  <2>1. half \in Halves
    BY DEF SurvivorInv, Halves
  <2> QED BY <2>1, AtTheEnd DEF target
<1>2. PICK c \in out : c = target
  BY <1>1
<1>3. PICK p \in Members, r \in Members :
        p # r /\ KeyOf(p) = KeyOf(r) /\ c.left = SlotOf(p) /\ c.right = SlotOf(r)
  BY ChildSlots
<1>4. RepIds = Members /\ \A m \in RepIds : RepMember(m) = m
  BY <1>1, RepMembers
<1>5. \A m \in RepIds : RepSlot(m) = SlotOf(m) /\ RepKey(m) = KeyOf(m)
  BY <1>1, <1>4, RepMembers
<1>6. p \in RepIds /\ r \in RepIds /\ p \in Nat /\ r \in Nat
  BY <1>1, <1>3, <1>4, RepSizes
<1>7. /\ c.left \in Nat /\ c.right \in Nat /\ c.left # c.right
      /\ ElemAt(c.left).lead \in Nat /\ ElemAt(c.right).lead \in Nat
  BY ChildSlots
<1>8. Ordered(c.left, c.right) = <<c.left, c.right>> /\ Ordered(c.right, c.left) = <<c.left, c.right>>
  BY <1>7, OrderedTwo DEF OrderInv
<1>9. Parents(p, r) = <<c.left, c.right>> /\ Parents(r, p) = <<c.left, c.right>>
  BY <1>3, <1>5, <1>6, <1>8 DEF Parents
<1>10. Ident(target) = <<elem[c.left], elem[c.right]>>
  BY <1>2 DEF Ident
<1>11. CASE r < p
  <2>1. Match(p, r)
    BY <1>3, <1>5, <1>6, <1>11 DEF Match
  <2> QED BY <1>6, <1>9, <1>10, <2>1 DEF Candidate
<1>12. CASE p < r
  <2>1. Match(r, p)
    BY <1>3, <1>5, <1>6, <1>12 DEF Match
  <2> QED BY <1>6, <1>9, <1>10, <2>1 DEF Candidate
<1> QED BY <1>3, <1>6, <1>11, <1>12

LEMMA OwnShare == \A l \in LaneIds : l \in Nat /\ l % Lanes = l
BY LanesAre, SmallRemainder DEF LaneIds

LEMMA OnePlace ==
  /\ ~(Idling /\ Inserting) /\ ~(Idling /\ Scanning) /\ ~(Inserting /\ Scanning)
  /\ \A l \in LaneIds : /\ worker[l].at \in {"insert", "inserted"} => ~Idling /\ ~Scanning
                        /\ worker[l].at \in {"scan", "scanned"} => ~Idling /\ ~Inserting
BY LanesAre DEF Idling, Inserting, Scanning, Working

LEMMA OrderRests == ASSUME OrderInv, Resting PROVE OrderInv'
BY SameOrder DEF OrderInv, Resting

LEMMA RestingSame ==
  ASSUME Resting
  PROVE  /\ Dense' = Dense /\ Taken' = Taken /\ (BlockDone' <=> BlockDone) /\ out' = out
         /\ drops \subseteq drops' /\ \A c : Ident(c)' = Ident(c) /\ Lead(c)' = Lead(c)
BY SameTaken DEF Resting, Dense, BlockDone, Ident, Lead, ElemAt

LEMMA SurvivesKeeps ==
  ASSUME RecoveryInv, Resting, NEW c \in out, NEW d \in out, Survives(c, d)
  PROVE  RecoveryInv'
<1>1. /\ BlockDone /\ survivor = <<>> /\ survivor' = <<c, d>>
      /\ UNCHANGED <<half, pool, head, nxt, pairs, npairs, worker, l3Slots, l4Lead, leaves, drops>>
  BY DEF Survives
<1>2. half = 0 /\ leaves = <<>> /\ Idling
  BY <1>1 DEF RecoveryInv, SurvivorInv
<1>3. TakenInv' /\ OrderInv'
  BY TakenRests, OrderRests DEF RecoveryInv
<1>4. WorkersInv' /\ Idling'
  BY <1>1, <1>2 DEF RecoveryInv, WorkersInv, Idling, Inserting, Scanning, Working
<1>5. SurvivorInv'
  <2>1. BlockDone' /\ out' = out
    BY <1>1, RestingSame
  <2>2. survivor' # <<>>
    BY <1>1
  <2> QED BY <1>1, <1>2, <1>4, <2>1, <2>2 DEF RecoveryInv, SurvivorInv
<1>6. TableInv'
  BY <1>1, <1>2, <1>4 DEF RecoveryInv, TableInv, RepPos, RepHashes, NoHead, NoNext
<1>7. SoughtInv'
  <2>1. ~Scanning'
    BY <1>1, <1>2, OnePlace DEF Scanning, Working
  <2> QED BY <2>1 DEF SoughtInv
<1>8. FoundInv'
  <2>1. \A k \in Halves : ~(k <= half) /\ l3Slots[k] = <<>>
    BY <1>2 DEF RecoveryInv, FoundInv, Halves
  <2>2. \A k \in Halves : ~(k < half) /\ k # half
    BY <1>2 DEF Halves
  <2> QED BY <1>1, <2>1, <2>2 DEF RecoveryInv, FoundInv
<1>9. LeavesInTreeOrder'
  BY <1>1, <1>2 DEF LeavesInTreeOrder
<1> QED BY <1>3, <1>4, <1>5, <1>6, <1>7, <1>8, <1>9 DEF RecoveryInv

LEMMA RepIdsAre == RoundInv /\ step = "block" /\ pool = Taken => RepIds \subseteq Nat /\ RepIds \subseteq RepPos
BY RepSizes

LEMMA LaunchReplayKeeps ==
  ASSUME RoundInv, RoundInv', RecoveryInv, Resting, LaunchReplay
  PROVE  RecoveryInv'
<1>1. /\ survivor # <<>> /\ half < 2 /\ Idling /\ half' = half + 1 /\ pool' = Taken
      /\ worker' = [l \in LaneIds |-> Worker("insert", l, None)]
      /\ Dense > RepN => "stage" \in drops'
      /\ UNCHANGED <<survivor, head, nxt, pairs, npairs, l3Slots, l4Lead, leaves>>
  BY DEF LaunchReplay, Idling, Working, Taken, Drop
<1>2. half \in Nat /\ half' \in 1 .. 2
  BY <1>1 DEF RecoveryInv, SurvivorInv
<1>3. TakenInv' /\ OrderInv'
  BY TakenRests, OrderRests DEF RecoveryInv
<1>4. \A l \in LaneIds : worker'[l].at = "insert" /\ worker'[l].p = l
  BY <1>1 DEF Worker
<1>5. WorkersInv' /\ ~Idling' /\ ~Scanning'
  <2>1. Inserting'
    BY <1>4 DEF Inserting, Working
  <2>2. ~Idling' /\ ~Scanning'
    BY <1>4, LanesAre DEF Idling, Scanning, Working
  <2>3. worker' = [l \in LaneIds |-> worker'[l]]
    BY <1>1
  <2> QED BY <1>4, <2>1, <2>2, <2>3, OwnShare DEF WorkersInv
<1>6. BlockDone' /\ BlockDone /\ Taken' = Taken /\ Dense' = Dense /\ out' = out
  BY <1>1, RestingSame DEF RecoveryInv, SurvivorInv
<1>7. SurvivorInv'
  <2>1. leaves = <<>>
    BY <1>1 DEF RecoveryInv, SurvivorInv
  <2> QED BY <1>1, <1>2, <1>6, <2>1 DEF RecoveryInv, SurvivorInv
<1>8. TableInv'
  <2>1. RepIds' \subseteq Nat /\ RepIds' \subseteq RepPos
    <3>1. (RoundInv /\ step = "block" /\ pool = Taken => RepIds \subseteq Nat /\ RepIds \subseteq RepPos)'
      BY RepIdsAre, PTL
    <3> QED BY <1>1, <1>6, <3>1 DEF BlockDone, RepPos
  <2>2. ASSUME NEW p \in RepIds' PROVE ~Inserted(p)'
    <3>1. p \in Nat /\ p % Lanes \in LaneIds /\ p % Lanes <= p
      BY <2>1, LanesAre
    <3>2. worker'[p % Lanes].at = "insert" /\ ~(p < worker'[p % Lanes].p)
      BY <1>4, <3>1, LanesAre
    <3> QED BY <3>2 DEF Inserted
  <2>3. \A h : InHash(h)' = {}
    BY <2>2 DEF InHash
  <2>4. head' = NoHead /\ nxt' = NoNext
    BY <1>1 DEF RecoveryInv, TableInv
  <2>5. ASSUME NEW h \in RepHashes PROVE ChainIs(InHash(h)', head'[h], nxt')
    <3>1. head'[h] = None
      BY <2>4 DEF NoHead, RepHashes
    <3> QED BY <2>3, <3>1, ChainEmpty
  <2>6. \A p \in RepPos : nxt'[p] = None
    BY <2>4 DEF NoNext, RepPos
  <2>7. nxt' \in [RepPos -> {None} \cup RepPos] /\ DOMAIN head' = RepHashes
    BY <1>1 DEF RecoveryInv, TableInv
  <2> QED BY <1>5, <2>5, <2>6, <2>7 DEF TableInv, RepPos, RepHashes
<1>9. SoughtInv'
  BY <1>5 DEF SoughtInv
<1>10. FoundInv'
  <2>1. \A c : Ident(c)' = Ident(c) /\ Lead(c)' = Lead(c)
    BY RestingSame
  <2>2. elem' = elem
    BY DEF Resting
  <2>3. \A k \in Halves : k <= half => k <= half'
    BY <1>1, <1>2 DEF Halves
  <2>4. \A k \in Halves : k < half' => k < half \/ k = half
    BY <1>1, <1>2 DEF Halves
  <2>5. DOMAIN l3Slots' = Halves /\ DOMAIN l4Lead' = Halves
    BY <1>1 DEF RecoveryInv, FoundInv, Halves
  <2>6. ASSUME NEW k \in Halves, l3Slots'[k] # <<>>
        PROVE  /\ k <= half' /\ l4Lead'[k] = Lead(survivor[k])
               /\ <<elem[l3Slots'[k][1]], elem[l3Slots'[k][2]]>> = Ident(survivor[k])
    BY <1>1, <2>3, <2>6 DEF RecoveryInv, FoundInv
  <2>7. ASSUME NEW k \in Halves, Dense <= RepN, k < half' \/ (k = half' /\ Idling') PROVE l3Slots'[k] # <<>>
    BY <1>1, <1>5, <2>4, <2>7 DEF RecoveryInv, FoundInv
  <2> QED BY <1>1, <1>6, <2>1, <2>2, <2>5, <2>6, <2>7 DEF FoundInv, Halves
<1>11. LeavesInTreeOrder'
  BY <1>1, LeavesRest DEF RecoveryInv
<1> QED BY <1>3, <1>5, <1>7, <1>8, <1>9, <1>10, <1>11 DEF RecoveryInv

LEMMA HashIs ==
  ASSUME RoundInv, TakenInv, SurvivorInv, half > 0, NEW p \in RepIds
  PROVE  RepKey(p) % RepTab \in RepHashes
<1>1. RepKey(p) \in Nat
  BY AtTheEnd, RepMembers
<1> QED BY <1>1, ReplayAssumption DEF RepHashes

LEMMA HeadsAre ==
  ASSUME RoundInv, TakenInv, SurvivorInv, TableInv, ~Idling, NEW p \in RepIds
  PROVE  /\ ChainHead(p) = head[RepKey(p) % RepTab] /\ ChainHead(p) \in {None} \cup RepPos
         /\ ChainIs(InHash(RepKey(p) % RepTab), ChainHead(p), nxt)
<1>1. half > 0
  BY DEF SurvivorInv
<1>2. PICK h \in RepHashes : h = RepKey(p) % RepTab
  BY <1>1, HashIs
<1>3. PICK n \in Nat : n = RepCount
  BY <1>1, AtTheEnd, RepSizes
<1>4. ChainHead(p) = head[h]
  BY <1>2, <1>3 DEF ChainHead, RepIds
<1>5. ChainIs(InHash(h), head[h], nxt)
  BY DEF TableInv
<1>6. head[h] = None \/ head[h] \in InHash(h)
  BY <1>5, HeadIs
<1>7. InHash(h) \subseteq RepPos
  BY <1>1, AtTheEnd, RepSizes DEF InHash
<1> QED BY <1>2, <1>4, <1>5, <1>6, <1>7

LEMMA LaneStep ==
  ASSUME RoundInv, RecoveryInv, Resting, UNCHANGED tableVars, ~Idling, ~Idling', WorkersInv', TableInv', SoughtInv'
  PROVE  RecoveryInv'
<1>1. TakenInv' /\ OrderInv'
  BY TakenRests, OrderRests DEF RecoveryInv
<1>2. SurvivorInv'
  <2>1. Inserting' \/ Scanning'
    BY DEF WorkersInv
  <2> QED BY <2>1, StillScanning DEF RecoveryInv
<1>3. FoundInv'
  BY FoundRests DEF RecoveryInv
<1>4. LeavesInTreeOrder'
  BY LeavesRest DEF RecoveryInv, tableVars
<1> QED BY <1>1, <1>2, <1>3, <1>4 DEF RecoveryInv

LEMMA InsertKeeps ==
  ASSUME RoundInv, RecoveryInv, Resting, NEW l \in LaneIds, Insert(l)
  PROVE  RecoveryInv'
<1>1. PICK p \in Nat : p = worker[l].p /\ p % Lanes = l
  BY DEF RecoveryInv, WorkersInv
<1>2. /\ worker[l].at = "insert" /\ UNCHANGED tableVars
      /\ p < RepCount => /\ nxt' = [nxt EXCEPT ![p] = ChainHead(p)]
                         /\ head' = [head EXCEPT ![RepKey(p) % RepTab] = p]
                         /\ Move(l, Worker("insert", p + Lanes, None))
      /\ ~(p < RepCount) => Move(l, Worker("inserted", l, None)) /\ UNCHANGED <<nxt, head>>
  BY <1>1 DEF Insert, In
<1>3. Inserting /\ ~Idling
  BY <1>2, OnePlace DEF RecoveryInv, WorkersInv
<1>4. half > 0 /\ Lanes \in Nat \ {0}
  BY <1>3, LanesAre DEF RecoveryInv, SurvivorInv
<1>5. WorkersInv /\ TableInv /\ TakenInv /\ SurvivorInv
  BY DEF RecoveryInv
<1>6. PICK n \in Nat : n = RepCount /\ RepIds = 0 .. n - 1
  BY <1>4, <1>5, AtTheEnd, RepSizes DEF RepIds
<1>7. RepIds \subseteq RepPos /\ RepIds \subseteq Nat
  BY <1>4, <1>5, AtTheEnd, RepSizes
<1>8. /\ RepIds' = RepIds /\ RepPos' = RepPos
      /\ \A r : RepKey(r)' = RepKey(r)
  BY <1>2, SameReplay DEF tableVars
<1>9. \A r \in Nat : r % Lanes \in LaneIds
  BY LanesAre
<1>10. /\ worker' = [k \in LaneIds |-> worker'[k]]
       /\ \A k \in LaneIds : k # l => worker'[k] = worker[k]
       /\ p < n => worker'[l].at = "insert" /\ worker'[l].p = p + Lanes
       /\ ~(p < n) => worker'[l].at = "inserted" /\ worker'[l].p = l
  <2>1. CASE p < n
    <3>1. Move(l, Worker("insert", p + Lanes, None))
      BY <1>2, <1>6, <2>1
    <3> QED BY <1>5, <2>1, <3>1, WorkerMoved
  <2>2. CASE ~(p < n)
    <3>1. Move(l, Worker("inserted", l, None))
      BY <1>2, <1>6, <2>2
    <3> QED BY <1>5, <2>2, <3>1, WorkerMoved
  <2> QED BY <2>1, <2>2
<1>11. Inserting'
  BY <1>3, <1>10 DEF Inserting, Working
<1>12. ~Idling' /\ ~Scanning'
  BY <1>11, LanesAre DEF Inserting, Idling, Scanning, Working
<1>13. WorkersInv'
  <2>1. (p + Lanes) % Lanes = l /\ p + Lanes \in Nat
    <3>1. PICK m \in Nat \ {0} : m = Lanes
      BY <1>4
    <3>2. (p + m) % m = p % m
      BY SharedNext
    <3> QED BY <1>1, <3>1, <3>2
  <2>2. l \in Nat /\ l % Lanes = l
    BY OwnShare
  <2>3. \A k \in LaneIds : worker'[k].p \in Nat /\ worker'[k].p % Lanes = k
    BY <1>5, <1>10, <2>1, <2>2 DEF WorkersInv
  <2> QED BY <1>10, <1>11, <2>3 DEF WorkersInv
<1>14. ~Inserted(p)
  BY <1>1, <1>2 DEF Inserted
<1>15. ASSUME NEW r \in RepIds PROVE Inserted(r)' <=> Inserted(r) \/ r = p
  <2>1. r \in Nat /\ r < n
    BY <1>6, <1>7
  <2>2. PICK k \in LaneIds : k = r % Lanes
    BY <1>9, <2>1
  <2>3. CASE k # l
    <3>1. r # p /\ worker'[r % Lanes] = worker[r % Lanes]
      BY <1>1, <1>10, <2>2, <2>3
    <3> QED BY <3>1 DEF Inserted
  <2>4. CASE k = l /\ p < n
    <3>1. r < p + Lanes <=> r < p \/ r = p
      <4>1. p < r => p + Lanes <= r
        BY <1>1, <1>4, <2>1, <2>2, <2>4, Shared
      <4> QED BY <1>4, <2>1, <4>1
    <3>2. Inserted(r)' <=> r < p + Lanes
      BY <1>10, <2>2, <2>4 DEF Inserted
    <3>3. Inserted(r) <=> r < p
      BY <1>1, <1>2, <2>2, <2>4 DEF Inserted
    <3> QED BY <3>1, <3>2, <3>3
  <2>5. CASE k = l /\ ~(p < n)
    <3>1. r < p
      BY <2>1, <2>5
    <3>2. Inserted(r)' /\ Inserted(r)
      BY <1>1, <1>2, <1>10, <2>2, <2>5, <3>1 DEF Inserted
    <3> QED BY <3>2
  <2> QED BY <2>3, <2>4, <2>5
<1>16. TableInv'
  <2>1. CASE ~(p < n)
    <3>1. nxt' = nxt /\ head' = head
      BY <1>2, <1>6, <2>1
    <3>2. \A r \in RepIds : Inserted(r)' <=> Inserted(r)
      BY <1>6, <1>15, <2>1
    <3>3. \A h : InHash(h)' = InHash(h)
      BY <1>8, <3>2 DEF InHash
    <3>4. \A r \in RepPos : r \notin RepIds \/ ~Inserted(r)' => nxt[r] = None
      BY <1>3, <1>5, <3>2 DEF TableInv
    <3>5. \A h \in RepHashes : ChainIs(InHash(h), head[h], nxt)
      BY <1>3, <1>5 DEF TableInv
    <3> QED BY <1>5, <1>8, <1>12, <3>1, <3>3, <3>4, <3>5 DEF TableInv, RepHashes
  <2>2. CASE p < n
    <3>1. p \in RepIds /\ p \in RepPos
      BY <1>6, <1>7, <2>2
    <3>2. PICK a : a = ChainHead(p)
      OBVIOUS
    <3>3. PICK g \in RepHashes : g = RepKey(p) % RepTab
      BY <1>4, <1>5, <3>1, HashIs
    <3>4. a = head[g] /\ a \in {None} \cup RepPos
      BY <1>3, <1>5, <3>1, <3>2, <3>3, HeadsAre
    <3>5. nxt' = [nxt EXCEPT ![p] = a] /\ head' = [head EXCEPT ![g] = p]
      BY <1>2, <1>6, <2>2, <3>2, <3>3
    <3>6. nxt \in [RepPos -> {None} \cup RepPos] /\ DOMAIN head = RepHashes
      BY <1>5 DEF TableInv
    <3>7. /\ nxt' \in [RepPos -> {None} \cup RepPos] /\ DOMAIN head' = RepHashes
          /\ nxt'[p] = a /\ head'[g] = p
      BY <3>1, <3>4, <3>5, <3>6
    <3>8. /\ \A r \in RepPos : r # p => nxt'[r] = nxt[r]
          /\ \A h \in RepHashes : h # g => head'[h] = head[h]
      BY <3>1, <3>5, <3>6
    <3>9. ASSUME NEW h \in RepHashes PROVE ChainIs(InHash(h)', head'[h], nxt')
      <4>1. PICK S : S = InHash(h) /\ S \subseteq RepPos /\ p \notin S
        <5>1. InHash(h) \subseteq RepIds /\ p \notin InHash(h)
          BY <1>14 DEF InHash
        <5> QED BY <1>7, <5>1
      <4>2. ChainIs(S, head[h], nxt)
        BY <1>3, <1>5, <4>1 DEF TableInv
      <4>3. PICK mx : mx = nxt'
        OBVIOUS
      <4>4. \A s \in S : mx[s] = nxt[s]
        BY <3>8, <4>1, <4>3
      <4>5. CASE h = g
        <5>1. InHash(h)' = S \cup {p}
          <6>1. \A r : r \in InHash(h)' <=> r \in S \cup {p}
            BY <1>8, <1>15, <3>1, <3>3, <4>1, <4>5 DEF InHash
          <6> QED BY <6>1
        <5>2. mx[p] = head[h]
          BY <3>4, <3>7, <4>3, <4>5
        <5>3. ChainIs(S \cup {p}, p, mx)
          BY <4>1, <4>2, <4>4, <5>2, ChainGrows
        <5> QED BY <3>7, <4>3, <4>5, <5>1, <5>3
      <4>6. CASE h # g
        <5>1. InHash(h)' = S
          <6>1. \A r : r \in InHash(h)' <=> r \in S
            BY <1>8, <1>15, <3>1, <3>3, <4>1, <4>6 DEF InHash
          <6> QED BY <6>1
        <5>2. ChainIs(S, head[h], mx)
          BY <4>2, <4>4, ChainKept
        <5> QED BY <3>8, <4>3, <4>6, <5>1, <5>2
      <4> QED BY <4>5, <4>6
    <3>10. ASSUME NEW r \in RepPos, r \notin RepIds \/ ~Inserted(r)' PROVE nxt'[r] = None
      <4>1. r # p /\ (r \notin RepIds \/ ~Inserted(r))
        BY <1>15, <3>1, <3>10
      <4> QED BY <1>3, <1>5, <3>8, <4>1 DEF TableInv
    <3> QED BY <1>8, <1>12, <3>7, <3>9, <3>10 DEF TableInv, RepHashes
  <2> QED BY <2>1, <2>2
<1>17. SoughtInv'
  BY <1>12 DEF SoughtInv
<1> QED BY <1>2, <1>3, <1>12, <1>13, <1>16, <1>17, LaneStep

LEMMA SameReach == UNCHANGED nxt => \A a, r : Reaches(a, r)' <=> Reaches(a, r)
BY DEF Reaches, Trail, Links, RepPos

LEMMA SameCandidates ==
  ASSUME Resting, UNCHANGED <<pool, survivor, half>>
  PROVE  \A p, r : Candidate(p, r)' <=> Candidate(p, r)
<1>1. target' = target /\ elem' = elem
  BY DEF target, Resting
<1>2. \A p, r : (Match(p, r)' <=> Match(p, r)) /\ Parents(p, r)' = Parents(p, r)
  BY SameReplay
<1>3. Ident(target)' = Ident(target)
  BY <1>1 DEF Ident
<1> QED BY <1>1, <1>2, <1>3 DEF Candidate

\* Once the lanes have inserted, everything has been.
AllIn == \A r \in RepIds : Inserted(r)

LEMMA ScanningIsIn ==
  ASSUME RoundInv, TakenInv, SurvivorInv, half > 0, \A l \in LaneIds : worker[l].at # "insert"
  PROVE  AllIn
<1>1. RepIds \subseteq Nat
  BY AtTheEnd, RepSizes
<1>2. \A r \in RepIds : r % Lanes \in LaneIds
  BY <1>1, LanesAre
<1> QED BY <1>2 DEF AllIn, Inserted

LEMMA TableRests ==
  ASSUME TableInv, AllIn, AllIn', ~Idling, ~Idling', Resting, UNCHANGED <<pool, survivor, head, nxt>>
  PROVE  TableInv'
<1>1. /\ RepIds' = RepIds /\ RepPos' = RepPos /\ RepHashes' = RepHashes
      /\ \A r : RepKey(r)' = RepKey(r)
  BY SameReplay DEF RepHashes
<1>2. \A r \in RepIds : Inserted(r) /\ Inserted(r)'
  BY <1>1 DEF AllIn
<1>3. \A h : InHash(h)' = InHash(h)
  <2>1. \A h : InHash(h) = {r \in RepIds : RepKey(r) % RepTab = h}
    BY <1>2 DEF InHash
  <2>2. \A h : InHash(h)' = {r \in RepIds : RepKey(r) % RepTab = h}
    BY <1>1, <1>2 DEF InHash
  <2> QED BY <2>1, <2>2
<1>4. \A h \in RepHashes : ChainIs(InHash(h), head[h], nxt)
  BY DEF TableInv
<1>5. \A p \in RepPos : p \notin RepIds => nxt[p] = None
  BY DEF TableInv
<1>6. nxt \in [RepPos -> {None} \cup RepPos] /\ DOMAIN head = RepHashes
  BY DEF TableInv
<1>7. \A h \in RepHashes' : ChainIs(InHash(h)', head'[h], nxt')
  BY <1>1, <1>3, <1>4
<1>8. \A p \in RepPos' : p \notin RepIds' \/ ~Inserted(p)' => nxt'[p] = None
  BY <1>1, <1>2, <1>5
<1> QED BY <1>1, <1>6, <1>7, <1>8 DEF TableInv

\* From its head, a chain leads to every element of its key.
LEMMA HeadReaches ==
  ASSUME RoundInv, TakenInv, SurvivorInv, TableInv, ~Idling, AllIn,
         NEW p \in RepIds, NEW r \in RepIds, RepKey(p) = RepKey(r)
  PROVE  Reaches(ChainHead(p), r)
<1>1. PICK h : h = RepKey(p) % RepTab
  OBVIOUS
<1>2. PICK S : S = InHash(h)
  OBVIOUS
<1>3. PICK a : a = ChainHead(p)
  OBVIOUS
<1>4. PICK nx : nx = nxt
  OBVIOUS
<1>5. ChainIs(S, a, nx)
  BY <1>1, <1>2, <1>3, <1>4, HeadsAre
<1>6. r \in S
  BY <1>1, <1>2 DEF InHash, AllIn
<1>7. S \subseteq RepPos
  <2>1. half > 0
    BY DEF SurvivorInv
  <2> QED BY <1>2, <2>1, AtTheEnd, RepSizes DEF InHash
<1>8. PICK n \in Nat : \E w \in [1 .. n -> S] : Lists(n, w, S) /\ IsChain(n, w, a, nx)
  BY <1>5 DEF ChainIs
<1>9. PICK w \in [1 .. n -> S] : Lists(n, w, S) /\ IsChain(n, w, a, nx)
  BY <1>8
<1>10. PICK i \in 1 .. n : w[i] = r
  BY <1>6, <1>9 DEF Lists
<1>11. n \in Nat \ {0} /\ w \in [1 .. n -> RepPos] /\ a = w[1] /\ Links(n, w, nx)
  BY <1>7, <1>9, <1>10 DEF IsChain
<1>12. Trail(n, w, a, nx, RepPos)
  BY <1>11 DEF Trail
<1> QED BY <1>3, <1>4, <1>10, <1>12 DEF Reaches

LEMMA StartScanKeeps == ASSUME RoundInv, RoundInv', RecoveryInv, Resting, StartScan PROVE RecoveryInv'
<1>1. /\ \A l \in LaneIds : worker[l].at = "inserted"
      /\ worker' = [l \in LaneIds |-> Worker("scan", l, ChainHead(l))]
      /\ UNCHANGED <<tableVars, head, nxt, pairs, npairs>>
  BY DEF StartScan
<1>2. TakenInv /\ WorkersInv /\ SurvivorInv /\ TableInv
  BY DEF RecoveryInv
<1>3. ~Idling /\ half > 0
  BY <1>1, <1>2, LanesAre DEF Idling, Working, SurvivorInv
<1>4. \A l \in LaneIds : worker'[l].at = "scan" /\ worker'[l].p = l /\ worker'[l].cur = ChainHead(l)
  BY <1>1 DEF Worker
<1>5. Scanning' /\ ~Idling' /\ worker' = [l \in LaneIds |-> worker'[l]]
  BY <1>1, <1>4, LanesAre DEF Scanning, Idling, Working
<1>6. WorkersInv'
  BY <1>4, <1>5, OwnShare DEF WorkersInv
<1>7. AllIn
  BY <1>1, <1>2, <1>3, ScanningIsIn
<1>8. RepIds' = RepIds /\ RepIds \subseteq Nat
  BY <1>1, <1>2, <1>3, SameReplay, AtTheEnd, RepSizes DEF tableVars
<1>9. \A r \in RepIds : r \in Nat /\ r % Lanes \in LaneIds /\ r % Lanes <= r
  BY <1>8, LanesAre
<1>10. AllIn'
  BY <1>4, <1>8, <1>9 DEF AllIn, Inserted
<1>11. TableInv'
  BY <1>1, <1>2, <1>3, <1>5, <1>7, <1>10, TableRests DEF tableVars
<1>12. SoughtInv'
  <2>1. ASSUME NEW p \in RepIds, NEW r \in RepIds, Candidate(p, r)' PROVE ToScan(p, r)'
    <3>1. Candidate(p, r)
      BY <1>1, <2>1, SameCandidates DEF tableVars
    <3>2. RepKey(p) = RepKey(r)
      BY <3>1 DEF Candidate, Match
    <3>3. Reaches(ChainHead(p), r)
      BY <1>2, <1>3, <1>7, <3>2, HeadReaches
    <3>4. Reaches(ChainHead(p), r)'
      <4>1. ChainHead(p)' = ChainHead(p)
        BY <1>1, SameReplay DEF ChainHead, tableVars
      <4>2. \A a : Reaches(a, r)' <=> Reaches(a, r)
        BY <1>1, SameReach
      <4>3. PICK a : a = ChainHead(p)
        OBVIOUS
      <4> QED BY <3>3, <4>1, <4>2, <4>3 DEF Reaches
    <3>5. PICK k \in LaneIds : k = p % Lanes /\ k <= p
      BY <1>9
    <3>6. worker'[k].p = k /\ worker'[k].cur = ChainHead(k)
      BY <1>4
    <3>7. CASE k < p
      BY <3>5, <3>6, <3>7 DEF ToScan
    <3>8. CASE k = p
      <4>1. PICK a : a = ChainHead(p)
        OBVIOUS
      <4>2. \A b : Reaches(b, r)' <=> Reaches(b, r)
        BY <1>1, SameReach
      <4>3. worker'[k].cur = a
        BY <3>6, <3>8, <4>1
      <4>4. Reaches(worker[k].cur, r)'
        BY <3>3, <4>1, <4>2, <4>3 DEF Reaches
      <4> QED BY <3>5, <3>6, <3>8, <4>4 DEF ToScan
    <3> QED BY <1>9, <3>5, <3>7, <3>8, LanesAre
  <2> QED BY <1>8, <2>1 DEF SoughtInv
<1> QED BY <1>1, <1>3, <1>5, <1>6, <1>11, <1>12, LaneStep

\* A lane that goes on to a has reported, or has yet to meet, what lay ahead of it.
GoesOnTo(l, a) ==
  \A r \in RepIds : worker[l].p \in RepIds /\ Candidate(worker[l].p, r) /\ Reaches(worker[l].cur, r) =>
    <<worker[l].p, r>> \in pairs' \/ Reaches(a, r)

LEMMA ScanStep ==
  ASSUME RoundInv, RecoveryInv, Resting, UNCHANGED <<tableVars, head, nxt>>, pairs \subseteq pairs',
         NEW l \in LaneIds, worker[l].at = "scan", NEW at \in {"scan", "scanned"}, NEW a,
         Move(l, Worker(at, worker[l].p, a)), GoesOnTo(l, a)
  PROVE  RecoveryInv'
<1>1. TakenInv /\ WorkersInv /\ SurvivorInv /\ TableInv /\ SoughtInv
  BY DEF RecoveryInv
<1>2. Scanning /\ ~Idling /\ half > 0
  BY <1>1, OnePlace DEF WorkersInv, SurvivorInv
<1>3. PICK p \in Nat : p = worker[l].p /\ p % Lanes = l
  BY <1>1 DEF WorkersInv
<1>4. /\ worker' = [k \in LaneIds |-> worker'[k]]
      /\ worker'[l].at = at /\ worker'[l].p = p /\ worker'[l].cur = a
      /\ \A k \in LaneIds : k # l => worker'[k] = worker[k]
  <2>1. Move(l, Worker(at, p, a))
    BY <1>3
  <2> QED BY <1>1, <2>1, WorkerMoved
<1>5. Scanning'
  BY <1>2, <1>4 DEF Scanning, Working
<1>6. ~Idling'
  BY <1>5, LanesAre DEF Scanning, Idling, Working
<1>7. WorkersInv'
  <2>1. \A k \in LaneIds : worker'[k].p \in Nat /\ worker'[k].p % Lanes = k
    BY <1>1, <1>3, <1>4 DEF WorkersInv
  <2> QED BY <1>4, <1>5, <2>1 DEF WorkersInv
<1>8. RepIds' = RepIds /\ RepIds \subseteq Nat
  BY <1>1, <1>2, SameReplay, AtTheEnd, RepSizes DEF tableVars
<1>9. \A r \in RepIds : r % Lanes \in LaneIds
  BY <1>8, LanesAre
<1>10. AllIn
  BY <1>2, <1>9 DEF AllIn, Inserted, Scanning, Working
<1>11. AllIn'
  BY <1>5, <1>8, <1>9 DEF AllIn, Inserted, Scanning, Working
<1>12. TableInv'
  BY <1>1, <1>2, <1>6, <1>10, <1>11, TableRests DEF tableVars
<1>13. SoughtInv'
  <2>1. ASSUME NEW x \in RepIds, NEW r \in RepIds, Candidate(x, r)'
        PROVE  l3Slots'[half'] # <<>> \/ <<x, r>> \in pairs' \/ ToScan(x, r)'
    <3>1. Candidate(x, r)
      BY <2>1, SameCandidates DEF tableVars
    <3>2. l3Slots' = l3Slots /\ half' = half
      BY DEF tableVars
    <3>3. l3Slots[half] # <<>> \/ <<x, r>> \in pairs \/ ToScan(x, r)
      BY <1>1, <1>2, <3>1 DEF SoughtInv
    <3>4. CASE ToScan(x, r)
      <4>1. PICK k \in LaneIds : k = x % Lanes
        BY <1>9
      <4>2. worker[k].p < x \/ (worker[k].p = x /\ Reaches(worker[k].cur, r))
        BY <3>4, <4>1 DEF ToScan
      <4>3. \A b : Reaches(b, r)' <=> Reaches(b, r)
        BY SameReach
      <4>4. CASE k # l
        <5>1. worker'[k] = worker[k]
          BY <1>4, <4>4
        <5>2. PICK b : b = worker[k].cur
          OBVIOUS
        <5>3. Reaches(worker[k].cur, r)' <=> Reaches(worker[k].cur, r)
          BY <4>3, <5>1, <5>2 DEF Reaches
        <5> QED BY <4>1, <4>2, <5>1, <5>3 DEF ToScan
      <4>5. CASE k = l /\ p < x
        BY <1>4, <4>1, <4>5 DEF ToScan
      <4>6. CASE k = l /\ p = x /\ Reaches(worker[k].cur, r)
        <5>1. <<x, r>> \in pairs' \/ Reaches(a, r)
          BY <1>3, <3>1, <4>6 DEF GoesOnTo
        <5>2. CASE Reaches(a, r)
          <6>1. Reaches(worker[k].cur, r)'
            BY <1>4, <4>3, <4>6, <5>2 DEF Reaches
          <6> QED BY <1>4, <4>1, <4>6, <6>1 DEF ToScan
        <5> QED BY <5>1, <5>2
      <4> QED BY <1>3, <4>2, <4>4, <4>5, <4>6
    <3> QED BY <3>2, <3>3, <3>4
  <2> QED BY <1>8, <2>1 DEF SoughtInv
<1> QED BY <1>2, <1>6, <1>7, <1>12, <1>13, LaneStep

\* What the scan of a lane meets next.
LEMMA ScanMeets ==
  ASSUME RoundInv, RecoveryInv, NEW l \in LaneIds, worker[l].at = "scan", NEW r,
         Candidate(worker[l].p, r), Reaches(worker[l].cur, r), NEW q, q = NextMatch(worker[l].p, worker[l].cur)
  PROVE  q # None /\ Reaches(q, r) /\ (q # r => Reaches(nxt[q], r))
<1>1. TakenInv /\ SurvivorInv /\ TableInv /\ ~Idling
  BY OnePlace DEF RecoveryInv
<1>2. nxt \in [RepPos -> {None} \cup RepPos]
  BY <1>1 DEF TableInv
<1>3. PICK p, a : p = worker[l].p /\ a = worker[l].cur
  OBVIOUS
<1>4. Match(p, r) /\ Reaches(a, r) /\ q = NextMatch(p, a)
  BY <1>3 DEF Candidate
<1>5. \A x \in RepPos : \E n : \E w : Trail(n, w, x, nxt, RepPos)
  BY <1>1, RepTrails
<1> QED BY <1>2, <1>4, <1>5, NextMatchIs

LEMMA AppendPairKeeps ==
  ASSUME RoundInv, RecoveryInv, Resting, NEW l \in LaneIds, AppendPair(l)
  PROVE  RecoveryInv'
<1>1. PICK q : q = NextMatch(worker[l].p, worker[l].cur)
  OBVIOUS
<1>2. /\ worker[l].at = "scan" /\ UNCHANGED <<tableVars, head, nxt>>
      /\ npairs >= RepPair => Move(l, Worker("scanned", worker[l].p, q)) /\ UNCHANGED pairs
      /\ ~(npairs >= RepPair) => /\ pairs' = pairs \cup {<<worker[l].p, q>>}
                                 /\ Move(l, Worker("scan", worker[l].p, nxt[q]))
  BY <1>1 DEF AppendPair, In
<1>3. ASSUME NEW r \in RepIds, Candidate(worker[l].p, r), Reaches(worker[l].cur, r)
      PROVE  Reaches(q, r) /\ (q # r => Reaches(nxt[q], r))
  BY <1>1, <1>2, <1>3, ScanMeets
<1>4. CASE npairs >= RepPair
  <2>1. GoesOnTo(l, q)
    BY <1>3 DEF GoesOnTo
  <2> QED BY <1>2, <1>4, <2>1, ScanStep
<1>5. CASE ~(npairs >= RepPair)
  <2>1. GoesOnTo(l, nxt[q])
    BY <1>2, <1>3, <1>5 DEF GoesOnTo
  <2> QED BY <1>2, <1>5, <2>1, ScanStep
<1> QED BY <1>4, <1>5

LEMMA ScanEndsKeeps ==
  ASSUME RoundInv, RecoveryInv, Resting, NEW l \in LaneIds, ScanEnds(l)
  PROVE  RecoveryInv'
<1>1. /\ worker[l].at = "scan" /\ NextMatch(worker[l].p, worker[l].cur) = None
      /\ Move(l, Worker("scanned", worker[l].p, None))
      /\ UNCHANGED <<tableVars, head, nxt, pairs, npairs>>
  BY DEF ScanEnds, In
<1>2. GoesOnTo(l, None)
  BY <1>1, ScanMeets DEF GoesOnTo
<1> QED BY <1>1, <1>2, ScanStep

\* What is left to look for once the listed pairs have been tried.
Tried ==
  /\ DOMAIN l3Slots' = Halves /\ DOMAIN l4Lead' = Halves
  /\ \A k \in Halves : k # half => l3Slots'[k] = l3Slots[k] /\ l4Lead'[k] = l4Lead[k]
  /\ l3Slots'[half] # <<>> =>
       /\ <<elem[l3Slots'[half][1]], elem[l3Slots'[half][2]]>> = Ident(target)
       /\ l4Lead'[half] = Lead(target)
  /\ l3Slots'[half] # <<>> \/ \A p, r \in RepIds : Candidate(p, r) => ToScan(p, r)

LEMMA PairsTried ==
  ASSUME RecoveryInv, Scanning, half \in Halves,
         IF Found = {}
         THEN UNCHANGED <<l3Slots, l4Lead>>
         ELSE \E par \in Found :
                /\ l3Slots' = [l3Slots EXCEPT ![half] = par]
                /\ l4Lead' = [l4Lead EXCEPT ![half] = ElemAt(par[1]).lead]
  PROVE  Tried
<1>1. DOMAIN l3Slots = Halves /\ DOMAIN l4Lead = Halves
  BY DEF RecoveryInv, FoundInv
<1>2. CASE Found = {}
  <2>1. l3Slots' = l3Slots /\ l4Lead' = l4Lead
    BY <1>2
  <2>2. l3Slots[half] # <<>> =>
          /\ <<elem[l3Slots[half][1]], elem[l3Slots[half][2]]>> = Ident(target)
          /\ l4Lead[half] = Lead(target)
    BY DEF RecoveryInv, FoundInv, target
  <2>3. ASSUME NEW p \in RepIds, NEW r \in RepIds, Candidate(p, r), l3Slots[half] = <<>> PROVE ToScan(p, r)
    <3>1. <<p, r>> \in pairs \/ ToScan(p, r)
      BY <2>3 DEF RecoveryInv, SoughtInv
    <3>2. ASSUME <<p, r>> \in pairs PROVE FALSE
      <4>1. PICK par : par = Parents(p, r)
        OBVIOUS
      <4>2. <<elem[par[1]], elem[par[2]]>> = Ident(target)
        BY <2>3, <4>1 DEF Candidate
      <4>3. par \in {Parents(pq[1], pq[2]) : pq \in pairs}
        BY <3>2, <4>1
      <4>4. par \in Found
        BY <4>2, <4>3 DEF Found
      <4> QED BY <1>2, <4>4
    <3> QED BY <3>1, <3>2
  <2> QED BY <1>1, <2>1, <2>2, <2>3 DEF Tried
<1>3. CASE Found # {}
  <2>1. PICK par \in Found : /\ l3Slots' = [l3Slots EXCEPT ![half] = par]
                             /\ l4Lead' = [l4Lead EXCEPT ![half] = ElemAt(par[1]).lead]
    BY <1>3
  <2>2. <<elem[par[1]], elem[par[2]]>> = Ident(target) /\ \E s, t : par = Ordered(s, t)
    BY DEF Found, Parents
  <2>3. par # <<>>
    <3>1. \E s, t : par = <<s, t>>
      BY <2>2 DEF Ordered
    <3> QED BY <3>1
  <2>4. ElemAt(par[1]).lead = Lead(target)
    <3>1. elem[par[1]] = elem[target.left]
      BY <2>2 DEF Ident
    <3> QED BY <3>1 DEF Lead, ElemAt
  <2>5. /\ DOMAIN l3Slots' = Halves /\ DOMAIN l4Lead' = Halves
        /\ \A k \in Halves : k # half => l3Slots'[k] = l3Slots[k] /\ l4Lead'[k] = l4Lead[k]
        /\ l3Slots'[half] = par /\ l4Lead'[half] = ElemAt(par[1]).lead
    BY <1>1, <2>1
  <2> QED BY <2>2, <2>3, <2>4, <2>5 DEF Tried
<1> QED BY <1>2, <1>3

LEMMA TriedFound ==
  ASSUME RecoveryInv, Resting, UNCHANGED <<survivor, half, pool>>, ~Idling, Tried, half \in Halves,
         Idling' /\ Dense <= RepN => l3Slots'[half] # <<>>
  PROVE  FoundInv'
<1>1. Dense' = Dense /\ elem' = elem /\ \A c : Ident(c)' = Ident(c) /\ Lead(c)' = Lead(c)
  BY SameReplay DEF Resting
<1>2. \A k \in Halves : /\ l3Slots[k] # <<>> =>
                             /\ k <= half
                             /\ <<elem[l3Slots[k][1]], elem[l3Slots[k][2]]>> = Ident(survivor[k])
                             /\ l4Lead[k] = Lead(survivor[k])
                        /\ Dense <= RepN /\ k < half => l3Slots[k] # <<>>
  BY DEF RecoveryInv, FoundInv
<1>3. half \in 1 .. 2
  BY DEF Halves
<1>4. \A k \in Halves : l3Slots'[k] # <<>> =>
        /\ k <= half
        /\ <<elem[l3Slots'[k][1]], elem[l3Slots'[k][2]]>> = Ident(survivor[k])
        /\ l4Lead'[k] = Lead(survivor[k])
  <2>1. CASE l3Slots'[half] # <<>>
    BY <1>2, <1>3, <2>1 DEF Tried, target
  <2>2. CASE l3Slots'[half] = <<>>
    BY <1>2, <2>2 DEF Tried
  <2> QED BY <2>1, <2>2
<1>5. \A k \in Halves : Dense <= RepN /\ (k < half \/ (k = half /\ Idling')) => l3Slots'[k] # <<>>
  <2>1. \A k \in Halves : k < half => k # half
    BY <1>3 DEF Halves
  <2> QED BY <1>2, <2>1 DEF Tried
<1>6. DOMAIN l3Slots' = Halves /\ DOMAIN l4Lead' = Halves
  BY DEF Tried
<1> QED BY <1>1, <1>4, <1>5, <1>6 DEF FoundInv, Halves

LEMMA TriedStep ==
  ASSUME RecoveryInv, Resting, UNCHANGED <<survivor, half, pool, leaves, drops>>, half > 0,
         WorkersInv', TableInv', SoughtInv', FoundInv'
  PROVE  RecoveryInv'
<1>1. TakenInv' /\ OrderInv'
  BY TakenRests, OrderRests DEF RecoveryInv
<1>2. Dense' = Dense /\ Taken' = Taken /\ (BlockDone' <=> BlockDone) /\ out' = out
  BY RestingSame
<1>3. SurvivorInv'
  BY <1>2 DEF RecoveryInv, SurvivorInv
<1>4. LeavesInTreeOrder'
  BY LeavesRest DEF RecoveryInv
<1> QED BY <1>1, <1>3, <1>4 DEF RecoveryInv

LEMMA NothingBehind == ASSUME NEW r PROVE ~Reaches(None, r)
<1> SUFFICES ASSUME Reaches(None, r) PROVE FALSE
  OBVIOUS
<1>1. PICK n, w : Trail(n, w, None, nxt, RepPos)
  BY DEF Reaches
<1>2. n \in Nat \ {0} /\ w \in [1 .. n -> RepPos] /\ w[1] = None
  BY <1>1 DEF Trail
<1>3. 1 \in 1 .. n
  BY <1>2
<1> QED BY <1>2, <1>3, NoneIsNoRep

\* The barrier's two ways on.
ToNext(l) == Worker("scan", worker[l].p + Lanes, ChainHead(worker[l].p + Lanes))
LastOnes == \A l \in LaneIds : worker[l].p - (worker[l].p % Lanes) + Lanes >= RepCount
Exhausted == \A l \in LaneIds : worker[l].cur = None

\* What a lane has scanned to the end has none of the pairs left to find.
LEMMA StillAhead ==
  ASSUME RoundInv, RecoveryInv, Exhausted, half > 0, NEW p \in RepIds, NEW r \in RepIds, ToScan(p, r)
  PROVE  /\ p % Lanes \in LaneIds /\ worker[p % Lanes].p \in Nat
         /\ worker[p % Lanes].p + Lanes <= p /\ ~LastOnes
<1>1. PICK n \in Nat : n = RepCount /\ p \in Nat /\ p < n
  <2>1. RepCount \in Nat /\ RepIds \subseteq Nat
    BY AtTheEnd, RepSizes DEF RecoveryInv
  <2> QED BY <2>1 DEF RepIds
<1>2. PICK k \in LaneIds : k = p % Lanes
  BY <1>1, LanesAre
<1>3. PICK x \in Nat : x = worker[k].p /\ x % Lanes = k
  BY DEF RecoveryInv, WorkersInv
<1>4. x < p
  BY <1>2, <1>3, NothingBehind DEF ToScan, Exhausted
<1>5. x + Lanes <= p
  BY <1>1, <1>2, <1>3, <1>4, LanesAre, Shared
<1>6. x - k + Lanes < n
  <2>1. k \in Nat /\ Lanes \in Nat
    BY LanesAre
  <2> QED BY <1>1, <1>5, <2>1
<1>7. ~LastOnes
  <2>1. k \in Nat /\ Lanes \in Nat
    BY LanesAre
  <2>2. ~(worker[k].p - (worker[k].p % Lanes) + Lanes >= RepCount)
    BY <1>1, <1>3, <1>6, <2>1
  <2> QED BY <2>2 DEF LastOnes
<1> QED BY <1>2, <1>3, <1>5, <1>7

LEMMA TryPairsKeeps == ASSUME RoundInv, RecoveryInv, Resting, TryPairs PROVE RecoveryInv'
<1>1. /\ \A l \in LaneIds : worker[l].at = "scanned"
      /\ IF Found = {}
         THEN UNCHANGED <<l3Slots, l4Lead>>
         ELSE \E par \in Found :
                /\ l3Slots' = [l3Slots EXCEPT ![half] = par]
                /\ l4Lead' = [l4Lead EXCEPT ![half] = ElemAt(par[1]).lead]
      /\ ~Exhausted =>
           /\ worker' = [l \in LaneIds |-> Worker("scan", worker[l].p, worker[l].cur)]
           /\ UNCHANGED <<head, nxt>>
      /\ Exhausted /\ ~LastOnes => worker' = [l \in LaneIds |-> ToNext(l)] /\ UNCHANGED <<head, nxt>>
      /\ Exhausted /\ LastOnes =>
           worker' = [l \in LaneIds |-> Worker("idle", l, None)] /\ head' = NoHead /\ nxt' = NoNext
      /\ UNCHANGED <<survivor, half, pool, leaves, drops>>
  BY DEF TryPairs, Exhausted, LastOnes, ToNext
<1>2. TakenInv /\ WorkersInv /\ SurvivorInv /\ TableInv /\ SoughtInv
  BY DEF RecoveryInv
<1>3. Scanning /\ ~Idling /\ half > 0 /\ half \in Halves
  <2>1. Scanning
    BY <1>1 DEF Scanning, Working
  <2>2. ~Idling
    BY <2>1, OnePlace
  <2> QED BY <1>2, <2>1, <2>2 DEF SurvivorInv, Halves
<1>4. Tried
  BY <1>1, <1>3, PairsTried
<1>5. RepIds' = RepIds /\ RepIds \subseteq Nat
  BY <1>1, <1>2, <1>3, SameReplay, AtTheEnd, RepSizes
<1>6. \A r \in RepIds : r % Lanes \in LaneIds
  BY <1>5, LanesAre
<1>7. AllIn
  BY <1>3, <1>6 DEF AllIn, Inserted, Scanning, Working
<1>8. \A l \in LaneIds : worker[l].p \in Nat /\ worker[l].p % Lanes = l
  BY <1>2 DEF WorkersInv
<1>9. \A p, r : Candidate(p, r)' <=> Candidate(p, r)
  BY <1>1, SameCandidates
<1>10. ASSUME ~Idling', FoundInv', WorkersInv', SoughtInv', UNCHANGED <<head, nxt>>,
              \A l \in LaneIds : worker'[l].at = "scan"
       PROVE  RecoveryInv'
  <2>1. AllIn'
    BY <1>5, <1>6, <1>10 DEF AllIn, Inserted
  <2>2. TableInv'
    BY <1>1, <1>2, <1>3, <1>7, <1>10, <2>1, TableRests
  <2> QED BY <1>1, <1>3, <1>10, <2>2, TriedStep
<1>11. CASE ~Exhausted
  <2>1. \A l \in LaneIds : worker'[l].at = "scan" /\ worker'[l].p = worker[l].p /\ worker'[l].cur = worker[l].cur
    BY <1>1, <1>11 DEF Worker
  <2>2. worker' = [l \in LaneIds |-> worker'[l]]
    BY <1>1, <1>11
  <2>3. Scanning' /\ ~Idling'
    BY <2>1, LanesAre DEF Scanning, Idling, Working
  <2>4. WorkersInv'
    BY <1>8, <2>1, <2>2, <2>3 DEF WorkersInv
  <2>5. FoundInv'
    BY <1>1, <1>3, <1>4, <2>3, TriedFound
  <2>6. SoughtInv'
    <3>1. ASSUME NEW p \in RepIds, NEW r \in RepIds, Candidate(p, r)' PROVE l3Slots'[half] # <<>> \/ ToScan(p, r)'
      <4>1. l3Slots'[half] # <<>> \/ ToScan(p, r)
        BY <1>4, <1>9, <3>1 DEF Tried
      <4>2. PICK k \in LaneIds : k = p % Lanes
        BY <1>6
      <4>3. \A b : Reaches(b, r)' <=> Reaches(b, r)
        BY <1>1, <1>11, SameReach
      <4>4. Reaches(worker[k].cur, r)' <=> Reaches(worker[k].cur, r)
        BY <2>1, <4>3 DEF Reaches
      <4> QED BY <2>1, <4>1, <4>2, <4>4 DEF ToScan
    <3> QED BY <1>1, <1>5, <3>1 DEF SoughtInv
  <2> QED BY <1>1, <1>10, <1>11, <2>1, <2>3, <2>4, <2>5, <2>6
<1>12. CASE Exhausted /\ ~LastOnes
  <2>1. \A l \in LaneIds : /\ worker'[l].at = "scan" /\ worker'[l].p = worker[l].p + Lanes
                           /\ worker'[l].cur = ChainHead(worker[l].p + Lanes)
    BY <1>1, <1>12 DEF Worker, ToNext
  <2>2. worker' = [l \in LaneIds |-> worker'[l]]
    BY <1>1, <1>12
  <2>3. Scanning' /\ ~Idling'
    BY <2>1, LanesAre DEF Scanning, Idling, Working
  <2>4. WorkersInv'
    <3>1. ASSUME NEW l \in LaneIds PROVE worker'[l].p \in Nat /\ worker'[l].p % Lanes = l
      <4>1. PICK x \in Nat, m \in Nat \ {0} : x = worker[l].p /\ m = Lanes
        BY <1>8, LanesAre
      <4>2. (x + m) % m = x % m
        BY SharedNext
      <4>3. worker'[l].p = x + m /\ x % m = l
        BY <1>8, <2>1, <4>1
      <4> QED BY <4>1, <4>2, <4>3
    <3> QED BY <2>2, <2>3, <3>1 DEF WorkersInv
  <2>5. FoundInv'
    BY <1>1, <1>3, <1>4, <2>3, TriedFound
  <2>6. SoughtInv'
    <3>1. ASSUME NEW p \in RepIds, NEW r \in RepIds, Candidate(p, r)' PROVE l3Slots'[half] # <<>> \/ ToScan(p, r)'
      <4>1. l3Slots'[half] # <<>> \/ ToScan(p, r)
        BY <1>4, <1>9, <3>1 DEF Tried
      <4>2. CASE ToScan(p, r)
        <5>1. PICK k \in LaneIds, x \in Nat : /\ k = p % Lanes /\ x = worker[k].p + Lanes /\ x <= p
          <6>1. p % Lanes \in LaneIds /\ worker[p % Lanes].p \in Nat /\ worker[p % Lanes].p + Lanes <= p
            BY <1>3, <1>12, <4>2, StillAhead
          <6>2. PICK k \in LaneIds : k = p % Lanes
            BY <6>1
          <6>3. PICK y \in Nat : y = worker[k].p + Lanes
            <7>1. worker[k].p \in Nat /\ Lanes \in Nat
              BY <6>1, <6>2, LanesAre
            <7> QED BY <7>1
          <6> QED BY <6>1, <6>2, <6>3
        <5>2. worker'[k].p = x /\ worker'[k].cur = ChainHead(x)
          BY <2>1, <5>1
        <5>3. CASE x = p
          <6>1. RepKey(p) = RepKey(r)
            BY <1>9, <3>1 DEF Candidate, Match
          <6>2. PICK a : a = ChainHead(p) /\ Reaches(a, r)
            BY <1>2, <1>3, <1>7, <6>1, HeadReaches
          <6>3. \A b : Reaches(b, r)' <=> Reaches(b, r)
            BY <1>1, <1>12, SameReach
          <6>4. worker'[k].cur = a
            BY <5>2, <5>3, <6>2
          <6>5. Reaches(worker[k].cur, r)'
            BY <6>2, <6>3, <6>4 DEF Reaches
          <6> QED BY <5>1, <5>2, <5>3, <6>5 DEF ToScan
        <5>4. CASE x # p
          <6>1. x < p
            BY <1>5, <5>1, <5>4
          <6> QED BY <5>1, <5>2, <6>1 DEF ToScan
        <5> QED BY <5>3, <5>4
      <4> QED BY <4>1, <4>2
    <3> QED BY <1>1, <1>5, <3>1 DEF SoughtInv
  <2> QED BY <1>1, <1>10, <1>12, <2>1, <2>3, <2>4, <2>5, <2>6
<1>13. CASE Exhausted /\ LastOnes
  <2>1. /\ worker' = [l \in LaneIds |-> Worker("idle", l, None)] /\ head' = NoHead /\ nxt' = NoNext
    BY <1>1, <1>13
  <2>2. \A l \in LaneIds : worker'[l].at = "idle" /\ worker'[l].p = l
    BY <2>1 DEF Worker
  <2>3. Idling' /\ ~Scanning'
    BY <2>2, LanesAre DEF Idling, Scanning, Working
  <2>4. WorkersInv'
    BY <2>1, <2>2, <2>3, OwnShare DEF WorkersInv
  <2>5. TableInv'
    BY <2>1, <2>3 DEF TableInv, NoHead, NoNext, RepPos, RepHashes
  <2>6. SoughtInv'
    BY <2>3 DEF SoughtInv
  <2>7. ASSUME Dense <= RepN PROVE l3Slots'[half] # <<>>
    <3>1. PICK p \in RepIds, r \in RepIds : Candidate(p, r)
      BY <1>2, <1>3, <2>7, CandidateExists DEF RecoveryInv
    <3>2. ~ToScan(p, r)
      BY <1>3, <1>13, StillAhead
    <3> QED BY <1>4, <3>1, <3>2 DEF Tried
  <2>8. FoundInv'
    BY <1>1, <1>3, <1>4, <2>7, TriedFound
  <2> QED BY <1>1, <1>3, <2>4, <2>5, <2>6, <2>8, TriedStep
<1> QED BY <1>11, <1>12, <1>13

LEMMA FourLeaves ==
  ASSUME NEW a, NEW b, NEW c, NEW d
  PROVE  \E t : /\ t = <<a, b>> \o <<c, d>> /\ t # <<>>
                /\ t[1] = a /\ t[2] = b /\ t[3] = c /\ t[4] = d
<1>1. PICK s, u : s = <<a, b>> /\ u = <<c, d>>
  OBVIOUS
<1>2. PICK S : S = {a, b, c, d}
  OBVIOUS
<1>3. s \in Seq(S) /\ u \in Seq(S) /\ Len(s) = 2 /\ Len(u) = 2
  BY <1>1, <1>2
<1>4. PICK t : t = s \o u
  OBVIOUS
<1>5. Len(t) = 4 /\ \A i \in 1 .. 4 : t[i] = IF i <= 2 THEN s[i] ELSE u[i - 2]
  <2>1. /\ s \o u \in Seq(S) /\ Len(s \o u) = Len(s) + Len(u)
        /\ \A i \in 1 .. Len(s) + Len(u) : (s \o u)[i] = IF i <= Len(s) THEN s[i] ELSE u[i - Len(s)]
    BY <1>3, ConcatProperties
  <2> QED BY <1>3, <1>4, <2>1
<1>6. t[1] = s[1] /\ t[2] = s[2] /\ t[3] = u[1] /\ t[4] = u[2]
  BY <1>5
<1>7. t # <<>>
  BY <1>5, EmptySeq
<1> QED BY <1>1, <1>4, <1>6, <1>7

LEMMA RecoverLeavesKeeps == ASSUME RoundInv, RecoveryInv, Resting, RecoverLeaves PROVE RecoveryInv'
<1> DEFINE Half(k) == IF l3Slots[k] = <<>> THEN <<0, 0>> ELSE <<elem[l3Slots[k][1]], elem[l3Slots[k][2]]>>
<1>1. /\ half = 2 /\ Idling
      /\ leaves' = IF l4Lead[2] < l4Lead[1] THEN Half(2) \o Half(1) ELSE Half(1) \o Half(2)
      /\ UNCHANGED <<survivor, half, pool, head, nxt, pairs, npairs, worker, l3Slots, l4Lead, drops>>
  BY DEF RecoverLeaves, Idling, Working
<1>2. Idling' /\ ~Scanning'
  <2>1. Idling'
    BY <1>1 DEF Idling, Working
  <2>2. ~Scanning'
    BY <1>1, LanesAre DEF Idling, Scanning, Working
  <2> QED BY <2>1, <2>2
<1>3. /\ Dense' = Dense /\ Taken' = Taken /\ (BlockDone' <=> BlockDone) /\ out' = out /\ elem' = elem
      /\ drops' = drops /\ \A c : Ident(c)' = Ident(c) /\ Lead(c)' = Lead(c)
  BY <1>1, RestingSame DEF Resting
<1>4. TakenInv' /\ OrderInv'
  BY TakenRests, OrderRests DEF RecoveryInv
<1>5. WorkersInv'
  BY <1>1, <1>2 DEF RecoveryInv, WorkersInv
<1>6. SurvivorInv'
  BY <1>1, <1>2, <1>3 DEF RecoveryInv, SurvivorInv
<1>7. TableInv'
  BY <1>1, <1>2 DEF RecoveryInv, TableInv, NoHead, NoNext, RepPos, RepHashes
<1>8. SoughtInv'
  BY <1>2 DEF SoughtInv
<1>9. FoundInv'
  BY <1>1, <1>2, <1>3 DEF RecoveryInv, FoundInv, Halves
<1>10. 1 \in Halves /\ 2 \in Halves
  BY DEF Halves
<1>11. LeavesInTreeOrder'
  <2>1. TreeOrder' = TreeOrder
    BY <1>1, <1>3 DEF TreeOrder
  <2>2. CASE l3Slots[1] # <<>> /\ l3Slots[2] # <<>>
    <3>1. /\ Half(1) = Ident(survivor[1]) /\ Half(2) = Ident(survivor[2])
          /\ l4Lead[1] = Lead(survivor[1]) /\ l4Lead[2] = Lead(survivor[2])
      BY <1>10, <2>2 DEF RecoveryInv, FoundInv
    <3>2. leaves' = TreeOrder
      BY <1>1, <3>1 DEF TreeOrder
    <3> QED BY <2>1, <3>2 DEF LeavesInTreeOrder
  <2>3. ASSUME NEW k \in Halves, l3Slots[k] = <<>> PROVE LeavesInTreeOrder'
    <3>1. k = 1 \/ k = 2
      BY DEF Halves
    <3>2. ~(Dense <= RepN)
      BY <1>1, <2>3, <3>1 DEF RecoveryInv, FoundInv
    <3>3. Dense > RepN /\ "stage" \in drops
      <4>1. Dense \in Nat /\ RepN \in Nat
        BY <1>1, AtTheEnd, RepSizes, ReplayAssumption DEF RecoveryInv
      <4>2. Dense > RepN
        BY <3>2, <4>1
      <4> QED BY <1>1, <4>2 DEF RecoveryInv, SurvivorInv
    <3>4. PICK x, y, v, w : Half(1) = <<x, y>> /\ Half(2) = <<v, w>>
      OBVIOUS
    <3>5. (k = 1 => x = 0 /\ y = 0) /\ (k = 2 => v = 0 /\ w = 0)
      BY <2>3, <3>4
    <3>6. \E t : /\ t = <<x, y>> \o <<v, w>> /\ t # <<>> /\ t[1] = x /\ t[2] = y /\ t[3] = v /\ t[4] = w
      BY FourLeaves
    <3>7. \E t : /\ t = <<v, w>> \o <<x, y>> /\ t # <<>> /\ t[1] = v /\ t[2] = w /\ t[3] = x /\ t[4] = y
      BY FourLeaves
    <3>8. PICK t : t = leaves'
      OBVIOUS
    <3>9. (t[1] = 0 /\ t[2] = 0) \/ (t[3] = 0 /\ t[4] = 0)
      BY <1>1, <3>1, <3>4, <3>5, <3>6, <3>7, <3>8
    <3>10. \E h \in Halves : \A i \in {2 * h - 1, 2 * h} : t[i] = 0
      <4>1. CASE t[1] = 0 /\ t[2] = 0
        <5>1. \A i \in {2 * 1 - 1, 2 * 1} : t[i] = 0
          BY <4>1
        <5> QED BY <1>10, <5>1
      <4>2. CASE t[3] = 0 /\ t[4] = 0
        <5>1. \A i \in {2 * 2 - 1, 2 * 2} : t[i] = 0
          BY <4>2
        <5> QED BY <1>10, <5>1
      <4> QED BY <3>9, <4>1, <4>2
    <3> QED BY <1>3, <3>3, <3>8, <3>10 DEF LeavesInTreeOrder, Halves
  <2> QED BY <1>10, <2>2, <2>3
<1> QED BY <1>4, <1>5, <1>6, <1>7, <1>8, <1>9, <1>11 DEF RecoveryInv

\* The recovery reads what the block left; the block, once done, takes no step.
LEMMA RecoveryStays ==
  ASSUME RecoveryInv, TakenInv', OrderInv', UNCHANGED replayVars,
         \/ survivor = <<>>
         \/ Resting
  PROVE  RecoveryInv'
<1>1. /\ UNCHANGED <<survivor, half, pool, head, nxt, pairs, npairs, worker, l3Slots, l4Lead, leaves>>
      /\ RepPos' = RepPos /\ RepHashes' = RepHashes /\ NoHead' = NoHead /\ NoNext' = NoNext
      /\ (Idling' <=> Idling) /\ (Scanning' <=> Scanning) /\ (Inserting' <=> Inserting)
  BY DEF replayVars, RepPos, RepHashes, NoHead, NoNext, Idling, Scanning, Inserting, Working
<1>2. WorkersInv'
  BY <1>1 DEF RecoveryInv, WorkersInv
<1>3. CASE Resting
  <2>1. /\ RepIds' = RepIds /\ Dense' = Dense /\ Taken' = Taken /\ (BlockDone' <=> BlockDone)
        /\ \A r : RepKey(r)' = RepKey(r)
        /\ \A c : Ident(c)' = Ident(c) /\ Lead(c)' = Lead(c)
    BY <1>1, <1>3, SameReplay
  <2>2. out' = out /\ elem' = elem /\ drops \subseteq drops'
    BY <1>3 DEF Resting
  <2>3. SurvivorInv'
    BY <1>1, <2>1, <2>2 DEF RecoveryInv, SurvivorInv
  <2>4. TableInv'
    <3>1. \A r : Inserted(r)' <=> Inserted(r)
      BY <1>1 DEF Inserted
    <3>2. \A h : InHash(h)' = InHash(h)
      BY <2>1, <3>1 DEF InHash
    <3> QED BY <1>1, <2>1, <3>1, <3>2 DEF RecoveryInv, TableInv
  <2>5. SoughtInv'
    <3>1. \A p, r : Candidate(p, r)' <=> Candidate(p, r)
      BY <1>1, <1>3, SameCandidates
    <3>2. \A p, r : ToScan(p, r)' <=> ToScan(p, r)
      BY <1>1 DEF ToScan, Reaches, Trail, Links
    <3> QED BY <1>1, <2>1, <3>1, <3>2 DEF RecoveryInv, SoughtInv
  <2>6. FoundInv'
    BY <1>1, <2>1, <2>2 DEF RecoveryInv, FoundInv, Halves
  <2>7. LeavesInTreeOrder'
    BY <1>1, <1>3, LeavesRest DEF RecoveryInv
  <2> QED BY <1>2, <2>3, <2>4, <2>5, <2>6, <2>7 DEF RecoveryInv
<1>4. CASE survivor = <<>>
  <2>1. half = 0 /\ leaves = <<>> /\ Idling
    BY <1>4 DEF RecoveryInv, SurvivorInv
  <2>2. SurvivorInv'
    BY <1>1, <1>4, <2>1 DEF RecoveryInv, SurvivorInv
  <2>3. TableInv'
    BY <1>1, <2>1 DEF RecoveryInv, TableInv
  <2>4. SoughtInv'
    BY <1>1, <2>1, OnePlace DEF SoughtInv
  <2>5. FoundInv'
    <3>1. \A k \in Halves : ~(k <= half) /\ ~(k < half) /\ k # half
      BY <2>1 DEF Halves
    <3>2. \A k \in Halves : l3Slots[k] = <<>>
      BY <3>1 DEF RecoveryInv, FoundInv
    <3> QED BY <1>1, <3>1, <3>2 DEF RecoveryInv, FoundInv, Halves
  <2>6. LeavesInTreeOrder'
    BY <1>1, <2>1 DEF LeavesInTreeOrder
  <2> QED BY <1>2, <2>2, <2>3, <2>4, <2>5, <2>6 DEF RecoveryInv
<1> QED BY <1>3, <1>4

LEMMA RecoveryKeeps ==
  RoundInv /\ RoundInv' /\ RecoveryInv /\ [ReplayNext]_<<roundVars, replayVars>> => RecoveryInv'
<1> SUFFICES ASSUME RoundInv, RoundInv', RecoveryInv, [ReplayNext]_<<roundVars, replayVars>> PROVE RecoveryInv'
  OBVIOUS
<1>1. CASE Round
  <2>1. RoundNext /\ UNCHANGED replayVars
    BY <1>1 DEF Round
  <2>2. survivor = <<>>
    BY <2>1, RoundStops DEF RecoveryInv, SurvivorInv
  <2>3. TakenInv' /\ OrderInv'
    BY <2>1, TakenKeeps, OrderKeeps DEF RecoveryInv
  <2> QED BY <2>1, <2>2, <2>3, RecoveryStays
<1>2. CASE Recovery
  <2>1. Resting
    BY <1>2, RecoveryRests
  <2>2. \/ \E c, d \in out : Survives(c, d)
        \/ LaunchReplay
        \/ \E l \in LaneIds : Insert(l) \/ AppendPair(l) \/ ScanEnds(l)
        \/ StartScan
        \/ TryPairs
        \/ RecoverLeaves
    BY <1>2 DEF Recovery
  <2>3. ASSUME NEW c \in out, NEW d \in out, Survives(c, d) PROVE RecoveryInv'
    BY <2>1, <2>3, SurvivesKeeps
  <2>4. CASE LaunchReplay
    BY <2>1, <2>4, LaunchReplayKeeps
  <2>5. ASSUME NEW l \in LaneIds, Insert(l) PROVE RecoveryInv'
    BY <2>1, <2>5, InsertKeeps
  <2>6. ASSUME NEW l \in LaneIds, AppendPair(l) PROVE RecoveryInv'
    BY <2>1, <2>6, AppendPairKeeps
  <2>7. ASSUME NEW l \in LaneIds, ScanEnds(l) PROVE RecoveryInv'
    BY <2>1, <2>7, ScanEndsKeeps
  <2>8. CASE StartScan
    BY <2>1, <2>8, StartScanKeeps
  <2>9. CASE TryPairs
    BY <2>1, <2>9, TryPairsKeeps
  <2>10. CASE RecoverLeaves
    BY <2>1, <2>10, RecoverLeavesKeeps
  <2> QED BY <2>2, <2>3, <2>4, <2>5, <2>6, <2>7, <2>8, <2>9, <2>10
<1>3. CASE UNCHANGED <<roundVars, replayVars>>
  <2>1. Resting /\ UNCHANGED replayVars
    BY <1>3 DEF Resting, roundVars, inputVars, setVars, sharedVars, outVars
  <2> QED BY <2>1, TakenRests, OrderRests, RecoveryStays DEF RecoveryInv
<1> QED BY <1>1, <1>2, <1>3 DEF ReplayNext

LEMMA RecoveryStarts == ReplayInit => RecoveryInv
<1> SUFFICES ASSUME ReplayInit PROVE RecoveryInv
  OBVIOUS
<1>1. /\ survivor = <<>> /\ half = 0 /\ head = NoHead /\ nxt = NoNext /\ leaves = <<>>
      /\ worker = [l \in LaneIds |-> Worker("idle", l, None)]
      /\ l3Slots = [k \in Halves |-> <<>>] /\ l4Lead = [k \in Halves |-> 0]
      /\ RoundInit
  BY DEF ReplayInit
<1>2. \A l \in LaneIds : worker[l].at = "idle" /\ worker[l].p = l
  BY <1>1 DEF Worker
<1>3. Idling /\ ~Scanning
  BY <1>2, LanesAre DEF Idling, Scanning, Working
<1>4. WorkersInv
  BY <1>1, <1>2, <1>3, OwnShare DEF WorkersInv
<1>5. TakenInv /\ OrderInv
  BY <1>1 DEF RoundInit, TakenInv, Fetched, OrderInv
<1>6. SurvivorInv
  BY <1>1, <1>3 DEF SurvivorInv
<1>7. TableInv
  BY <1>1, <1>3 DEF TableInv, NoHead, NoNext, RepPos, RepHashes
<1>8. SoughtInv
  BY <1>3 DEF SoughtInv
<1>9. FoundInv
  <2>1. \A k \in Halves : ~(k < half) /\ k # half /\ l3Slots[k] = <<>>
    BY <1>1 DEF Halves
  <2> QED BY <1>1, <2>1 DEF FoundInv
<1>10. LeavesInTreeOrder
  BY <1>1 DEF LeavesInTreeOrder
<1> QED BY <1>4, <1>5, <1>6, <1>7, <1>8, <1>9, <1>10 DEF RecoveryInv

\* However the replay's lanes interleave, and however often the list is found full, the leaves
\* of a survivor come out in the order of its tree; zeros stand only for a half whose bucket
\* the replay could not stage, and that has been counted.
THEOREM LeavesComeInTreeOrder == ReplaySpec => []LeavesInTreeOrder
<1>1. ReplayInit => RoundInv /\ RecoveryInv
  BY RoundStarts, RecoveryStarts DEF ReplayInit
<1>2. RoundInv /\ RecoveryInv /\ [ReplayNext]_<<roundVars, replayVars>> => (RoundInv /\ RecoveryInv)'
  BY ReplayKeeps, RecoveryKeeps
<1>3. RecoveryInv => LeavesInTreeOrder
  BY DEF RecoveryInv
<1> QED BY <1>1, <1>2, <1>3, PTL DEF ReplaySpec
===============================================================================
