------------------------------ MODULE Supervision ------------------------------
(***************************************************************************)
(* Cards that are hung, cards that are held: src/src/miner/watchdog.cpp    *)
(* and src/src/miner/thermal.cpp, as main.cpp wires them to the engines,   *)
(* the statistics and the pause key.                                       *)
(*                                                                         *)
(* The watchdog's thread samples every engine's count of completed solves  *)
(* once per interval and reports a card whose count stood still for Stall, *)
(* unless the rig has no job or the card is paused: by the thermal thread, *)
(* which reads temperatures on an interval of its own, or by the user's    *)
(* key.  What it reads it reads one after the other while all of these run *)
(* on, against one `now` taken after the counts.                           *)
(*                                                                         *)
(* A read or write of what threads share is one step.  Time is counted in  *)
(* ticks; of a count the model keeps whether it moved.                     *)
(***************************************************************************)
EXTENDS Integers

CONSTANTS
  D,         \* number of mining devices
  Stall,     \* Watchdog::stall_
  Interval,  \* of the watchdog
  StopC,     \* --tstop; 0: cards are never paused for heat
  StartC,    \* --tstart; 0: a card paused for heat stays so
  MaxTemp,   \* bound: temperatures are 1 .. MaxTemp
  SolveTime, \* bound: a healthy card's longest step (a solve, a wake-up)
  Late,      \* bound: how late the watchdog may wake up
  PollTime   \* bound: how long a poll takes up to `now`, and from there with a script

ASSUME SupervisionAssumption ==
  /\ D \in Nat \ {0}
  /\ StopC \in Nat /\ StartC \in Nat /\ MaxTemp \in Nat \ {0}
  /\ SolveTime \in Nat \ {0}
  /\ Interval \in Nat \ {0}
  /\ Late \in Nat /\ PollTime \in Nat
  /\ Stall \in Nat
  /\ Stall > 2 * (Interval + Late) + 7 * PollTime + 3 * SolveTime

Cards == 1 .. D

VARIABLES
  \* The pool and the engines.
  job,        \* what the pool sent last: last_job_id is set once this is not "none"
  eng,        \* what each worker does
  age,        \* for how long its present step has been going on
  ahead,      \* a solve was completed since the counts were last sampled
  \* The reasons to hold a card.
  temp,       \* what the card's sensor says; 0: it does not answer
  paused,     \* Thermal::paused_
  userPaused, \* main.cpp's user_paused
  tat,        \* the device Thermal::poll() looks at next
  \* The watchdog.
  action,     \* --watchdog
  phase,
  wake,       \* time since it went to sleep
  lag,        \* time since poll()'s `now`, or before that since the counts
  sampled,    \* c[i] != last_count
  active,     \* what mining() said
  at,         \* poll()'s i
  seen, hung, \* DevState
  still,      \* time since last_progress
  exited      \* exit(42)

\* History: since the watchdog last saw the count move the card was stuck, had no job
\* it could mine, or was resumed and held again in an instant.
VARIABLE explained

workerVars == <<job, eng, age>>
holdVars == <<temp, paused, userPaused, tat>>
pollVars == <<phase, wake, lag, sampled, active, at>>
stateVars == <<seen, hung, still>>
watchVars == <<workerVars, ahead, holdVars, action, pollVars, stateVars, exited, explained>>

Oldest == Stall + PollTime  \* ages are counted no further

WatchTypeOK ==
  /\ job \in {"none", "usable", "unusable"}
  /\ eng \in [Cards -> {"idle", "solve", "held", "stuck"}]
  /\ age \in [Cards -> 0 .. SolveTime]
  /\ ahead \in [Cards -> BOOLEAN]
  /\ temp \in [Cards -> 0 .. MaxTemp]
  /\ paused \in [Cards -> BOOLEAN]
  /\ userPaused \in BOOLEAN
  /\ tat \in Cards
  /\ action \in {"exit", "script", "off"}
  /\ phase \in {"sleep", "now", "mining", "check", "script"}
  /\ wake \in 0 .. Interval + Late
  /\ lag \in 0 .. PollTime
  /\ sampled \in [Cards -> BOOLEAN]
  /\ active \in BOOLEAN
  /\ at \in Cards
  /\ seen \in [Cards -> BOOLEAN]
  /\ hung \in [Cards -> BOOLEAN]
  /\ still \in [Cards -> 0 .. Oldest]
  /\ exited \in BOOLEAN
  /\ explained \in [Cards -> BOOLEAN]

WatchInit ==
  /\ job = "none"
  /\ eng = [d \in Cards |-> "idle"]
  /\ age = [d \in Cards |-> 0]
  /\ ahead = [d \in Cards |-> FALSE]
  /\ temp \in [Cards -> 1 .. MaxTemp]
  /\ paused = [d \in Cards |-> FALSE] /\ userPaused = FALSE /\ tat = 1
  /\ action \in {"exit", "script", "off"}
  /\ phase = "sleep" /\ wake = 0 /\ lag = 0
  /\ sampled = [d \in Cards |-> FALSE] /\ active = FALSE /\ at = 1
  /\ seen = [d \in Cards |-> FALSE] /\ hung = [d \in Cards |-> FALSE]
  /\ still = [d \in Cards |-> 0]
  /\ exited = FALSE
  /\ explained = [d \in Cards |-> FALSE]
-----------------------------------------------------------------------------
(* The engines, as far as their counts go (see Engine).                      *)

\* Engine::paused, Watchdog::device_paused.
Paused(d) == userPaused \/ paused[d]

Does(d, what) ==
  /\ eng' = [eng EXCEPT ![d] = what]
  /\ age' = [age EXCEPT ![d] = 0]

\* A job the engine cannot decode is taken and leaves it without work.
Starved(d) == job = "unusable"

\* What the worker turns to between two solves.
Turns(d) ==
  Does(d, IF job = "unusable" THEN "idle" ELSE IF Paused(d) THEN "held" ELSE "solve")

\* on_job: a job whose input decodes, or one whose input does not.
PoolSends(kind) ==
  /\ job' = kind
  /\ explained' = [d \in Cards |-> explained[d] \/ kind = "unusable"]
  /\ UNCHANGED <<eng, age, ahead, holdVars, action, pollVars, stateVars, exited>>

\* A worker without work, or held, looks again.
Resumes(d) ==
  /\ \/ eng[d] = "idle" /\ job = "usable"
     \/ eng[d] = "held" /\ (job = "unusable" \/ ~Paused(d))
  /\ Turns(d)
  /\ UNCHANGED <<job, ahead, holdVars, action, pollVars, stateVars, exited, explained>>

\* record_attempt().  A card that was stuck may come back by itself.
Completes(d) ==
  /\ eng[d] \in {"solve", "stuck"}
  /\ ahead' = [ahead EXCEPT ![d] = TRUE]
  /\ Turns(d)
  /\ UNCHANGED <<job, holdVars, action, pollVars, stateVars, exited, explained>>

\* A solver that threw: back to the head of the loop after the back-off, uncounted.
Retries(d) ==
  /\ eng[d] = "stuck"
  /\ Turns(d)
  /\ UNCHANGED <<job, ahead, holdVars, action, pollVars, stateVars, exited, explained>>

\* A solve that does not end, or one that throws.
GetsStuck(d) ==
  /\ eng[d] = "solve"
  /\ Does(d, "stuck")
  /\ explained' = [explained EXCEPT ![d] = TRUE]
  /\ UNCHANGED <<job, ahead, holdVars, action, pollVars, stateVars, exited>>
-----------------------------------------------------------------------------
(* Pauses.  An operator whose name ends in _Fault and a word is the one      *)
(* below it with a plausible mistake; no action uses it.                     *)

\* A step that lifts and sets the pause again before the worker got to its next
\* solve: no clock of the code can tell that from a hang.
Flickers(d) == eng[d] = "held" /\ ~Paused(d) /\ Paused(d)'

\* The p and r keys.
PressKey ==
  /\ userPaused' = ~userPaused
  /\ UNCHANGED <<workerVars, ahead, temp, paused, tat, action, pollVars, stateVars,
                 exited>>
  /\ explained' = [d \in Cards |-> explained[d] \/ Flickers(d)]

TooHot_FaultAbove(d) == StopC # 0 /\ temp[d] > StopC

TooHot(d) == StopC # 0 /\ temp[d] >= StopC

CoolAgain_FaultBelowStop(d) == StartC # 0 /\ temp[d] < StopC

CoolAgain(d) == StartC # 0 /\ temp[d] <= StartC

\* Thermal::poll(), one device: no reading changes nothing.
ThermalCheck ==
  /\ paused' = IF temp[tat] # 0
               THEN [paused EXCEPT ![tat] = IF @ THEN ~CoolAgain(tat) ELSE TooHot(tat)]
               ELSE paused
  /\ tat' = IF tat = D THEN 1 ELSE tat + 1
  /\ UNCHANGED <<workerVars, ahead, temp, userPaused, action, pollVars, stateVars,
                 exited>>
  /\ explained' = [explained EXCEPT ![tat] = @ \/ Flickers(tat)]

\* The card heats and cools; the driver stops answering, and answers again.
Weather(d) ==
  /\ \E t \in 0 .. MaxTemp : temp' = [temp EXCEPT ![d] = t]
  /\ UNCHANGED <<workerVars, ahead, paused, userPaused, tat, action, pollVars,
                 stateVars, exited, explained>>
-----------------------------------------------------------------------------
(* The watchdog's thread: Watchdog::poll().                                  *)

SampleCounts ==
  /\ phase = "sleep"
  /\ wake >= Interval
  /\ sampled' = ahead
  /\ ahead' = [d \in Cards |-> FALSE]
  /\ phase' = "now"
  /\ UNCHANGED <<workerVars, holdVars, action, wake, lag, active, at, stateVars, exited,
                 explained>>

\* `now` is read once, after the counts and before all that is judged by it.
ReadNow ==
  /\ phase = "now"
  /\ lag' = 0
  /\ phase' = "mining"
  /\ UNCHANGED <<workerVars, ahead, holdVars, action, wake, sampled, active, at,
                 stateVars, exited, explained>>

MiningExpected_FaultNever == FALSE

\* The user's pool has sent a job, ever.
MiningExpected == job # "none"

AskMining ==
  /\ phase = "mining"
  /\ active' = MiningExpected
  /\ phase' = "check" /\ at' = 1
  /\ UNCHANGED <<workerVars, ahead, holdVars, action, wake, lag, sampled, stateVars,
                 exited, explained>>

\* On to the next device, or back to sleep.
NextDevice ==
  IF at < D
  THEN at' = at + 1 /\ phase' = "check" /\ UNCHANGED <<wake, lag, sampled>>
  ELSE /\ at' = 1 /\ phase' = "sleep" /\ wake' = 0 /\ lag' = 0
       /\ sampled' = [d \in Cards |-> FALSE]

\* last_progress = now.
ProgressNow(d) == still' = [still EXCEPT ![d] = lag]

\* The first sighting of a device, or one that got on with its work.
SeesProgress ==
  /\ phase = "check"
  /\ ~seen[at] \/ sampled[at]
  /\ seen' = [seen EXCEPT ![at] = TRUE]
  /\ hung' = [hung EXCEPT ![at] = FALSE]
  /\ ProgressNow(at)
  /\ explained' = [explained EXCEPT ![at] = eng[at] = "stuck" \/ job = "unusable"]
  /\ NextDevice
  /\ UNCHANGED <<workerVars, ahead, holdVars, action, active, exited>>

StandsStill == phase = "check" /\ seen[at] /\ ~sampled[at]

Excused_FaultPauseForgotten(d) == ~active

\* The clock only runs while the miner expects work of this card.
Excused(d) == ~active \/ Paused(d)

HoldsClock ==
  /\ StandsStill
  /\ Excused(at)
  /\ ProgressNow(at)
  /\ NextDevice
  /\ UNCHANGED <<workerVars, ahead, holdVars, action, active, seen, hung, exited,
                 explained>>

Overdue(d) == ~hung[d] /\ still[d] - lag >= Stall

Waits ==
  /\ StandsStill
  /\ ~Excused(at) /\ ~Overdue(at)
  /\ NextDevice
  /\ UNCHANGED <<workerVars, ahead, holdVars, action, active, stateVars, exited,
                 explained>>

\* on_hung: exit(42), run the script, or say so.
ReportsHung ==
  /\ StandsStill
  /\ ~Excused(at) /\ Overdue(at)
  /\ hung' = [hung EXCEPT ![at] = TRUE]
  /\ \/ action = "exit" /\ exited' = TRUE /\ UNCHANGED pollVars
     \/ action = "script" /\ phase' = "script" /\ UNCHANGED <<wake, lag, sampled, active,
                                                           at, exited>>
     \/ action = "off" /\ NextDevice /\ UNCHANGED <<active, exited>>
  /\ UNCHANGED <<workerVars, ahead, holdVars, action, seen, still, explained>>

ScriptEnds ==
  /\ phase = "script"
  /\ NextDevice
  /\ UNCHANGED <<workerVars, ahead, holdVars, action, active, stateVars, exited,
                 explained>>
-----------------------------------------------------------------------------
(* Time.                                                                     *)

\* A healthy worker is on its way somewhere.
Busy(d) ==
  \/ eng[d] = "solve"
  \/ eng[d] = "idle" /\ job = "usable"
  \/ eng[d] = "held" /\ (job = "unusable" \/ ~Paused(d))

Older(n, most) == IF n < most THEN n + 1 ELSE n

\* Time passes, up to what is due by now.
Tick ==
  /\ \A d \in Cards : Busy(d) => age[d] < SolveTime
  /\ IF phase = "sleep" THEN wake < Interval + Late ELSE lag < PollTime
  /\ age' = [d \in Cards |-> IF Busy(d) THEN age[d] + 1 ELSE 0]
  /\ wake' = IF phase = "sleep" THEN wake + 1 ELSE wake
  /\ lag' = IF phase = "sleep" THEN lag ELSE lag + 1
  /\ still' = [d \in Cards |-> IF seen[d] THEN Older(still[d], Oldest) ELSE 0]
  /\ UNCHANGED <<job, eng, ahead, holdVars, action, phase, sampled, active, at, seen, hung,
                 exited, explained>>
-----------------------------------------------------------------------------
Poll ==
  \/ SampleCounts \/ ReadNow \/ AskMining \/ SeesProgress \/ HoldsClock \/ Waits
  \/ ReportsHung \/ ScriptEnds

WatchNext ==
  /\ ~exited
  /\ \/ \E kind \in {"usable", "unusable"} : PoolSends(kind)
     \/ \E d \in Cards :
          Resumes(d) \/ Completes(d) \/ GetsStuck(d) \/ Retries(d) \/ Weather(d)
     \/ PressKey
     \/ ThermalCheck
     \/ Poll
     \/ Tick

WatchSpec == WatchInit /\ [][WatchNext]_watchVars

\* The two threads and the workers are scheduled and time passes; a card that is
\* stuck need not come back.
FairSpec ==
  /\ WatchSpec
  /\ WF_watchVars(~exited /\ Poll)
  /\ WF_watchVars(~exited /\ ThermalCheck)
  /\ \A d \in Cards :
       WF_watchVars(~exited /\ (Resumes(d) \/ (eng[d] = "solve" /\ Completes(d))))
  /\ WF_watchVars(~exited /\ Tick)
-----------------------------------------------------------------------------
(* Properties.                                                               *)

\* A card is only reported when it was stuck, or had no job it could mine, at some
\* time since its count was last seen to move: never for having been paused, resumed
\* a moment ago, slow to start, or busy while another card's script ran
\* (watchdog.h: "a watchdog that reboots healthy rigs").
NoHealthyCardReported ==
  [][\A d \in Cards : ~hung[d] /\ hung'[d] => explained[d]]_watchVars

\* A card that has work, is not paused and yet completes nothing any more, whether one
\* solve hangs or each one throws, is reported.
StuckCardReported ==
  \A d \in Cards :
    <>[](eng[d] \in {"solve", "stuck"} /\ ~Paused(d) /\ ~ahead[d]) => <>(hung[d] \/ exited)

\* A card that is paused for heat, or stays at or above --tstop until it is, rests for
\* good as long as no reading is down at --tstart: between the two limits, or while its
\* sensor says nothing, it is not started again, by the key or a new job either.
HotCardRests ==
  \A d \in Cards :
    /\ <>[](temp[d] \notin 1 .. StartC /\ eng[d] # "stuck" /\ ~exited)
    /\ []<>paused[d] \/ <>[](StopC \in 1 .. temp[d])
    => <>[](eng[d] \in {"held", "idle"})
=============================================================================
