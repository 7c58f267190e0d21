------------------------------- MODULE Overclock -------------------------------
(***************************************************************************)
(* Settings that must not outlive the process: src/src/gpu/overclock.cpp   *)
(* and the terminal mode of src/src/ui/keys.cpp.                           *)
(*                                                                         *)
(* The main thread writes the requested knobs to the cards, records each   *)
(* in atomics once it has landed, and installs an atexit hook and signal   *)
(* handlers that put everything back.  The way out is taken by a thread    *)
(* that calls exit() (main after a measuring mode, or the watchdog), by a  *)
(* SIGINT or a SIGTERM, or by several of these at once: handlers run on    *)
(* any thread, between any two steps of the others, and whoever is through *)
(* first ends the process.  An atomic access or a call to the driver is    *)
(* one step.                                                               *)
(*                                                                         *)
(* A setting is a knob of a card.  Of its value the model keeps how many   *)
(* units of it (the fans, for --fan; one otherwise) are off stock.         *)
(***************************************************************************)
EXTENDS Integers

CONSTANTS
  D,        \* number of selected cards
  K,        \* knobs asked for, numbered in oc_apply's order; the last is --fan
  Fans,     \* fans of a card
  Restores  \* g_restore_enabled: FALSE under --no-oc-reset

ASSUME OverclockAssumption ==
  /\ D \in Nat \ {0}
  /\ K \in Nat \ {0}
  /\ Fans \in Nat \ {0}
  /\ Restores \in BOOLEAN

Settings == [card : 1 .. D, knob : 1 .. K]
NoSetting == [none |-> TRUE]
Units(s) == IF s.knob = K THEN Fans ELSE 1

Signals == {"INT", "TERM"}
Leavers == Signals \cup {"exit"}  \* who may be putting settings back

VARIABLES
  \* The machine.
  card,      \* units of each setting that are off stock
  raw,       \* the terminal is in single-key mode
  handler,   \* each signal's disposition
  dead,      \* the process has ended
  \* The globals of overclock.cpp and keys.cpp.
  applied,   \* g_..._applied, g_..._locked, g_prev_pl_w # 0
  saved,     \* g_fan_count, g_prev_...: what a restore will put back
  atexit,    \* g_atexit_installed
  rawActive, \* g_raw_active
  prev,      \* g_prev_int, g_prev_term
  \* The threads.
  pc,        \* the main thread
  cur,       \* the setting oc_apply is at
  done,      \* units of it written
  lpc,       \* each leaver
  at,        \* the setting it is at
  left       \* units it has still to put back

\* History: somebody began to leave before main had recorded everything.
VARIABLE early

mainVars == <<pc, cur, done>>
leaverVars == <<lpc, at, left, early>>
ocVars == <<applied, saved, atexit>>
keysVars == <<raw, rawActive, prev>>
vars == <<card, raw, handler, dead, applied, saved, atexit, rawActive, prev,
          pc, cur, done, lpc, at, left, early>>

MainPCs == {"write", "save", "raise", "hooks", "choose", "raw", "rawActive", "INT",
            "prevINT", "TERM", "prevTERM", "mining", "measuring", "returned"}
SettledPCs == {"mining", "measuring", "returned"}  \* everything is recorded
LeaverPCs == {"off", "terminal", "cook", "chain", "visit", "count", "undo", "die"}
Handlers == {"default", "restore", "keys", "stop"}

\* Where main is between std::signal(sig, ...) and the assignment of its answer.
NotingPrev == [INT |-> "prevINT", TERM |-> "prevTERM"]

TypeOK ==
  /\ card \in [Settings -> 0 .. Fans]
  /\ raw \in BOOLEAN
  /\ handler \in [Signals -> Handlers]
  /\ dead \in BOOLEAN
  /\ applied \in [Settings -> BOOLEAN]
  /\ saved \in [Settings -> 0 .. Fans]
  /\ atexit \in BOOLEAN
  /\ rawActive \in BOOLEAN
  /\ prev \in [Signals -> Handlers]
  /\ pc \in MainPCs
  /\ cur \in Settings \cup {NoSetting}
  /\ done \in 0 .. Fans
  /\ lpc \in [Leavers -> LeaverPCs]
  /\ at \in [Leavers -> Settings \cup {NoSetting}]
  /\ left \in [Leavers -> 0 .. Fans]
  /\ early \in BOOLEAN

\* oc_apply's order: card after card, each card's knobs upwards.
FirstApplied == [card |-> 1, knob |-> 1]

NextApplied(s) ==
  IF s.knob < K THEN [s EXCEPT !.knob = @ + 1]
  ELSE IF s.card < D THEN [card |-> s.card + 1, knob |-> 1] ELSE NoSetting

\* oc_restore's order: card after card, each card's knobs downwards.
FirstRestored_FaultPowerLimit == [card |-> 1, knob |-> 1]

FirstRestored == [card |-> 1, knob |-> K]

NextRestored(s) ==
  IF s.knob > 1 THEN [s EXCEPT !.knob = @ - 1]
  ELSE IF s.card < D THEN [card |-> s.card + 1, knob |-> K] ELSE NoSetting

Init ==
  /\ card = [s \in Settings |-> 0]
  /\ raw = FALSE
  /\ handler = [sig \in Signals |-> "default"]
  /\ dead = FALSE
  /\ applied = [s \in Settings |-> FALSE]
  /\ saved = [s \in Settings |-> 0]
  /\ atexit = FALSE
  /\ rawActive = FALSE
  /\ prev = [sig \in Signals |-> "default"]
  /\ pc = "write"
  /\ cur = FirstApplied
  /\ done = 0
  /\ lpc = [l \in Leavers |-> "off"]
  /\ at = [l \in Leavers |-> NoSetting]
  /\ left = [l \in Leavers |-> 0]
  /\ early = FALSE
-----------------------------------------------------------------------------
(* The main thread: oc_apply.  An operator whose name ends in _Fault and a word *)
(* is the one below it with a plausible mistake; no action uses it.          *)

Goto(next) == pc' = next

\* On to the next setting, or out of oc_apply.
NextSetting ==
  /\ cur' = NextApplied(cur)
  /\ done' = 0
  /\ Goto(IF NextApplied(cur) = NoSetting THEN "choose" ELSE "write")

\* One driver call; --fan makes one per fan before anything is recorded.
Write ==
  /\ pc = "write"
  /\ card' = [card EXCEPT ![cur] = @ + 1]
  /\ done' = done + 1
  /\ Goto(IF done + 1 < Units(cur) THEN "write" ELSE "save")
  /\ UNCHANGED <<handler, dead, ocVars, keysVars, cur, leaverVars>>

\* Not asked for on this card, not supported, or refused by the driver: nothing is
\* recorded unless some of the fans were set already.
NotWritten ==
  /\ pc = "write"
  /\ IF done = 0 THEN NextSetting ELSE Goto("save") /\ UNCHANGED <<cur, done>>
  /\ UNCHANGED <<card, handler, dead, ocVars, keysVars, leaverVars>>

Saved_FaultFirstOnly == 1

\* How many units a restore has to put back: those that took.
Saved == done

Save ==
  /\ pc = "save"
  /\ saved' = [saved EXCEPT ![cur] = Saved]
  /\ Goto("raise")
  /\ UNCHANGED <<card, handler, dead, applied, atexit, keysVars, cur, done, leaverVars>>

Raise ==
  /\ pc = "raise"
  /\ applied' = [applied EXCEPT ![cur] = TRUE]
  /\ Goto("hooks")
  /\ UNCHANGED <<card, handler, dead, saved, atexit, keysVars, cur, done, leaverVars>>

\* oc_install_restore_hooks().
Hooks ==
  /\ pc = "hooks"
  /\ atexit' = TRUE
  /\ handler' = [sig \in Signals |-> "restore"]
  /\ NextSetting
  /\ UNCHANGED <<card, dead, applied, saved, keysVars, leaverVars>>
-----------------------------------------------------------------------------
(* The main thread: after oc_apply.                                        *)

\* A mode that measures borrows SIGINT for a graceful stop.
Measure ==
  /\ pc = "choose"
  /\ handler' = [handler EXCEPT !["INT"] = "stop"]
  /\ Goto("measuring")
  /\ UNCHANGED <<card, dead, ocVars, keysVars, cur, done, leaverVars>>

Pending_FaultNever == FALSE

\* oc_has_pending_restore()
Pending == Restores /\ \E s \in Settings : applied[s]

\* The measurement is over or stopped: ~MeasureSignals, then main returns.
HandBack ==
  /\ pc = "measuring"
  /\ IF Pending
     THEN /\ atexit' = TRUE
          /\ handler' = [sig \in Signals |-> "restore"]
     ELSE /\ handler' = [handler EXCEPT !["INT"] = "default"]
          /\ UNCHANGED atexit
  /\ Goto("returned")
  /\ UNCHANGED <<card, dead, applied, saved, keysVars, cur, done, leaverVars>>

\* Mining, with the console keys if stdin is a terminal.
Mine ==
  /\ pc = "choose"
  /\ Goto("mining") \/ Goto("raw")
  /\ UNCHANGED <<card, handler, dead, ocVars, keysVars, cur, done, leaverVars>>

EnterRaw ==
  /\ pc = "raw"
  /\ raw' = TRUE
  /\ Goto("rawActive")
  /\ UNCHANGED <<card, handler, dead, ocVars, rawActive, prev, cur, done, leaverVars>>

NoteRaw ==
  /\ pc = "rawActive"
  /\ rawActive' = TRUE
  /\ Goto("INT")
  /\ UNCHANGED <<card, handler, dead, ocVars, raw, prev, cur, done, leaverVars>>

\* std::signal() puts the key reader's handler in place; what it answers, the
\* handler replaced, reaches g_prev_... in a step of its own.
InstallKeys(sig) ==
  /\ pc = sig
  /\ handler' = [handler EXCEPT ![sig] = "keys"]
  /\ Goto(NotingPrev[sig])
  /\ UNCHANGED <<card, dead, ocVars, keysVars, cur, done, leaverVars>>

NotePrev(sig) ==
  /\ pc = NotingPrev[sig]
  /\ prev' = [prev EXCEPT ![sig] = IF atexit THEN "restore" ELSE "default"]
  /\ Goto(IF sig = "INT" THEN "TERM" ELSE "mining")
  /\ UNCHANGED <<card, handler, dead, ocVars, raw, rawActive, cur, done, leaverVars>>

Main ==
  \/ Write \/ NotWritten \/ Save \/ Raise \/ Hooks
  \/ Measure \/ HandBack \/ Mine \/ EnterRaw \/ NoteRaw
  \/ \E sig \in Signals : InstallKeys(sig) \/ NotePrev(sig)
-----------------------------------------------------------------------------
(* The ways out.                                                           *)

Leave(l, next) == lpc' = [lpc EXCEPT ![l] = next]

\* oc_restore() is called.
EnterRestore(l) ==
  IF Restores
  THEN at' = [at EXCEPT ![l] = FirstRestored] /\ Leave(l, "visit")
  ELSE UNCHANGED at /\ Leave(l, "die")

\* exit() runs restore_terminal first (it is registered last), then oc_restore.
\* It is called by main when a measuring mode is over, or by the watchdog.
ExitBegins ==
  /\ pc \in {"mining", "returned"}
  /\ lpc["exit"] = "off"
  /\ Leave("exit", "terminal")
  /\ UNCHANGED <<card, handler, dead, ocVars, keysVars, mainVars, at, left, early>>

\* A signal arrives, each once.  By default it kills at once; the borrowed SIGINT
\* only asks for a stop.
SignalKills(sig) ==
  /\ lpc[sig] = "off"
  /\ handler[sig] = "default"
  /\ dead' = TRUE
  /\ UNCHANGED <<card, handler, ocVars, keysVars, mainVars, leaverVars>>

HandlerBegins(sig) ==
  /\ lpc[sig] = "off"
  /\ \/ handler[sig] = "keys" /\ Leave(sig, "terminal") /\ UNCHANGED at
     \/ handler[sig] = "restore" /\ EnterRestore(sig)
  /\ early' = (early \/ pc \notin SettledPCs)
  /\ UNCHANGED <<card, handler, dead, ocVars, keysVars, mainVars, left>>

\* restore_terminal(): one exchange of the flag, then the call.
TakeTerminal(l) ==
  /\ lpc[l] = "terminal"
  /\ rawActive' = FALSE
  /\ Leave(l, IF rawActive THEN "cook" ELSE "chain")
  /\ UNCHANGED <<card, handler, dead, ocVars, raw, prev, mainVars, at, left, early>>

Cook(l) ==
  /\ lpc[l] = "cook"
  /\ raw' = FALSE
  /\ Leave(l, "chain")
  /\ UNCHANGED <<card, handler, dead, ocVars, rawActive, prev, mainVars, at, left, early>>

\* The next exit hook, or the handler the key reader replaced.
Chain(l) ==
  /\ lpc[l] = "chain"
  /\ IF (IF l = "exit" THEN atexit ELSE prev[l] = "restore")
     THEN EnterRestore(l) ELSE UNCHANGED at /\ Leave(l, "die")
  /\ UNCHANGED <<card, handler, dead, ocVars, keysVars, mainVars, left, early>>

\* exchange(false) of a setting's flag.
Taken(l) == [applied EXCEPT ![at[l]] = FALSE]

Advance(l) ==
  /\ at' = [at EXCEPT ![l] = NextRestored(@)]
  /\ Leave(l, IF NextRestored(at[l]) = NoSetting THEN "die" ELSE "visit")

Visit(l) ==
  /\ lpc[l] = "visit"
  /\ applied' = Taken(l)
  /\ IF applied[at[l]] THEN Leave(l, "count") /\ UNCHANGED at ELSE Advance(l)
  /\ UNCHANGED <<card, handler, dead, saved, atexit, keysVars, mainVars, left, early>>

Count(l) ==
  /\ lpc[l] = "count"
  /\ left' = [left EXCEPT ![l] = saved[at[l]]]
  /\ saved' = [saved EXCEPT ![at[l]] = 0]
  /\ Leave(l, "undo")
  /\ UNCHANGED <<card, handler, dead, applied, atexit, keysVars, mainVars, at, early>>

\* One driver call; the driver takes back what it took.
Undo(l) ==
  /\ lpc[l] = "undo"
  /\ left[l] > 0
  /\ card' = [card EXCEPT ![at[l]] = @ - 1]
  /\ left' = [left EXCEPT ![l] = @ - 1]
  /\ UNCHANGED <<handler, dead, ocVars, keysVars, mainVars, lpc, at, early>>

Undone(l) ==
  /\ lpc[l] = "undo"
  /\ left[l] = 0
  /\ Advance(l)
  /\ UNCHANGED <<card, handler, dead, ocVars, keysVars, mainVars, left, early>>

\* exit() completes, or the handler re-raises under the default disposition.
Die(l) ==
  /\ lpc[l] = "die"
  /\ dead' = TRUE
  /\ UNCHANGED <<card, handler, ocVars, keysVars, mainVars, leaverVars>>

Leaver(l) ==
  \/ TakeTerminal(l) \/ Cook(l) \/ Chain(l) \/ Visit(l) \/ Count(l)
  \/ Undo(l) \/ Undone(l) \/ Die(l)

Next ==
  /\ ~dead
  /\ \/ Main
     \/ ExitBegins
     \/ \E sig \in Signals : SignalKills(sig) \/ HandlerBegins(sig)
     \/ \E l \in Leavers : Leaver(l)

Spec == Init /\ [][Next]_vars

-----------------------------------------------------------------------------
(* Properties.                                                             *)

Changed == {s \in Settings : card[s] > 0}

\* Main is between the driver call and the flag that records it.
Recording(s) == cur = s /\ pc \in {"write", "save", "raise"}

\* l has taken the flag of s and has not put everything back.
Holds(l, s) == at[l] = s /\ lpc[l] \in {"count", "undo"}

\* A setting that is off stock is on somebody's list at every moment: main is just
\* recording it, its flag is up, or one leaver is putting it back.  Only the end of
\* the process can lose it (oc_restore).
NothingForgotten ==
  \A s \in Changed : Recording(s) \/ applied[s] \/ \E l \in Leavers : Holds(l, s)

\* A setting is put back by one leaver only, and by exactly as many driver calls as
\* took: the exchange makes atexit and both handlers safe to overlap.
PutBackOnce ==
  \A l \in Leavers :
    lpc[l] = "undo" =>
      /\ left[l] = card[at[l]]
      /\ \A m \in Leavers \ {l} : ~Holds(m, at[l])

\* One way out taken alone, after the settings were recorded, leaves every card at
\* stock and the terminal cooked, whichever it is.
AloneRestoresAll ==
  dead /\ Restores /\ ~early
    /\ (\E l \in Leavers : lpc[l] = "die" /\ \A m \in Leavers \ {l} : lpc[m] = "off")
    => Changed = {} /\ ~raw

\* On a card that one leaver alone restores, the power limit comes back last: while
\* it is being put back no other knob is off stock (comment of oc_restore).
PowerLimitLast ==
  \A l \in Leavers :
    lpc[l] = "undo" /\ at[l].knob = 1 /\ ~early
      /\ (\A m \in Leavers \ {l} : lpc[m] = "off")
    => \A s \in Changed : s.card = at[l].card => s.knob = 1

\* The borrowed SIGINT is never handed back to the default disposition while a
\* setting waits to be put back (MeasureSignals): past the first hooks no signal
\* kills the process outright.
SignalsStayCovered ==
  (\E s \in Settings : applied[s]) /\ Restores /\ pc # "hooks"
    => \A sig \in Signals : handler[sig] # "default"

=============================================================================
