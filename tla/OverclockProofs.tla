--------------------------- MODULE OverclockProofs ---------------------------
(***************************************************************************)
(* Theorems about Overclock, for any number of cards, knobs and fans.      *)
(*                                                                         *)
(* The inductive invariant is a ledger: every setting is in exactly one of *)
(* four places, and the place knows how many of its units are off stock.   *)
(***************************************************************************)
EXTENDS Overclock, TLAPS

Before(s, t) ==
  \/ s.card < t.card
  \/ s.card = t.card /\ s.knob < t.knob

ApplyPCs == {"write", "save", "raise", "hooks"}
Holding == {"count", "undo"}

\* oc_apply has raised this setting's flag, or has gone past it.
Past(s) ==
  \/ cur = NoSetting
  \/ Before(s, cur)
  \/ s = cur /\ pc = "hooks"

Positions ==
  /\ cur = NoSetting <=> pc \notin ApplyPCs
  /\ \A l \in Leavers : lpc[l] \in {"visit", "count", "undo"} => at[l] \in Settings

\* A flag that is up, or was taken, was raised by oc_apply.
Raised ==
  /\ \A s \in Settings : applied[s] => Past(s)
  /\ \A l \in Leavers : lpc[l] \in Holding => Past(at[l])

\* Whoever is at a setting knows how much of it there is to put back.
Counted ==
  /\ pc = "write" => card[cur] = done /\ done < Units(cur)
  /\ pc = "save" => card[cur] = done
  /\ pc = "raise" => saved[cur] = card[cur]
  /\ \A s \in Settings : applied[s] => saved[s] = card[s]
  /\ \A l \in Leavers : lpc[l] = "count" => saved[at[l]] = card[at[l]]
  /\ \A l \in Leavers : lpc[l] = "undo" => left[l] = card[at[l]]

\* No two of them are at the same setting.
Exclusive ==
  /\ \A l \in Leavers : lpc[l] \in Holding => ~applied[at[l]]
  /\ \A l, m \in Leavers : lpc[l] \in Holding /\ lpc[m] \in Holding /\ at[l] = at[m] => l = m

Ledger == Positions /\ Raised /\ Counted /\ Exclusive /\ NothingForgotten

(* Facts about the two orders. *)

LEMMA NoSettingIsNone == NoSetting \notin Settings
<1> SUFFICES ASSUME NoSetting \in Settings PROVE FALSE
  OBVIOUS
<1>1. DOMAIN NoSetting = {"card", "knob"}
  BY DEF Settings
<1>2. DOMAIN NoSetting = {"none"}
  BY DEF NoSetting
<1> QED BY <1>1, <1>2

LEMMA SettingsByField ==
  \A s, t \in Settings : s.card = t.card /\ s.knob = t.knob => s = t
BY DEF Settings

LEMMA FirstIsASetting == FirstApplied \in Settings /\ FirstRestored \in Settings
BY OverclockAssumption DEF OverclockAssumption, FirstApplied, FirstRestored, Settings

\* The successor in oc_apply's order comes right after.
LEMMA NextAppliedIsNext ==
  ASSUME NEW s \in Settings
  PROVE  /\ NextApplied(s) \in Settings \cup {NoSetting}
         /\ NextApplied(s) # NoSetting =>
              \A t \in Settings : Before(t, NextApplied(s)) <=> Before(t, s) \/ t = s
<1> USE OverclockAssumption DEF OverclockAssumption
<1>1. s.card \in 1 .. D /\ s.knob \in 1 .. K
  BY DEF Settings
<1>2. CASE s.knob < K
  <2>1. NextApplied(s) = [card |-> s.card, knob |-> s.knob + 1]
    BY <1>2 DEF NextApplied, Settings
  <2>2. NextApplied(s) \in Settings
    BY <1>1, <1>2, <2>1 DEF Settings
  <2>3. ASSUME NEW t \in Settings
        PROVE  Before(t, NextApplied(s)) <=> Before(t, s) \/ t = s
    <3>1. t.card \in 1 .. D /\ t.knob \in 1 .. K
      BY DEF Settings
    <3>2. NextApplied(s).card = s.card /\ NextApplied(s).knob = s.knob + 1
      BY <2>1
    <3>3. t = s <=> t.card = s.card /\ t.knob = s.knob
      BY SettingsByField
    <3> QED BY <1>1, <3>1, <3>2, <3>3 DEF Before
  <2> QED BY <2>2, <2>3
<1>3. CASE ~(s.knob < K) /\ s.card < D
  <2>1. NextApplied(s) = [card |-> s.card + 1, knob |-> 1]
    BY <1>3 DEF NextApplied
  <2>2. NextApplied(s) \in Settings
    BY <1>1, <1>3, <2>1 DEF Settings
  <2>3. ASSUME NEW t \in Settings
        PROVE  Before(t, NextApplied(s)) <=> Before(t, s) \/ t = s
    <3>1. t.card \in 1 .. D /\ t.knob \in 1 .. K
      BY DEF Settings
    <3>2. NextApplied(s).card = s.card + 1 /\ NextApplied(s).knob = 1
      BY <2>1
    <3>3. t = s <=> t.card = s.card /\ t.knob = s.knob
      BY SettingsByField
    <3> QED BY <1>1, <1>3, <3>1, <3>2, <3>3 DEF Before
  <2> QED BY <2>2, <2>3
<1>4. CASE ~(s.knob < K) /\ ~(s.card < D)
  BY <1>4 DEF NextApplied
<1> QED BY <1>2, <1>3, <1>4

LEMMA BeforeIsStrict == \A s \in Settings : ~Before(s, s)
BY OverclockAssumption DEF Before, Settings, OverclockAssumption

LEMMA NextRestoredType ==
  ASSUME NEW s \in Settings PROVE NextRestored(s) \in Settings \cup {NoSetting}
<1> USE OverclockAssumption DEF OverclockAssumption
<1>1. s.card \in 1 .. D /\ s.knob \in 1 .. K
  BY DEF Settings
<1>2. CASE s.knob > 1
  <2>1. NextRestored(s) = [card |-> s.card, knob |-> s.knob - 1]
    BY <1>2 DEF NextRestored, Settings
  <2> QED BY <1>1, <1>2, <2>1 DEF Settings
<1>3. CASE ~(s.knob > 1) /\ s.card < D
  <2>1. NextRestored(s) = [card |-> s.card + 1, knob |-> K]
    BY <1>3 DEF NextRestored
  <2> QED BY <1>1, <1>3, <2>1 DEF Settings
<1>4. CASE ~(s.knob > 1) /\ ~(s.card < D)
  BY <1>4 DEF NextRestored
<1> QED BY <1>2, <1>3, <1>4

(* The invariant holds at the start. *)

LEMMA InitLedger == Init => TypeOK /\ Ledger
<1> SUFFICES ASSUME Init PROVE TypeOK /\ Ledger
  OBVIOUS
<1> USE OverclockAssumption DEF OverclockAssumption
<1>1. FirstApplied \in Settings /\ FirstApplied # NoSetting
  BY FirstIsASetting, NoSettingIsNone
<1>2. TypeOK
  <2>1. 0 \in 0 .. Fans
    OBVIOUS
  <2>2. /\ card \in [Settings -> 0 .. Fans] /\ saved \in [Settings -> 0 .. Fans]
        /\ left \in [Leavers -> 0 .. Fans] /\ applied \in [Settings -> BOOLEAN]
        /\ done \in 0 .. Fans
    BY <2>1 DEF Init
  <2>3. /\ at \in [Leavers -> Settings \cup {NoSetting}]
        /\ cur \in Settings \cup {NoSetting}
        /\ lpc \in [Leavers -> LeaverPCs] /\ pc \in MainPCs
    BY <1>1 DEF Init, MainPCs, LeaverPCs
  <2>4. /\ handler \in [Signals -> Handlers] /\ prev \in [Signals -> Handlers]
        /\ <<raw, dead, atexit, rawActive, early>> \in
             BOOLEAN \X BOOLEAN \X BOOLEAN \X BOOLEAN \X BOOLEAN
    BY DEF Init, Handlers
  <2> QED BY <2>2, <2>3, <2>4 DEF TypeOK
<1>3. Positions /\ Raised /\ Exclusive /\ NothingForgotten
  <2>1. \A l \in Leavers : lpc[l] = "off"
    BY DEF Init
  <2>2. \A t \in Settings : card[t] = 0 /\ ~applied[t]
    BY DEF Init
  <2>3. Positions
    BY <1>1, <2>1 DEF Init, Positions, ApplyPCs
  <2>4. Raised /\ Exclusive
    BY <2>1, <2>2 DEF Raised, Exclusive, Holding
  <2>5. Changed = {}
    BY <2>2 DEF Changed
  <2> QED BY <2>3, <2>4, <2>5 DEF NothingForgotten
<1>4. Counted
  <2>1. 0 < Units(cur)
    BY DEF Units
  <2>2. card[cur] = 0
    BY <1>1 DEF Init
  <2> QED BY <2>1, <2>2 DEF Init, Counted
<1> QED BY <1>2, <1>3, <1>4 DEF Ledger

(* Types. *)

LEMMA NextType == TypeOK /\ Ledger /\ [Next]_vars => TypeOK'
<1> SUFFICES ASSUME TypeOK, Ledger, [Next]_vars PROVE TypeOK'
  OBVIOUS
<1> USE OverclockAssumption DEF OverclockAssumption, TypeOK
<1>1. CASE UNCHANGED vars
  BY <1>1 DEF vars
<1>2. CASE Main
  <2> USE DEF Goto, MainPCs, Handlers, ocVars, keysVars, leaverVars
  <2>1. pc \in ApplyPCs => cur \in Settings
    BY DEF Ledger, Positions
  <2>2. pc \in ApplyPCs => NextApplied(cur) \in Settings \cup {NoSetting}
    BY <2>1, NextAppliedIsNext
  <2>3. CASE Write
    <3>1. card[cur] = done /\ done + 1 \in 0 .. Fans /\ cur \in Settings
      BY <2>1, <2>3 DEF Write, Ledger, Counted, Units, ApplyPCs
    <3> QED BY <2>3, <3>1 DEF Write
  <2>4. CASE NotWritten
    BY <2>2, <2>4 DEF NotWritten, NextSetting, ApplyPCs
  <2>5. CASE Save
    BY <2>5 DEF Save, Saved
  <2>6. CASE Raise
    BY <2>6 DEF Raise
  <2>7. CASE Hooks
    BY <2>2, <2>7 DEF Hooks, NextSetting, ApplyPCs
  <2>8. CASE Measure \/ HandBack
    BY <2>8 DEF Measure, HandBack
  <2>9. CASE Mine \/ EnterRaw \/ NoteRaw
    BY <2>9 DEF Mine, EnterRaw, NoteRaw
  <2>10. ASSUME NEW sig \in Signals, InstallKeys(sig) \/ NotePrev(sig) PROVE TypeOK'
    <3>1. NotingPrev[sig] \in MainPCs
      BY DEF NotingPrev, Signals
    <3> QED BY <2>10, <3>1 DEF InstallKeys, NotePrev
  <2> QED BY <1>2, <2>3, <2>4, <2>5, <2>6, <2>7, <2>8, <2>9, <2>10 DEF Main
<1> USE DEF Leave, LeaverPCs, mainVars, ocVars, keysVars, leaverVars
<1>3. CASE ExitBegins
  BY <1>3 DEF ExitBegins
<1>4. ASSUME NEW sig \in Signals, SignalKills(sig) \/ HandlerBegins(sig) PROVE TypeOK'
  <2>1. sig \in Leavers
    BY DEF Leavers
  <2> QED BY <1>4, <2>1, FirstIsASetting DEF SignalKills, HandlerBegins, EnterRestore
<1>5. ASSUME NEW l \in Leavers, Leaver(l) PROVE TypeOK'
  <2>1. CASE TakeTerminal(l) \/ Cook(l)
    BY <2>1 DEF TakeTerminal, Cook
  <2>2. CASE Chain(l)
    BY <2>2, FirstIsASetting DEF Chain, EnterRestore
  <2>3. ASSUME lpc[l] \in {"visit", "count", "undo"}
        PROVE  at[l] \in Settings /\ NextRestored(at[l]) \in Settings \cup {NoSetting}
    BY <2>3, NextRestoredType DEF Ledger, Positions
  <2>4. CASE Visit(l)
    BY <2>3, <2>4 DEF Visit, Taken, Advance
  <2>5. CASE Count(l)
    BY <2>3, <2>5 DEF Count
  <2>6. CASE Undo(l)
    <3>1. left[l] = card[at[l]]
      BY <2>6 DEF Undo, Ledger, Counted
    <3>2. left[l] \in 1 .. Fans /\ left[l] - 1 \in 0 .. Fans
      BY <2>6 DEF Undo
    <3> QED BY <2>3, <2>6, <3>1, <3>2 DEF Undo
  <2>7. CASE Undone(l)
    BY <2>3, <2>7 DEF Undone, Advance
  <2>8. CASE Die(l)
    BY <2>8 DEF Die
  <2> QED BY <1>5, <2>1, <2>2, <2>4, <2>5, <2>6, <2>7, <2>8 DEF Leaver
<1> QED BY <1>1, <1>2, <1>3, <1>4, <1>5 DEF Next

(* The ledger: what main does. *)

\* The setting main is at is nobody else's until its flag is raised.
LEMMA CurrentIsFree ==
  ASSUME TypeOK, Ledger, pc \in {"write", "save", "raise"}
  PROVE  /\ cur \in Settings
         /\ ~applied[cur]
         /\ \A l \in Leavers : ~Holds(l, cur)
<1>1. cur \in Settings /\ cur # NoSetting
  BY NoSettingIsNone DEF Ledger, Positions, ApplyPCs, TypeOK
<1>2. ~Past(cur)
  BY <1>1, BeforeIsStrict DEF Past
<1> QED BY <1>1, <1>2 DEF Ledger, Raised, Holds, Holding

\* Moving on leaves what was past past, and arrives at a setting still at stock.
LEMMA MovesOn ==
  ASSUME TypeOK, Ledger, NextSetting, pc \in ApplyPCs
  PROVE  /\ cur' = NoSetting <=> pc' \notin ApplyPCs
         /\ pc' \in {"write", "choose"}
         /\ \A s \in Settings : Past(s) => Past(s)'
         /\ cur' # NoSetting =>
              /\ cur' \in Settings
              /\ cur' # cur
              /\ ~applied[cur']
              /\ \A l \in Leavers : ~Holds(l, cur')
              /\ card[cur'] = 0
<1>1. cur \in Settings
  BY DEF Ledger, Positions, TypeOK
<1>2. cur' = NextApplied(cur) /\ pc' = IF cur' = NoSetting THEN "choose" ELSE "write"
  BY DEF NextSetting, Goto
<1>3. cur' \in Settings \cup {NoSetting}
  BY <1>1, <1>2, NextAppliedIsNext
<1>4. cur # NoSetting
  BY <1>1, NoSettingIsNone
<1>5. cur' # NoSetting =>
        \A s \in Settings : Before(s, cur') <=> (Before(s, cur) \/ s = cur)
  BY <1>1, <1>2, NextAppliedIsNext
<1>6. \A s \in Settings : Past(s) => Past(s)'
  <2> SUFFICES ASSUME NEW s \in Settings, Past(s) PROVE cur' = NoSetting \/ Before(s, cur')
    BY DEF Past, Before
  <2> QED BY <1>4, <1>5 DEF Past
<1>7. ASSUME cur' # NoSetting
      PROVE  cur' \in Settings /\ cur' # cur /\ ~Past(cur')
  <2>1. cur' \in Settings
    BY <1>3, <1>7
  <2>2. ~Before(cur', cur')
    BY <2>1, BeforeIsStrict
  <2>3. ~Before(cur', cur) /\ cur' # cur
    BY <1>5, <1>7, <2>1, <2>2
  <2> QED BY <1>4, <2>1, <2>3 DEF Past
<1>8. ASSUME cur' # NoSetting
      PROVE  ~applied[cur'] /\ (\A l \in Leavers : ~Holds(l, cur')) /\ card[cur'] = 0
  <2>1. cur' \in Settings /\ cur' # cur /\ ~Past(cur')
    BY <1>7, <1>8
  <2>2. ~applied[cur'] /\ \A l \in Leavers : ~Holds(l, cur')
    BY <2>1 DEF Ledger, Raised, Holds, Holding
  <2>3. cur' \notin Changed
    BY <2>1, <2>2 DEF Ledger, NothingForgotten, Recording
  <2>4. card[cur'] \in 0 .. Fans
    BY <2>1 DEF TypeOK
  <2> QED BY <2>1, <2>2, <2>3, <2>4, OverclockAssumption DEF Changed, OverclockAssumption
<1> QED BY <1>2, <1>3, <1>6, <1>7, <1>8 DEF ApplyPCs

LEMMA MainKeepsLedger == TypeOK /\ Ledger /\ Main => Ledger'
<1> SUFFICES ASSUME TypeOK, Ledger, Main PROVE Ledger'
  OBVIOUS
<1> USE DEF Goto, ocVars, keysVars, leaverVars
<1>1. CASE Write
  <2>1. /\ cur \in Settings /\ ~applied[cur] /\ \A l \in Leavers : ~Holds(l, cur)
    BY <1>1, CurrentIsFree DEF Write
  <2>2. /\ card' = [card EXCEPT ![cur] = @ + 1] /\ done' = done + 1
        /\ pc' = IF done + 1 < Units(cur) THEN "write" ELSE "save"
        /\ UNCHANGED <<cur, applied, saved, lpc, at, left>>
    BY <1>1 DEF Write
  <2>3. card'[cur] = done' /\ \A s \in Settings : s # cur => card'[s] = card[s]
    BY <1>1, <2>1, <2>2 DEF Write, TypeOK, Ledger, Counted
  <2>4. Positions' /\ Exclusive'
    BY <1>1, <2>2 DEF Write, Ledger, Positions, Exclusive, ApplyPCs
  <2>5. Raised'
    BY <1>1, <2>2 DEF Write, Ledger, Raised, Past, Before
  <2>6. Counted'
    <3>1. \A l \in Leavers : lpc[l] \in Holding => at[l] \in Settings /\ at[l] # cur
      BY <2>1 DEF Holds, Ledger, Positions, Holding
    <3>2. pc' = "write" => done' < Units(cur')
      BY <2>2
    <3> QED BY <2>1, <2>2, <2>3, <3>1, <3>2 DEF Ledger, Counted, Holding
  <2>7. NothingForgotten'
    BY <1>1, <2>2, <2>3 DEF Write, Ledger, NothingForgotten, Changed, Recording, Holds
  <2> QED BY <2>4, <2>5, <2>6, <2>7 DEF Ledger
<1>2. CASE NotWritten
  <2>1. UNCHANGED <<card, applied, saved, lpc, at, left>> /\ pc = "write"
    BY <1>2 DEF NotWritten
  <2>2. CASE done # 0
    BY <1>2, <2>1, <2>2 DEF NotWritten, Ledger, Positions, Raised, Counted, Exclusive, NothingForgotten,
       Changed, Recording, Holds, Past, Before, ApplyPCs
  <2>3. CASE done = 0
    <3>1. NextSetting /\ pc \in ApplyPCs /\ done' = 0
      BY <1>2, <2>1, <2>3 DEF NotWritten, NextSetting, ApplyPCs
    <3>2. card[cur] = 0
      BY <2>1, <2>3 DEF Ledger, Counted
    <3>3. Positions' /\ Exclusive'
      BY <2>1, <3>1, MovesOn DEF Ledger, Positions, Exclusive
    <3>4. Raised'
      BY <2>1, <3>1, MovesOn DEF Ledger, Raised, Positions, Holding
    <3>5. Counted'
      <4>1. cur' # NoSetting => done' < Units(cur')
        BY <3>1, OverclockAssumption DEF Units, OverclockAssumption
      <4> QED BY <2>1, <3>1, <4>1, MovesOn DEF Ledger, Counted, ApplyPCs
    <3>6. NothingForgotten'
      BY <2>1, <3>2 DEF Ledger, NothingForgotten, Changed, Recording, Holds
    <3> QED BY <3>3, <3>4, <3>5, <3>6 DEF Ledger
  <2> QED BY <2>2, <2>3
<1>3. CASE Save
  <2>1. cur \in Settings /\ ~applied[cur] /\ \A l \in Leavers : ~Holds(l, cur)
    BY <1>3, CurrentIsFree DEF Save
  <2>2. /\ saved' = [saved EXCEPT ![cur] = done] /\ pc = "save" /\ pc' = "raise"
        /\ UNCHANGED <<card, cur, done, applied, lpc, at, left>>
    BY <1>3 DEF Save, Saved
  <2>3. \A s \in Settings : s # cur => saved'[s] = saved[s]
    BY <2>1, <2>2 DEF TypeOK
  <2>4. saved'[cur] = card[cur]
    BY <2>1, <2>2 DEF TypeOK, Ledger, Counted
  <2>5. Counted'
    <3>1. \A l \in Leavers : lpc[l] \in Holding => at[l] \in Settings /\ at[l] # cur
      BY <2>1 DEF Holds, Ledger, Positions, Holding
    <3> QED BY <2>1, <2>2, <2>3, <2>4, <3>1 DEF Ledger, Counted, Holding
  <2>6. Positions' /\ Raised' /\ Exclusive'
    BY <2>2 DEF Ledger, Positions, Raised, Exclusive, Past, Before, ApplyPCs
  <2>7. NothingForgotten'
    BY <2>2 DEF Ledger, NothingForgotten, Changed, Recording, Holds
  <2> QED BY <2>5, <2>6, <2>7 DEF Ledger
<1>4. CASE Raise
  <2>1. cur \in Settings /\ ~applied[cur] /\ \A l \in Leavers : ~Holds(l, cur)
    BY <1>4, CurrentIsFree DEF Raise
  <2>2. /\ applied' = [applied EXCEPT ![cur] = TRUE] /\ pc = "raise" /\ pc' = "hooks"
        /\ UNCHANGED <<card, cur, done, saved, lpc, at, left>>
    BY <1>4 DEF Raise
  <2>3. applied'[cur] /\ \A s \in Settings : s # cur => applied'[s] = applied[s]
    BY <2>1, <2>2 DEF TypeOK
  <2>4. Positions'
    BY <2>2 DEF Ledger, Positions, ApplyPCs
  <2>5. Raised'
    BY <2>2, <2>3 DEF Ledger, Raised, Past, Before
  <2>6. Counted'
    BY <2>2, <2>3 DEF Ledger, Counted
  <2>7. Exclusive'
    <3>1. \A l \in Leavers : lpc[l] \in Holding => at[l] \in Settings /\ at[l] # cur
      BY <2>1 DEF Holds, Ledger, Positions, Holding
    <3> QED BY <2>2, <2>3, <3>1 DEF Ledger, Exclusive
  <2>8. NothingForgotten'
    BY <2>2, <2>3 DEF Ledger, NothingForgotten, Changed, Recording, Holds
  <2> QED BY <2>4, <2>5, <2>6, <2>7, <2>8 DEF Ledger
<1>5. CASE Hooks
  <2>1. UNCHANGED <<card, applied, saved, lpc, at, left>> /\ pc = "hooks"
    BY <1>5 DEF Hooks
  <2>2. NextSetting /\ pc \in ApplyPCs /\ done' = 0
    BY <1>5 DEF Hooks, NextSetting, ApplyPCs
  <2>3. Positions' /\ Exclusive'
    BY <2>1, <2>2, MovesOn DEF Ledger, Positions, Exclusive
  <2>4. Raised'
    BY <2>1, <2>2, MovesOn DEF Ledger, Raised, Positions, Holding
  <2>5. Counted'
    <3>1. cur' # NoSetting => done' < Units(cur')
      BY <2>2, OverclockAssumption DEF Units, OverclockAssumption
    <3> QED BY <2>1, <2>2, <3>1, MovesOn DEF Ledger, Counted, ApplyPCs
  <2>6. NothingForgotten'
    BY <2>1, <2>2 DEF Ledger, NothingForgotten, Changed, Recording, Holds
  <2> QED BY <2>3, <2>4, <2>5, <2>6 DEF Ledger
<1>6. CASE Measure \/ HandBack \/ Mine \/ EnterRaw \/ NoteRaw
           \/ \E sig \in Signals : InstallKeys(sig) \/ NotePrev(sig)
  <2>1. /\ UNCHANGED <<card, applied, saved, cur, done, lpc, at, left>>
        /\ pc \notin ApplyPCs /\ pc' \notin ApplyPCs
    <3>1. CASE Measure \/ HandBack \/ Mine \/ EnterRaw \/ NoteRaw
      BY <3>1 DEF Measure, HandBack, Mine, EnterRaw, NoteRaw, ApplyPCs
    <3>2. ASSUME NEW sig \in Signals, InstallKeys(sig) \/ NotePrev(sig)
          PROVE  /\ UNCHANGED <<card, applied, saved, cur, done, lpc, at, left>>
                 /\ pc \notin ApplyPCs /\ pc' \notin ApplyPCs
      BY <3>2 DEF InstallKeys, NotePrev, ApplyPCs, Signals, NotingPrev
    <3> QED BY <1>6, <3>1, <3>2
  <2>2. Positions' /\ Exclusive'
    BY <2>1 DEF Ledger, Positions, Exclusive
  <2>3. Raised' /\ Counted'
    BY <2>1 DEF Ledger, Raised, Counted, Past, Before, ApplyPCs
  <2>4. NothingForgotten'
    BY <2>1 DEF Ledger, NothingForgotten, Changed, Recording, Holds, ApplyPCs
  <2> QED BY <2>2, <2>3, <2>4 DEF Ledger
<1> QED BY <1>1, <1>2, <1>3, <1>4, <1>5, <1>6 DEF Main

(* The ledger: what the leavers do. *)

\* A step that leaves the ledger's variables alone and holds no setting.
LEMMA LeaverElsewhere ==
  ASSUME TypeOK, Ledger, NEW l \in Leavers,
         UNCHANGED <<card, applied, saved, pc, cur, done, left>>,
         lpc[l] \notin Holding, lpc'[l] \notin Holding,
         \A m \in Leavers \ {l} : lpc'[m] = lpc[m] /\ at'[m] = at[m],
         lpc'[l] = "visit" => at'[l] \in Settings
  PROVE  Ledger'
<1>1. \A m \in Leavers : lpc'[m] \in Holding => lpc[m] = lpc'[m] /\ at'[m] = at[m]
  OBVIOUS
<1>2. \A m \in Leavers, s \in Settings : Holds(m, s)' <=> Holds(m, s)
  BY DEF Holds, Holding
<1>3. Positions' /\ Raised' /\ Exclusive'
  BY <1>1 DEF Ledger, Positions, Raised, Exclusive, Past, Before, Holding
<1>4. Counted'
  BY <1>1 DEF Ledger, Counted, Holding
<1>5. NothingForgotten'
  BY <1>2 DEF Ledger, NothingForgotten, Changed, Recording
<1> QED BY <1>3, <1>4, <1>5 DEF Ledger

LEMMA LeaverKeepsLedger ==
  ASSUME TypeOK, Ledger, NEW l \in Leavers, Leaver(l)
  PROVE  Ledger'
<1> USE DEF Leave, mainVars, ocVars, keysVars
<1>0. lpc[l] \in {"visit", "count", "undo"} =>
        at[l] \in Settings /\ NextRestored(at[l]) \in Settings \cup {NoSetting}
  BY NextRestoredType DEF Ledger, Positions
<1>1. CASE TakeTerminal(l) \/ Cook(l) \/ Chain(l) \/ Die(l)
  <2>1. /\ UNCHANGED <<card, applied, saved, pc, cur, done, left>>
        /\ lpc[l] \notin Holding
        /\ lpc'[l] \notin Holding
        /\ \A m \in Leavers \ {l} : lpc'[m] = lpc[m] /\ at'[m] = at[m]
        /\ lpc'[l] = "visit" => at'[l] \in Settings
    <3>1. CASE TakeTerminal(l) \/ Cook(l)
      BY <3>1 DEF TakeTerminal, Cook, Holding, TypeOK
    <3>2. CASE Chain(l)
      BY <3>2, FirstIsASetting DEF Chain, EnterRestore, Holding, TypeOK
    <3>3. CASE Die(l)
      BY <3>3 DEF Die, leaverVars, Holding, TypeOK
    <3> QED BY <1>1, <3>1, <3>2, <3>3
  <2> QED BY <2>1, LeaverElsewhere
<1>2. CASE Visit(l) /\ ~applied[at[l]]
  <2>1. /\ applied' = applied
        /\ UNCHANGED <<card, saved, pc, cur, done, left>>
        /\ lpc[l] \notin Holding
        /\ lpc'[l] \notin Holding
        /\ \A m \in Leavers \ {l} : lpc'[m] = lpc[m] /\ at'[m] = at[m]
        /\ lpc'[l] = "visit" => at'[l] \in Settings
    BY <1>0, <1>2 DEF Visit, Taken, Advance, Holding, TypeOK
  <2> QED BY <2>1, LeaverElsewhere
<1>3. CASE Visit(l) /\ applied[at[l]]
  <2>1. /\ applied' = [applied EXCEPT ![at[l]] = FALSE]
        /\ lpc' = [lpc EXCEPT ![l] = "count"]
        /\ lpc[l] = "visit"
        /\ UNCHANGED <<card, saved, pc, cur, done, at, left>>
    BY <1>3 DEF Visit, Taken
  <2>2. at[l] \in Settings /\ Past(at[l]) /\ saved[at[l]] = card[at[l]]
    BY <1>0, <1>3, <2>1 DEF Ledger, Raised, Counted
  <2>3. /\ ~applied'[at[l]]
        /\ \A s \in Settings : s # at[l] => applied'[s] = applied[s]
    BY <2>1, <2>2 DEF TypeOK
  <2>4. /\ lpc'[l] = "count"
        /\ \A m \in Leavers : m # l => lpc'[m] = lpc[m]
    BY <2>1 DEF TypeOK
  <2>5. \A m \in Leavers : lpc[m] \in Holding => at[m] # at[l]
    BY <1>3 DEF Ledger, Exclusive
  <2>6. Positions'
    BY <2>1, <2>2, <2>4 DEF Ledger, Positions
  <2>7. Raised'
    BY <2>1, <2>2, <2>3, <2>4 DEF Ledger, Raised, Past, Before
  <2>8. Counted'
    BY <2>1, <2>2, <2>3, <2>4 DEF Ledger, Counted
  <2>9. Exclusive'
    BY <2>1, <2>2, <2>3, <2>4, <2>5 DEF Ledger, Exclusive, Positions, Holding
  <2>10. NothingForgotten'
    <3>1. \A m \in Leavers, s \in Settings : Holds(m, s) => Holds(m, s)'
      BY <2>1, <2>4 DEF Holds
    <3>2. Holds(l, at[l])'
      BY <2>1, <2>4 DEF Holds
    <3> QED BY <2>1, <2>2, <2>3, <3>1, <3>2 DEF Ledger, NothingForgotten, Changed, Recording
  <2> QED BY <2>6, <2>7, <2>8, <2>9, <2>10 DEF Ledger
<1>4. CASE Count(l)
  <2>1. /\ saved' = [saved EXCEPT ![at[l]] = 0]
        /\ left' = [left EXCEPT ![l] = saved[at[l]]]
        /\ lpc' = [lpc EXCEPT ![l] = "undo"]
        /\ lpc[l] = "count"
        /\ UNCHANGED <<card, applied, pc, cur, done, at>>
    BY <1>4 DEF Count
  <2>2. at[l] \in Settings /\ Past(at[l]) /\ ~applied[at[l]] /\ saved[at[l]] = card[at[l]]
    BY <1>0, <2>1 DEF Ledger, Raised, Counted, Exclusive, Holding
  <2>3. \A s \in Settings : s # at[l] => saved'[s] = saved[s]
    BY <2>1, <2>2 DEF TypeOK
  <2>4. /\ lpc'[l] = "undo" /\ left'[l] = card[at[l]]
        /\ \A m \in Leavers : m # l => lpc'[m] = lpc[m] /\ left'[m] = left[m]
    BY <2>1, <2>2 DEF TypeOK
  <2>5. \A m \in Leavers : m # l /\ lpc[m] \in Holding => at[m] # at[l] /\ at[m] \in Settings
    BY <2>1 DEF Ledger, Exclusive, Positions, Holding
  <2>6. pc = "raise" => cur # at[l]
    <3>1. pc = "raise" => cur \in Settings /\ ~Holds(l, cur)
      BY CurrentIsFree
    <3> QED BY <2>1, <3>1 DEF Holds
  <2>7. Positions' /\ Raised' /\ Exclusive'
    BY <2>1, <2>4, <2>5 DEF Ledger, Positions, Raised, Exclusive, Past, Before, Holding
  <2>8. Counted'
    <3>1. pc = "raise" => cur \in Settings
      BY CurrentIsFree
    <3> QED BY <2>1, <2>2, <2>3, <2>4, <2>5, <2>6, <3>1 DEF Ledger, Counted, Holding
  <2>9. NothingForgotten'
    <3>1. \A m \in Leavers, s \in Settings : Holds(m, s) => Holds(m, s)'
      BY <2>1, <2>4 DEF Holds
    <3> QED BY <2>1, <3>1 DEF Ledger, NothingForgotten, Changed, Recording
  <2> QED BY <2>7, <2>8, <2>9 DEF Ledger
<1>5. CASE Undo(l)
  <2>1. /\ card' = [card EXCEPT ![at[l]] = @ - 1]
        /\ left' = [left EXCEPT ![l] = @ - 1]
        /\ lpc[l] = "undo"
        /\ UNCHANGED <<saved, applied, pc, cur, done, at, lpc>>
    BY <1>5 DEF Undo
  <2>2. at[l] \in Settings /\ ~applied[at[l]] /\ left[l] = card[at[l]]
    BY <1>0, <2>1 DEF Ledger, Counted, Exclusive, Holding
  <2>3. /\ left'[l] = card'[at[l]]
        /\ \A s \in Settings : s # at[l] => card'[s] = card[s]
        /\ \A m \in Leavers : m # l => left'[m] = left[m]
    BY <2>1, <2>2 DEF TypeOK
  <2>4. \A m \in Leavers : m # l /\ lpc[m] \in Holding => at[m] # at[l] /\ at[m] \in Settings
    BY <2>1 DEF Ledger, Exclusive, Positions, Holding
  <2>5. pc \in {"write", "save", "raise"} => cur # at[l] /\ cur \in Settings
    <3>1. pc \in {"write", "save", "raise"} => cur \in Settings /\ ~Holds(l, cur)
      BY CurrentIsFree
    <3> QED BY <2>1, <3>1 DEF Holds
  <2>6. Positions' /\ Raised' /\ Exclusive'
    BY <2>1 DEF Ledger, Positions, Raised, Exclusive, Past, Before
  <2>7. Counted'
    BY <2>1, <2>2, <2>3, <2>4, <2>5 DEF Ledger, Counted, Holding
  <2>8. NothingForgotten'
    <3>1. Holds(l, at[l])'
      BY <2>1 DEF Holds
    <3>2. \A s \in Settings : s # at[l] => (card'[s] > 0 <=> card[s] > 0)
      BY <2>3
    <3> QED BY <2>1, <3>1, <3>2 DEF Ledger, NothingForgotten, Changed, Recording, Holds
  <2> QED BY <2>6, <2>7, <2>8 DEF Ledger
<1>6. CASE Undone(l)
  <2>1. /\ UNCHANGED <<card, applied, saved, pc, cur, done, left>>
        /\ lpc[l] = "undo" /\ left[l] = 0
        /\ lpc'[l] \notin Holding
        /\ \A m \in Leavers \ {l} : lpc'[m] = lpc[m] /\ at'[m] = at[m]
        /\ lpc'[l] = "visit" => at'[l] \in Settings
    BY <1>0, <1>6 DEF Undone, Advance, Holding, TypeOK
  <2>2. card[at[l]] = 0
    BY <2>1 DEF Ledger, Counted
  <2>3. \A m \in Leavers : lpc'[m] \in Holding => m # l /\ lpc[m] = lpc'[m] /\ at'[m] = at[m]
    BY <2>1
  <2>4. Positions' /\ Raised' /\ Exclusive'
    BY <2>1, <2>3 DEF Ledger, Positions, Raised, Exclusive, Past, Before, Holding
  <2>5. Counted'
    BY <2>1, <2>3 DEF Ledger, Counted, Holding
  <2>6. NothingForgotten'
    <3>1. \A s \in Changed, m \in Leavers : Holds(m, s) => Holds(m, s)'
      BY <2>1, <2>2 DEF Changed, Holds
    <3> QED BY <2>1, <3>1 DEF Ledger, NothingForgotten, Changed, Recording
  <2> QED BY <2>4, <2>5, <2>6 DEF Ledger
<1> QED BY <1>1, <1>2, <1>3, <1>4, <1>5, <1>6 DEF Leaver

LEMMA NextLedger == TypeOK /\ Ledger /\ [Next]_vars => Ledger'
<1> SUFFICES ASSUME TypeOK, Ledger, [Next]_vars PROVE Ledger'
  OBVIOUS
<1> USE DEF Leave, mainVars, ocVars, keysVars
<1>1. CASE UNCHANGED vars
  BY <1>1 DEF vars, Ledger, Positions, Raised, Counted, Exclusive, NothingForgotten, Past,
     Before, Changed, Recording, Holds
<1>2. CASE Main
  BY <1>2, MainKeepsLedger
<1>3. CASE ExitBegins
  <2>1. "exit" \in Leavers
    BY DEF Leavers
  <2>2. /\ UNCHANGED <<card, applied, saved, pc, cur, done, left>>
        /\ lpc["exit"] \notin Holding /\ lpc'["exit"] = "terminal"
        /\ \A m \in Leavers \ {"exit"} : lpc'[m] = lpc[m] /\ at'[m] = at[m]
    BY <1>3, <2>1 DEF ExitBegins, Holding, TypeOK
  <2> QED BY <2>1, <2>2, LeaverElsewhere DEF Holding
<1>4. ASSUME NEW sig \in Signals, HandlerBegins(sig) PROVE Ledger'
  <2>1. sig \in Leavers
    BY DEF Leavers
  <2>2. /\ UNCHANGED <<card, applied, saved, pc, cur, done, left>>
        /\ lpc[sig] \notin Holding /\ lpc'[sig] \notin Holding
        /\ \A m \in Leavers \ {sig} : lpc'[m] = lpc[m] /\ at'[m] = at[m]
        /\ lpc'[sig] = "visit" => at'[sig] \in Settings
    BY <1>4, <2>1, FirstIsASetting DEF HandlerBegins, EnterRestore, Holding, TypeOK
  <2> QED BY <2>1, <2>2, LeaverElsewhere
<1>5. ASSUME NEW sig \in Signals, SignalKills(sig) PROVE Ledger'
  BY <1>5 DEF SignalKills, leaverVars, Ledger, Positions, Raised, Counted, Exclusive,
     NothingForgotten, Past, Before, Changed, Recording, Holds
<1>6. ASSUME NEW l \in Leavers, Leaver(l) PROVE Ledger'
  BY <1>6, LeaverKeepsLedger
<1> QED BY <1>1, <1>2, <1>3, <1>4, <1>5, <1>6 DEF Next

(* The theorems. *)

\* Every variable keeps its type; in particular no setting is put back more often
\* than it was written.
THEOREM TypeCorrect == Spec => []TypeOK
<1> QED BY InitLedger, NextType, NextLedger, PTL DEF Spec

\* Until the process ends, every setting off stock is on somebody's list (oc_apply
\* and oc_restore over the same atomics).
THEOREM SettingsAreNeverForgotten == Spec => []NothingForgotten
<1>1. TypeOK /\ Ledger => NothingForgotten
  BY DEF Ledger
<1> QED BY <1>1, InitLedger, NextType, NextLedger, PTL DEF Spec

\* Exit hook and handlers may overlap freely: a setting is put back by one of them,
\* with exactly the driver calls that took (the exchanges of oc_restore).
THEOREM RestoresDoNotOverlap == Spec => []PutBackOnce
<1>1. TypeOK /\ Ledger => PutBackOnce
  BY DEF Ledger, Counted, Exclusive, PutBackOnce, Holds, Holding
<1> QED BY <1>1, InitLedger, NextType, NextLedger, PTL DEF Spec
-----------------------------------------------------------------------------
(* What one way out leaves behind, if no other is under way.               *)

\* Nobody but l has begun to leave.
Solo(l) == \A m \in Leavers \ {l} : lpc[m] = "off"

\* oc_restore comes to s before it comes to t.
RestoredBefore(s, t) ==
  \/ s.card < t.card
  \/ s.card = t.card /\ t.knob < s.knob

\* Nobody leaves before main is through, unless it is noted as early.
SettledInv == ~early => \A l \in Leavers : lpc[l] # "off" => pc \in SettledPCs

\* What was written has brought the hooks with it.
HooksInv == \A s \in Changed : cur = s \/ atexit

\* Which handlers are in place at each place of main, and what the key reader noted.
HandlersInv ==
  /\ \A sig \in Signals :
       handler[sig] = "keys" =>
         /\ pc \in {"prevINT", "TERM", "prevTERM", "mining"}
         /\ pc = NotingPrev[sig] \/ prev[sig] = IF atexit THEN "restore" ELSE "default"
  /\ pc \in {"TERM", "prevTERM"} => handler["INT"] = "keys"
  /\ pc = "prevINT" => handler["INT"] = "keys"
  /\ pc = "prevTERM" => handler["TERM"] = "keys"

\* A signal that is at the terminal came by the key reader's handler.
KeysInv ==
  \A sig \in Signals :
    ~early /\ lpc[sig] \in {"terminal", "cook", "chain"} => handler[sig] = "keys"

\* A raw terminal is on the key reader's list, or about to be, or being cooked.
RawInv ==
  /\ raw => pc \in {"rawActive", "INT", "prevINT", "TERM", "prevTERM", "mining"}
  /\ raw => rawActive \/ pc = "rawActive" \/ \E l \in Leavers : lpc[l] = "cook"
  /\ raw /\ pc = "mining" => \A sig \in Signals : handler[sig] = "keys"

\* What a leaver on its own has put back by the time it is at each place.
SoloInv ==
  \A l \in Leavers :
    ~early /\ Solo(l) =>
      /\ lpc[l] \in {"visit", "count", "undo"} =>
           \A s \in Settings : RestoredBefore(s, at[l]) => card[s] = 0
      /\ lpc[l] \notin {"off", "terminal", "cook"} => ~raw
      /\ lpc[l] = "die" /\ Restores => \A s \in Settings : card[s] = 0

WayOut == SettledInv /\ HooksInv /\ HandlersInv /\ KeysInv /\ RawInv /\ SoloInv

LEMMA InitWayOut == Init => WayOut
<1> SUFFICES ASSUME Init PROVE WayOut
  OBVIOUS
<1>1. \A l \in Leavers : lpc[l] = "off"
  BY DEF Init
<1>2. Changed = {}
  BY DEF Init, Changed
<1>3. \A sig \in Signals : handler[sig] = "default" /\ lpc[sig] = "off"
  BY <1>1 DEF Init, Leavers
<1>4. SettledInv /\ HooksInv /\ KeysInv
  BY <1>1, <1>2, <1>3 DEF SettledInv, HooksInv, KeysInv
<1>5. HandlersInv /\ RawInv
  BY <1>3 DEF Init, HandlersInv, RawInv
<1>6. SoloInv
  BY <1>1 DEF SoloInv
<1> QED BY <1>4, <1>5, <1>6 DEF WayOut

LEMMA NextSettled == TypeOK /\ SettledInv /\ [Next]_vars => SettledInv'
<1> SUFFICES ASSUME TypeOK, SettledInv, [Next]_vars PROVE SettledInv'
  OBVIOUS
<1> USE DEF SettledInv, SettledPCs, Goto, leaverVars, mainVars, Leave
<1>1. CASE Main
  <2>1. UNCHANGED <<lpc, early>> /\ (pc \in SettledPCs => pc' \in SettledPCs)
    <3>1. CASE Write \/ NotWritten \/ Save \/ Raise \/ Hooks \/ Measure \/ HandBack \/ Mine
               \/ EnterRaw \/ NoteRaw
      BY <3>1 DEF Write, NotWritten, Save, Raise, Hooks, Measure, HandBack, Mine, EnterRaw, NoteRaw
    <3>2. ASSUME NEW sig \in Signals, InstallKeys(sig) \/ NotePrev(sig)
          PROVE  UNCHANGED <<lpc, early>> /\ (pc \in SettledPCs => pc' \in SettledPCs)
      BY <3>2 DEF InstallKeys, NotePrev, Signals, NotingPrev
    <3> QED BY <1>1, <3>1, <3>2 DEF Main
  <2> QED BY <2>1
<1>2. CASE ExitBegins
  BY <1>2 DEF ExitBegins, TypeOK
<1>3. ASSUME NEW sig \in Signals, SignalKills(sig) \/ HandlerBegins(sig) PROVE SettledInv'
  BY <1>3 DEF SignalKills, HandlerBegins, EnterRestore, TypeOK
<1>4. ASSUME NEW l \in Leavers, Leaver(l) PROVE SettledInv'
  <2>1. UNCHANGED <<pc, early>> /\ lpc[l] # "off" /\ \A m \in Leavers \ {l} : lpc'[m] = lpc[m]
    BY <1>4 DEF Leaver, TakeTerminal, Cook, Chain, EnterRestore, Visit, Advance, Count, Undo,
       Undone, Die, TypeOK
  <2> QED BY <2>1
<1>5. CASE UNCHANGED vars
  BY <1>5 DEF vars
<1> QED BY <1>1, <1>2, <1>3, <1>4, <1>5 DEF Next

\* What a leaver's step leaves alone.
LEMMA LeaverFrame ==
  ASSUME TypeOK, NEW l \in Leavers, Leaver(l)
  PROVE  /\ UNCHANGED <<handler, atexit, prev, pc, cur, done, early>>
         /\ lpc[l] # "off" /\ lpc'[l] # "off"
         /\ \A m \in Leavers \ {l} : lpc'[m] = lpc[m] /\ at'[m] = at[m]
         /\ raw' => raw
<1> USE DEF Leave, mainVars, leaverVars, ocVars, keysVars
<1>1. CASE TakeTerminal(l) \/ Cook(l)
  BY <1>1 DEF TakeTerminal, Cook, TypeOK
<1>2. CASE Chain(l)
  BY <1>2 DEF Chain, EnterRestore, TypeOK
<1>3. CASE Visit(l)
  BY <1>3 DEF Visit, Advance, TypeOK
<1>4. CASE Count(l) \/ Undo(l)
  BY <1>4 DEF Count, Undo, TypeOK
<1>5. CASE Undone(l)
  BY <1>5 DEF Undone, Advance, TypeOK
<1>6. CASE Die(l)
  BY <1>6 DEF Die, TypeOK
<1> QED BY <1>1, <1>2, <1>3, <1>4, <1>5, <1>6 DEF Leaver

LEMMA NextHooks == TypeOK /\ Ledger /\ HooksInv /\ [Next]_vars => HooksInv'
<1> SUFFICES ASSUME TypeOK, Ledger, HooksInv, [Next]_vars PROVE HooksInv'
  OBVIOUS
<1> USE DEF HooksInv, Changed, ocVars, keysVars
<1>1. CASE Write
  <2>1. cur \in Settings
    BY <1>1, CurrentIsFree DEF Write
  <2> QED BY <1>1, <2>1 DEF Write, TypeOK
<1>2. CASE NotWritten
  <2>1. card[cur] = done /\ cur \in Settings
    BY <1>2, CurrentIsFree DEF NotWritten, Ledger, Counted
  <2> QED BY <1>2, <2>1 DEF NotWritten, NextSetting
<1>3. CASE Hooks \/ HandBack
  BY <1>3 DEF Hooks, HandBack
<1>4. CASE Save \/ Raise \/ Measure \/ Mine \/ EnterRaw \/ NoteRaw
  BY <1>4 DEF Save, Raise, Measure, Mine, EnterRaw, NoteRaw
<1>5. ASSUME NEW sig \in Signals,
             InstallKeys(sig) \/ NotePrev(sig) \/ SignalKills(sig) \/ HandlerBegins(sig)
      PROVE  HooksInv'
  BY <1>5 DEF InstallKeys, NotePrev, SignalKills, HandlerBegins, mainVars
<1>6. CASE ExitBegins
  BY <1>6 DEF ExitBegins, mainVars
<1>7. ASSUME NEW l \in Leavers, Leaver(l) PROVE HooksInv'
  <2>1. UNCHANGED <<cur, atexit>>
    BY <1>7, LeaverFrame
  <2>2. \A s \in Settings : card'[s] > 0 => card[s] > 0
    <3>1. CASE Undo(l)
      <4>1. at[l] \in Settings /\ \A s \in Settings : card[s] \in 0 .. Fans
        BY <3>1 DEF Undo, Ledger, Positions, TypeOK
      <4>2. \A s \in Settings : card'[s] = IF s = at[l] THEN card[s] - 1 ELSE card[s]
        BY <3>1, <4>1 DEF Undo, TypeOK
      <4> QED BY <4>1, <4>2, OverclockAssumption DEF OverclockAssumption
    <3>2. CASE ~Undo(l)
      BY <1>7, <3>2 DEF Leaver, TakeTerminal, Cook, Chain, Visit, Count, Undone, Die
    <3> QED BY <3>1, <3>2
  <2> QED BY <2>1, <2>2
<1>8. CASE UNCHANGED vars
  BY <1>8 DEF vars
<1> QED BY <1>1, <1>2, <1>3, <1>4, <1>5, <1>6, <1>7, <1>8 DEF Next, Main

LEMMA NextHandlers == TypeOK /\ HandlersInv /\ [Next]_vars => HandlersInv'
<1> SUFFICES ASSUME TypeOK, HandlersInv, [Next]_vars PROVE HandlersInv'
  OBVIOUS
<1> USE DEF HandlersInv, Signals, NotingPrev, Goto, ocVars, keysVars
<1>1. CASE Write \/ Save \/ Raise
  BY <1>1 DEF Write, Save, Raise
<1>2. CASE NotWritten \/ Hooks
  BY <1>2 DEF NotWritten, Hooks, NextSetting
<1>3. CASE Measure \/ HandBack
  BY <1>3 DEF Measure, HandBack, TypeOK
<1>4. CASE Mine \/ EnterRaw \/ NoteRaw
  BY <1>4 DEF Mine, EnterRaw, NoteRaw
<1>5. CASE InstallKeys("INT") \/ InstallKeys("TERM")
  BY <1>5 DEF InstallKeys, TypeOK
<1>6. CASE NotePrev("INT") \/ NotePrev("TERM")
  BY <1>6 DEF NotePrev, TypeOK
<1>7. CASE ExitBegins \/ \E sig \in Signals : SignalKills(sig) \/ HandlerBegins(sig)
  BY <1>7 DEF ExitBegins, SignalKills, HandlerBegins, mainVars
<1>8. ASSUME NEW l \in Leavers, Leaver(l) PROVE HandlersInv'
  BY <1>8, LeaverFrame
<1>9. CASE UNCHANGED vars
  BY <1>9 DEF vars
<1> QED BY <1>1, <1>2, <1>3, <1>4, <1>5, <1>6, <1>7, <1>8, <1>9 DEF Next, Main

LEMMA NextKeys ==
  TypeOK /\ SettledInv /\ HandlersInv /\ KeysInv /\ [Next]_vars => KeysInv'
<1> SUFFICES ASSUME TypeOK, SettledInv, HandlersInv, KeysInv, [Next]_vars PROVE KeysInv'
  OBVIOUS
<1> USE DEF KeysInv, ocVars, keysVars, leaverVars
<1>s. \A sig \in Signals : sig \in Leavers /\ sig # "exit"
  BY DEF Leavers, Signals
<1>1. CASE Main
  <2>1. UNCHANGED <<lpc, early>>
    BY <1>1 DEF Main, Write, NotWritten, Save, Raise, Hooks, Measure, HandBack, Mine, EnterRaw,
       NoteRaw, InstallKeys, NotePrev
  <2>2. \/ UNCHANGED handler \/ pc \notin SettledPCs
        \/ pc = "measuring"
    BY <1>1 DEF Main, Write, NotWritten, Save, Raise, Hooks, Measure, HandBack, Mine, EnterRaw,
       NoteRaw, InstallKeys, NotePrev, Signals, SettledPCs
  <2>3. pc = "measuring" => \A sig \in Signals : handler[sig] # "keys"
    BY DEF HandlersInv
  <2> QED BY <1>s, <2>1, <2>2, <2>3 DEF SettledInv
<1>2. CASE ExitBegins
  BY <1>2, <1>s DEF ExitBegins, Leave, TypeOK
<1>3. ASSUME NEW sig \in Signals, SignalKills(sig) \/ HandlerBegins(sig) PROVE KeysInv'
  BY <1>3, <1>s DEF SignalKills, HandlerBegins, EnterRestore, Leave, TypeOK
<1>4. ASSUME NEW l \in Leavers, Leaver(l) PROVE KeysInv'
  <2>1. UNCHANGED <<handler, early>> /\ \A m \in Leavers \ {l} : lpc'[m] = lpc[m]
    BY <1>4, LeaverFrame
  <2>2. lpc'[l] \in {"terminal", "cook", "chain"} => lpc[l] \in {"terminal", "cook", "chain"}
    BY <1>4 DEF Leaver, TakeTerminal, Cook, Chain, EnterRestore, Visit, Advance, Count, Undo,
       Undone, Die, Leave, TypeOK
  <2> QED BY <1>s, <2>1, <2>2
<1>5. CASE UNCHANGED vars
  BY <1>5 DEF vars
<1> QED BY <1>1, <1>2, <1>3, <1>4, <1>5 DEF Next

LEMMA NextRaw == TypeOK /\ HandlersInv /\ RawInv /\ [Next]_vars => RawInv'
<1> SUFFICES ASSUME TypeOK, HandlersInv, RawInv, [Next]_vars PROVE RawInv'
  OBVIOUS
<1> USE DEF RawInv, Goto, ocVars, keysVars, leaverVars
<1>1. CASE Write \/ Save \/ Raise \/ Measure \/ HandBack
  BY <1>1 DEF Write, Save, Raise, Measure, HandBack
<1>2. CASE NotWritten \/ Hooks
  BY <1>2 DEF NotWritten, Hooks, NextSetting
<1>3. CASE Mine \/ EnterRaw \/ NoteRaw
  BY <1>3 DEF Mine, EnterRaw, NoteRaw
<1>4. CASE InstallKeys("INT") \/ InstallKeys("TERM")
  BY <1>4 DEF InstallKeys, NotingPrev
<1>5. CASE NotePrev("INT") \/ NotePrev("TERM")
  BY <1>5 DEF NotePrev, NotingPrev, HandlersInv, Signals
<1>6. CASE ExitBegins
  <2>1. \A l \in Leavers : lpc[l] = "cook" => lpc'[l] = "cook"
    BY <1>6 DEF ExitBegins, Leave, TypeOK
  <2> QED BY <1>6, <2>1 DEF ExitBegins, mainVars
<1>7. ASSUME NEW sig \in Signals, SignalKills(sig) \/ HandlerBegins(sig) PROVE RawInv'
  <2>1. \A l \in Leavers : lpc[l] = "cook" => lpc'[l] = "cook"
    BY <1>7 DEF SignalKills, HandlerBegins, EnterRestore, Leave, TypeOK
  <2> QED BY <1>7, <2>1 DEF SignalKills, HandlerBegins, mainVars
<1>8. ASSUME NEW l \in Leavers, Leaver(l) PROVE RawInv'
  <2>1. UNCHANGED <<handler, pc>> /\ (raw' => raw) /\ \A m \in Leavers \ {l} : lpc'[m] = lpc[m]
    BY <1>8, LeaverFrame
  <2>2. CASE TakeTerminal(l)
    <3>1. rawActive => lpc'[l] = "cook"
      BY <2>2 DEF TakeTerminal, Leave, TypeOK
    <3>2. \A m \in Leavers : lpc[m] = "cook" => lpc'[m] = "cook"
      BY <2>1, <2>2 DEF TakeTerminal
    <3> QED BY <2>1, <3>1, <3>2
  <2>3. CASE Cook(l)
    BY <2>3 DEF Cook
  <2>4. CASE ~TakeTerminal(l) /\ ~Cook(l)
    <3>1. rawActive' = rawActive /\ lpc[l] # "cook"
      BY <1>8, <2>4 DEF Leaver, Chain, Visit, Count, Undo, Undone, Die
    <3> QED BY <2>1, <3>1
  <2> QED BY <2>2, <2>3, <2>4
<1>9. CASE UNCHANGED vars
  BY <1>9 DEF vars
<1> QED BY <1>1, <1>2, <1>3, <1>4, <1>5, <1>6, <1>7, <1>8, <1>9 DEF Next, Main, Signals

(* The order of oc_restore. *)

LEMMA FirstRestoredIsFirst == \A s \in Settings : ~RestoredBefore(s, FirstRestored)
<1> SUFFICES ASSUME NEW s \in Settings PROVE ~RestoredBefore(s, FirstRestored)
  OBVIOUS
<1>1. s.card \in 1 .. D /\ s.knob \in 1 .. K /\ D \in Nat /\ K \in Nat
  BY OverclockAssumption DEF Settings, OverclockAssumption
<1>2. FirstRestored.card = 1 /\ FirstRestored.knob = K
  BY DEF FirstRestored
<1> QED BY <1>1, <1>2 DEF RestoredBefore

LEMMA NextRestoredIsNext ==
  ASSUME NEW t \in Settings
  PROVE  \A s \in Settings :
           NextRestored(t) = NoSetting \/ RestoredBefore(s, NextRestored(t))
             => RestoredBefore(s, t) \/ s = t
<1> SUFFICES ASSUME NEW s \in Settings,
                    NextRestored(t) = NoSetting \/ RestoredBefore(s, NextRestored(t))
             PROVE  RestoredBefore(s, t) \/ s = t
  OBVIOUS
<1> USE OverclockAssumption DEF OverclockAssumption
<1>1. /\ s.card \in 1 .. D /\ s.knob \in 1 .. K
      /\ t.card \in 1 .. D /\ t.knob \in 1 .. K
  BY DEF Settings
<1>2. s = t <=> s.card = t.card /\ s.knob = t.knob
  BY SettingsByField
<1>3. NextRestored(t) \in Settings \/ NextRestored(t) = NoSetting
  BY NextRestoredType
<1>4. CASE t.knob > 1
  <2>1. NextRestored(t) = [card |-> t.card, knob |-> t.knob - 1]
    BY <1>4 DEF NextRestored, Settings
  <2>2. NextRestored(t) \in Settings
    BY <1>1, <1>4, <2>1 DEF Settings
  <2>3. RestoredBefore(s, NextRestored(t))
    BY <2>2, NoSettingIsNone
  <2>4. NextRestored(t).card = t.card /\ NextRestored(t).knob = t.knob - 1
    BY <2>1
  <2> QED BY <1>1, <1>2, <2>3, <2>4 DEF RestoredBefore
<1>5. CASE ~(t.knob > 1) /\ t.card < D
  <2>1. NextRestored(t) = [card |-> t.card + 1, knob |-> K]
    BY <1>5 DEF NextRestored
  <2>2. NextRestored(t) \in Settings
    BY <1>1, <1>5, <2>1 DEF Settings
  <2>3. RestoredBefore(s, NextRestored(t))
    BY <2>2, NoSettingIsNone
  <2>4. NextRestored(t).card = t.card + 1 /\ NextRestored(t).knob = K
    BY <2>1
  <2> QED BY <1>1, <1>2, <1>5, <2>3, <2>4 DEF RestoredBefore
<1>6. CASE ~(t.knob > 1) /\ ~(t.card < D)
  BY <1>1, <1>2, <1>6 DEF RestoredBefore
<1> QED BY <1>4, <1>5, <1>6

\* One leaver's conjuncts of SoloInv.
SoloAt(l) ==
  ~early /\ Solo(l) =>
    /\ lpc[l] \in {"visit", "count", "undo"} =>
         \A s \in Settings : RestoredBefore(s, at[l]) => card[s] = 0
    /\ lpc[l] \notin {"off", "terminal", "cook"} => ~raw
    /\ lpc[l] = "die" /\ Restores => \A s \in Settings : card[s] = 0

\* With main through, and one leaver alone that does not hold s and has not to come to
\* it, s is at stock unless its flag is up.
LEMMA StockUnlessFlagged ==
  ASSUME TypeOK, Ledger, pc \in SettledPCs, NEW l \in Leavers, Solo(l), lpc[l] = "visit",
         ~applied[at[l]]
  PROVE  card[at[l]] = 0
<1>1. at[l] \in Settings
  BY DEF Ledger, Positions
<1>2. \A m \in Leavers : ~Holds(m, at[l])
  BY DEF Solo, Holds
<1>3. ~Recording(at[l])
  BY DEF Recording, SettledPCs
<1>4. at[l] \notin Changed
  BY <1>2, <1>3 DEF Ledger, NothingForgotten
<1> QED BY <1>1, <1>4, OverclockAssumption DEF Changed, TypeOK, OverclockAssumption

\* Moving on past a setting that is at stock.
LEMMA AdvanceKeepsSolo ==
  ASSUME TypeOK, Ledger, NEW l \in Leavers, SoloAt(l), ~early, Solo(l), Advance(l),
         lpc[l] \in {"visit", "undo"}, card[at[l]] = 0, UNCHANGED <<card, raw, early>>
  PROVE  SoloAt(l)'
<1>1. at[l] \in Settings
  BY DEF Ledger, Positions
<1>2. at'[l] = NextRestored(at[l])
      /\ lpc'[l] = IF NextRestored(at[l]) = NoSetting THEN "die" ELSE "visit"
  BY DEF Advance, Leave, TypeOK
<1>3. \A s \in Settings :
        NextRestored(at[l]) = NoSetting \/ RestoredBefore(s, NextRestored(at[l]))
          => card[s] = 0
  BY <1>1, NextRestoredIsNext DEF SoloAt
<1>4. ~raw'
  BY DEF SoloAt
<1>5. lpc'[l] \in {"visit", "count", "undo"} =>
        \A s \in Settings : RestoredBefore(s, at'[l]) => card'[s] = 0
  BY <1>2, <1>3
<1>6. lpc'[l] = "die" => \A s \in Settings : card'[s] = 0
  BY <1>2, <1>3
<1> QED BY <1>4, <1>5, <1>6 DEF SoloAt, RestoredBefore

LEMMA LeaverKeepsSolo ==
  ASSUME TypeOK, Ledger, WayOut, NEW l \in Leavers, Leaver(l)
  PROVE  SoloInv'
<1>0. /\ UNCHANGED <<handler, atexit, prev, pc, cur, done, early>>
      /\ lpc[l] # "off" /\ lpc'[l] # "off"
      /\ \A m \in Leavers \ {l} : lpc'[m] = lpc[m] /\ at'[m] = at[m]
      /\ raw' => raw
  BY LeaverFrame
<1>1. \A m \in Leavers \ {l} : SoloAt(m)'
  BY <1>0 DEF SoloAt, Solo
<1> SUFFICES ASSUME ~early, Solo(l) PROVE SoloAt(l)'
  <2>1. Solo(l)' => Solo(l)
    BY <1>0 DEF Solo
  <2>2. (early \/ ~Solo(l)) => SoloAt(l)'
    BY <1>0, <2>1 DEF SoloAt
  <2>3. (\A m \in Leavers : SoloAt(m)') => SoloInv'
    BY DEF SoloAt, SoloInv, Solo, RestoredBefore
  <2> QED BY <1>1, <2>2, <2>3
<1>2. SoloAt(l)
  BY DEF WayOut, SoloInv, SoloAt
<1>3. pc \in SettledPCs
  BY <1>0 DEF WayOut, SettledInv
<1>4. cur = NoSetting
  BY <1>3 DEF Ledger, Positions, SettledPCs, ApplyPCs
<1>5. \A m \in Leavers : lpc[m] = "cook" => m = l
  BY DEF Solo
<1> USE DEF Leave, mainVars, leaverVars, ocVars, keysVars
<1>6. CASE TakeTerminal(l)
  <2>1. lpc[l] = "terminal" /\ lpc'[l] = (IF rawActive THEN "cook" ELSE "chain") /\ raw' = raw
    BY <1>6 DEF TakeTerminal, TypeOK
  <2>2. ~rawActive => ~raw
    BY <1>3, <1>5, <2>1 DEF WayOut, RawInv, SettledPCs
  <2> QED BY <2>1, <2>2 DEF SoloAt
<1>7. CASE Cook(l)
  <2>1. lpc'[l] = "chain" /\ raw' = FALSE
    BY <1>7 DEF Cook, TypeOK
  <2> QED BY <2>1 DEF SoloAt
<1>8. CASE Chain(l)
  <2>1. ~raw' /\ card' = card
    BY <1>0, <1>2, <1>8 DEF Chain, SoloAt
  <2>2. CASE lpc'[l] = "visit"
    <3>1. at'[l] = FirstRestored
      BY <1>8, <2>2 DEF Chain, EnterRestore, TypeOK
    <3> QED BY <2>1, <2>2, <3>1, FirstRestoredIsFirst DEF SoloAt, RestoredBefore
  <2>3. CASE lpc'[l] = "die" /\ Restores
    <3>1. ~(IF l = "exit" THEN atexit ELSE prev[l] = "restore")
      BY <1>8, <2>3 DEF Chain, EnterRestore, TypeOK
    <3>2. ~atexit
      <4>1. CASE l = "exit"
        BY <3>1, <4>1
      <4>2. CASE l \in Signals
        <5>1. handler[l] = "keys"
          BY <1>8, <4>2 DEF Chain, WayOut, KeysInv
        <5>2. pc # NotingPrev[l]
          BY <1>3, <4>2 DEF SettledPCs, NotingPrev, Signals
        <5> QED BY <3>1, <4>2, <5>1, <5>2 DEF WayOut, HandlersInv, Signals
      <4> QED BY <4>1, <4>2 DEF Leavers
    <3>3. Changed = {}
      BY <1>4, <3>2, NoSettingIsNone DEF WayOut, HooksInv, Changed
    <3>4. \A s \in Settings : card[s] = 0
      BY <3>3, OverclockAssumption DEF Changed, TypeOK, OverclockAssumption
    <3> QED BY <2>1, <2>3, <3>4 DEF SoloAt
  <2>4. lpc'[l] \in {"visit", "die"}
    BY <1>8 DEF Chain, EnterRestore, TypeOK
  <2> QED BY <2>1, <2>2, <2>3, <2>4 DEF SoloAt
<1>9. CASE Visit(l)
  <2>1. lpc[l] = "visit" /\ UNCHANGED <<card, raw, early>>
    BY <1>9 DEF Visit
  <2>2. CASE applied[at[l]]
    <3>1. lpc'[l] = "count" /\ at' = at
      BY <1>9, <2>2 DEF Visit, TypeOK
    <3> QED BY <1>2, <2>1, <3>1 DEF SoloAt, RestoredBefore
  <2>3. CASE ~applied[at[l]]
    BY <1>2, <1>3, <1>9, <2>1, <2>3, StockUnlessFlagged, AdvanceKeepsSolo DEF Visit
  <2> QED BY <2>2, <2>3
<1>10. CASE Count(l)
  <2>1. lpc[l] = "count" /\ lpc'[l] = "undo" /\ UNCHANGED <<card, raw, at>>
    BY <1>10 DEF Count, TypeOK
  <2> QED BY <1>2, <2>1 DEF SoloAt, RestoredBefore
<1>11. CASE Undo(l)
  <2>1. lpc[l] = "undo" /\ UNCHANGED <<lpc, raw, at>> /\ at[l] \in Settings
    BY <1>11 DEF Undo, Ledger, Positions
  <2>2. \A s \in Settings : s # at[l] => card'[s] = card[s]
    BY <1>11 DEF Undo, TypeOK
  <2>3. ~RestoredBefore(at[l], at[l])
    BY <2>1, OverclockAssumption DEF RestoredBefore, Settings, OverclockAssumption
  <2> QED BY <1>2, <2>1, <2>2, <2>3 DEF SoloAt, RestoredBefore
<1>12. CASE Undone(l)
  <2>1. lpc[l] = "undo" /\ UNCHANGED <<card, raw, early>> /\ card[at[l]] = 0
    BY <1>12 DEF Undone, Ledger, Counted
  <2> QED BY <1>2, <1>12, <2>1, AdvanceKeepsSolo DEF Undone
<1>13. CASE Die(l)
  BY <1>2, <1>13 DEF Die, SoloAt, RestoredBefore
<1> QED BY <1>6, <1>7, <1>8, <1>9, <1>10, <1>11, <1>12, <1>13 DEF Leaver

LEMMA NextSolo == TypeOK /\ Ledger /\ WayOut /\ [Next]_vars => SoloInv'
<1> SUFFICES ASSUME TypeOK, Ledger, WayOut, [Next]_vars PROVE SoloInv'
  OBVIOUS
<1> USE DEF mainVars, leaverVars, ocVars, keysVars
<1>0. SoloInv /\ SettledInv
  BY DEF WayOut
<1>1. CASE Main
  <2>1. UNCHANGED <<lpc, at, early>>
    BY <1>1 DEF Main, Write, NotWritten, Save, Raise, Hooks, Measure, HandBack, Mine, EnterRaw,
       NoteRaw, InstallKeys, NotePrev
  <2>2. pc \notin SettledPCs \/ UNCHANGED <<card, raw>>
    BY <1>1 DEF Main, Write, NotWritten, Save, Raise, Hooks, Measure, HandBack, Mine, EnterRaw,
       NoteRaw, InstallKeys, NotePrev, SettledPCs
  <2>3. CASE UNCHANGED <<card, raw>>
    BY <1>0, <2>1, <2>3 DEF SoloInv, Solo, RestoredBefore
  <2>4. CASE pc \notin SettledPCs
    BY <1>0, <2>1, <2>4 DEF SoloInv, SettledInv
  <2> QED BY <2>2, <2>3, <2>4
<1>2. CASE ExitBegins
  <2>1. /\ "exit" \in Leavers /\ lpc'["exit"] = "terminal"
        /\ \A m \in Leavers \ {"exit"} : lpc'[m] = lpc[m]
        /\ UNCHANGED <<card, raw, at, early>>
    BY <1>2 DEF ExitBegins, Leavers, Leave, TypeOK
  <2>2. \A m \in Leavers \ {"exit"} : ~Solo(m)'
    BY <2>1 DEF Solo
  <2> QED BY <2>1, <2>2 DEF SoloInv
<1>3. ASSUME NEW sig \in Signals, SignalKills(sig) PROVE SoloInv'
  BY <1>0, <1>3 DEF SignalKills, SoloInv, Solo, RestoredBefore
<1>4. ASSUME NEW sig \in Signals, HandlerBegins(sig) PROVE SoloInv'
  <2>1. sig \in Leavers /\ UNCHANGED <<card, raw>> /\ lpc'[sig] \in {"terminal", "visit", "die"}
    BY <1>4 DEF HandlerBegins, EnterRestore, Leavers, Leave, TypeOK
  <2>2. \A m \in Leavers \ {sig} : ~Solo(m)'
    BY <2>1 DEF Solo
  <2>3. lpc'[sig] = "visit" => at'[sig] = FirstRestored
    BY <1>4, <2>1 DEF HandlerBegins, EnterRestore, Leave, TypeOK
  <2>4. lpc'[sig] = "die" => ~Restores
    BY <1>4, <2>1 DEF HandlerBegins, EnterRestore, Leave, TypeOK
  <2>5. ~early' /\ lpc'[sig] # "terminal" => ~raw
    <3> SUFFICES ASSUME ~early', lpc'[sig] # "terminal" PROVE ~raw
      OBVIOUS
    <3>1. handler[sig] = "restore" /\ pc \in SettledPCs
      BY <1>4, <2>1 DEF HandlerBegins, Leave, TypeOK
    <3> QED BY <3>1 DEF WayOut, RawInv, SettledPCs
  <2> QED BY <2>1, <2>2, <2>3, <2>4, <2>5, FirstRestoredIsFirst DEF SoloInv, RestoredBefore
<1>5. ASSUME NEW l \in Leavers, Leaver(l) PROVE SoloInv'
  BY <1>5, LeaverKeepsSolo
<1>6. CASE UNCHANGED vars
  BY <1>0, <1>6 DEF vars, SoloInv, Solo, RestoredBefore
<1> QED BY <1>1, <1>2, <1>3, <1>4, <1>5, <1>6 DEF Next

LEMMA WayOutHolds == Spec => [](TypeOK /\ Ledger /\ WayOut)
<1>1. TypeOK /\ Ledger /\ WayOut /\ [Next]_vars => WayOut'
  BY NextSettled, NextHooks, NextHandlers, NextKeys, NextRaw, NextSolo DEF WayOut
<1> QED BY <1>1, InitLedger, InitWayOut, NextType, NextLedger, PTL DEF Spec

\* One way out, taken alone once everything is recorded, leaves every card at stock
\* and the terminal cooked (oc_restore, restore_terminal and the chaining in keys.cpp).
THEOREM OneWayOutRestoresAll == Spec => []AloneRestoresAll
<1>1. TypeOK /\ WayOut => AloneRestoresAll
  BY DEF WayOut, SoloInv, Solo, AloneRestoresAll, Changed
<1> QED BY <1>1, WayOutHolds, PTL

\* The power limit of a card is put back after everything else of it (oc_restore's
\* own order).
THEOREM PowerLimitIsLast == Spec => []PowerLimitLast
<1>1. TypeOK /\ Ledger /\ WayOut => PowerLimitLast
  <2> SUFFICES ASSUME TypeOK, Ledger, WayOut, NEW l \in Leavers, lpc[l] = "undo",
                      at[l].knob = 1, ~early, Solo(l), NEW s \in Changed, s.card = at[l].card
               PROVE  s.knob = 1
    BY DEF PowerLimitLast, Solo
  <2>1. s \in Settings /\ card[s] > 0
    BY DEF Changed
  <2>2. ~RestoredBefore(s, at[l])
    BY <2>1 DEF WayOut, SoloInv
  <2>3. s.knob \in 1 .. K /\ K \in Nat
    BY <2>1, OverclockAssumption DEF Settings, OverclockAssumption
  <2> QED BY <2>2, <2>3 DEF RestoredBefore
<1> QED BY <1>1, WayOutHolds, PTL

\* Past the first hooks, no signal kills the process outright while a setting waits
\* to be put back (oc_install_restore_hooks, MeasureSignals).
THEOREM SignalsAreCovered == Spec => []SignalsStayCovered
<1>1. Init => SignalsStayCovered
  BY DEF Init, SignalsStayCovered
<1>2. TypeOK /\ SignalsStayCovered /\ [Next]_vars => SignalsStayCovered'
  <2> SUFFICES ASSUME TypeOK, SignalsStayCovered, [Next]_vars PROVE SignalsStayCovered'
    OBVIOUS
  <2> USE DEF SignalsStayCovered, Goto, mainVars, leaverVars, ocVars, keysVars
  <2>1. CASE Write \/ Save \/ Raise \/ Mine \/ EnterRaw \/ NoteRaw
    BY <2>1 DEF Write, Save, Raise, Mine, EnterRaw, NoteRaw
  <2>2. CASE NotWritten
    BY <2>2 DEF NotWritten, NextSetting
  <2>3. CASE Hooks
    BY <2>3 DEF Hooks
  <2>4. CASE Measure
    BY <2>4 DEF Measure, TypeOK
  <2>5. CASE HandBack
    BY <2>5 DEF HandBack, Pending
  <2>6. ASSUME NEW sig \in Signals, InstallKeys(sig) \/ NotePrev(sig) PROVE SignalsStayCovered'
    BY <2>6 DEF InstallKeys, NotePrev, Signals, NotingPrev, TypeOK
  <2>7. ASSUME NEW sig \in Signals, SignalKills(sig) \/ HandlerBegins(sig)
        PROVE  SignalsStayCovered'
    BY <2>7 DEF SignalKills, HandlerBegins
  <2>8. CASE ExitBegins
    BY <2>8 DEF ExitBegins
  <2>9. ASSUME NEW l \in Leavers, Leaver(l) PROVE SignalsStayCovered'
    <3>1. UNCHANGED <<handler, pc>>
      BY <2>9, LeaverFrame
    <3>2. \A s \in Settings : applied'[s] => applied[s]
      BY <2>9 DEF Leaver, TakeTerminal, Cook, Chain, Visit, Taken, Count, Undo, Undone, Die, TypeOK
    <3> QED BY <3>1, <3>2
  <2>10. CASE UNCHANGED vars
    BY <2>10 DEF vars
  <2> QED BY <2>1, <2>2, <2>3, <2>4, <2>5, <2>6, <2>7, <2>8, <2>9, <2>10 DEF Next, Main
<1> QED BY <1>1, <1>2, InitLedger, NextType, NextLedger, PTL DEF Spec
===============================================================================
