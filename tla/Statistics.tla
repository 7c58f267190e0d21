------------------------------ MODULE Statistics ------------------------------
(***************************************************************************)
(* Which share an answer belongs to: src/src/miner/stats.cpp with the      *)
(* callbacks of main.cpp that feed it.                                     *)
(*                                                                         *)
(* An engine that found a share has the statistics note the submit and     *)
(* then writes the share to the pool its job came from.  The pool answers  *)
(* in order, but an answer names no share: the statistics take the oldest  *)
(* submit of that origin still open, and charge the verdict to its card,   *)
(* the bank and the latency to its units and its time.  Engines note and   *)
(* write on threads of their own; a connection that drops takes the shares *)
(* on the way with it.                                                     *)
(*                                                                         *)
(* Every record_... call is one critical section of mutex_ and one step.   *)
(* The best and recent shares, the rates over windows of time and the      *)
(* connection's particulars are kept beside all this and left out.         *)
(***************************************************************************)
EXTENDS Integers, Sequences, SequencesExt, FiniteSets

CONSTANTS
  Devices,   \* the mining devices
  Verdicts,  \* what a pool may answer: accepted, or one of those that pay nothing
  Cap,       \* kSubmitCap
  UserTargets, FeeTargets,  \* difficulties, in display units, each pool may set
  MaxShares  \* bound: shares found

ASSUME StatisticsAssumption ==
  /\ IsFiniteSet(Devices)
  /\ "accepted" \in Verdicts
  /\ Cap \in Nat \ {0}
  /\ UserTargets \subseteq Nat \ {0}
  /\ FeeTargets \subseteq Nat \ {0}
  /\ MaxShares \in Nat

Origins == {"Main", "Dev"}
TargetsOf(o) == IF o = "Main" THEN UserTargets ELSE FeeTargets
Targets == UserTargets \cup FeeTargets

\* A share and the difficulty of the job it was found for.
Shares == [id : 1 .. MaxShares, origin : Origins, goal : Targets]
NoShare == [none |-> TRUE]

\* PendingSubmit; which share it was is history.
Submits == [share : Shares, device : Devices, origin : Origins, units : Targets]

VARIABLES
  \* The statistics.
  target,    \* last_job_units_, devfee_last_job_units_; 0 before a job
  submits,   \* submits_
  rig,       \* accepted_, stale_, rejected_
  fee,       \* devfee_accepted_, devfee_stale_, devfee_rejected_
  ledger,    \* devices_[d].accepted, .stale, .rejected
  banked,    \* accepted_units_
  \* The engines.
  mining,    \* whose job each one works on, and its difficulty
  pc,        \* "mine", then through submit_fn: "found", "noted"
  share,     \* the share in submit_fn
  \* The connections.
  open,
  wire       \* shares written and not answered

\* History.
VARIABLES
  found,     \* shares found so far
  mispaired, \* an answer of this origin was taken for another share than its own
  inOrder,   \* no answer of this origin was lost, no two writes overlapped, no submit
             \* was forgotten
  moved,     \* a share was noted under another difficulty than its own
  evicted,   \* submits_ was full
  earned     \* sum of the difficulties of the user's accepted shares

statsVars == <<target, submits, rig, fee, ledger, banked>>
engineVars == <<mining, pc, share>>
wireVars == <<open, wire>>
historyVars == <<found, mispaired, inOrder, moved, evicted, earned>>
vars == <<statsVars, engineVars, wireVars, historyVars>>

Counts == [Verdicts -> 0 .. MaxShares]

TypeOK ==
  /\ target \in [Origins -> Targets \cup {0}]
  /\ submits \in Seq(Submits) /\ Len(submits) <= Cap
  /\ rig \in Counts /\ fee \in Counts
  /\ ledger \in [Devices -> Counts]
  /\ banked \in Nat
  /\ mining \in [Devices -> {NoShare} \cup [origin : Origins, goal : Targets]]
  /\ pc \in [Devices -> {"mine", "found", "noted"}]
  /\ share \in [Devices -> Shares \cup {NoShare}]
  /\ open \in [Origins -> BOOLEAN]
  /\ wire \in [Origins -> Seq(Shares)]
  /\ found \in 0 .. MaxShares
  /\ mispaired \in [Origins -> BOOLEAN]
  /\ inOrder \in [Origins -> BOOLEAN]
  /\ moved \in BOOLEAN
  /\ evicted \in BOOLEAN
  /\ earned \in Nat

None == [v \in Verdicts |-> 0]

Init ==
  /\ target = [o \in Origins |-> 0]
  /\ submits = << >> /\ rig = None /\ fee = None
  /\ ledger = [d \in Devices |-> None]
  /\ banked = 0
  /\ mining = [d \in Devices |-> NoShare]
  /\ pc = [d \in Devices |-> "mine"]
  /\ share = [d \in Devices |-> NoShare]
  /\ open = [o \in Origins |-> TRUE]
  /\ wire = [o \in Origins |-> << >>]
  /\ found = 0 /\ mispaired = [o \in Origins |-> FALSE]
  /\ inOrder = [o \in Origins |-> TRUE]
  /\ moved = FALSE /\ evicted = FALSE /\ earned = 0
-----------------------------------------------------------------------------
(* Jobs.  An operator whose name ends in _Fault and a word is the one below  *)
(* it with a plausible mistake; no action uses it.                           *)

\* on_job: the statistics hear of a job before the router does.
RecordJob(o, units) ==
  /\ target' = [target EXCEPT ![o] = units]
  /\ UNCHANGED <<submits, rig, fee, ledger, banked, engineVars, wireVars, historyVars>>

\* The router hands the engine the last job of one of the pools.
TakeJob(d, o) ==
  /\ pc[d] = "mine"
  /\ target[o] # 0
  /\ mining' = [mining EXCEPT ![d] = [origin |-> o, goal |-> target[o]]]
  /\ UNCHANGED <<statsVars, pc, share, wireVars, historyVars>>
-----------------------------------------------------------------------------
(* submit_fn, on the engine's thread.                                        *)

Find(d) ==
  /\ pc[d] = "mine"
  /\ mining[d] # NoShare
  /\ found < MaxShares
  /\ found' = found + 1
  /\ share' = [share EXCEPT ![d] = [id |-> found + 1, origin |-> mining[d].origin,
                                    goal |-> mining[d].goal]]
  /\ pc' = [pc EXCEPT ![d] = "found"]
  /\ UNCHANGED <<statsVars, mining, wireVars, mispaired, inOrder, moved, evicted, earned>>

\* Two engines between noting and writing for one pool may write in the other order.
Overlaps(d) ==
  \E e \in Devices \ {d} : pc[e] = "noted" /\ share[e].origin = share[d].origin

\* The list holds Cap submits and forgets the oldest.
Newest(q) == IF Len(q) > Cap THEN Tail(q) ELSE q

\* The difficulty an accepted share will be banked at: that of the origin's last job.
Units(o) == target[o]

RecordSubmit(d) ==
  LET s == share[d]
      entry == [share |-> s, device |-> d, origin |-> s.origin, units |-> Units(s.origin)]
      full == Len(submits) = Cap
  IN
  /\ pc[d] = "found"
  /\ submits' = Newest(Append(submits, entry))
  /\ pc' = [pc EXCEPT ![d] = "noted"]
  /\ moved' = (moved \/ target[s.origin] # s.goal)
  /\ evicted' = (evicted \/ full)
  /\ inOrder' = [o \in Origins |->
                   /\ inOrder[o]
                   /\ ~(o = s.origin /\ Overlaps(d))
                   /\ ~(full /\ Head(submits).origin = o)]
  /\ UNCHANGED <<target, rig, fee, ledger, banked, mining, share, wireVars, found, mispaired,
                 earned>>

\* The share goes to the pool its job came from, or nowhere when that is down.
Send(d) ==
  LET s == share[d] IN
  /\ pc[d] = "noted"
  /\ wire' = IF open[s.origin] THEN [wire EXCEPT ![s.origin] = Append(@, s)] ELSE wire
  /\ inOrder' = [inOrder EXCEPT ![s.origin] = @ /\ open[s.origin]]
  /\ pc' = [pc EXCEPT ![d] = "mine"]
  /\ share' = [share EXCEPT ![d] = NoShare]
  /\ UNCHANGED <<statsVars, mining, open, found, mispaired, moved, evicted, earned>>
-----------------------------------------------------------------------------
(* The pool's answers, on the connection's thread.                           *)

OldestOf_FaultAnyOrigin(o) == IF submits = << >> THEN 0 ELSE 1

\* Where the oldest open submit of that origin is in the list; 0 if there is none.
OldestOf(o) == SelectInSeq(submits, LAMBDA s : s.origin = o)

Paid_FaultCurrentTarget(i) == target["Main"]

\* What an accepted share is banked at: the difficulty it was noted under.
Paid(i) == submits[i].units

Credit_FaultPaidOnly(d, v) ==
  IF v = "accepted" THEN [ledger EXCEPT ![d][v] = @ + 1] ELSE ledger

Credit(d, v) == [ledger EXCEPT ![d][v] = @ + 1]

\* record_result(): totals first, then the bank and the card's row of the submit the
\* answer is taken to be for.
RecordResult(o, v) ==
  LET own == Head(wire[o])
      i == OldestOf(o)
      user == o = "Main"
  IN
  /\ wire[o] # << >>
  /\ wire' = [wire EXCEPT ![o] = Tail(@)]
  /\ rig' = IF user THEN [rig EXCEPT ![v] = @ + 1] ELSE rig
  /\ fee' = IF user THEN fee ELSE [fee EXCEPT ![v] = @ + 1]
  /\ submits' = IF i = 0 THEN submits ELSE RemoveAt(submits, i)
  /\ banked' = IF i # 0 /\ user /\ v = "accepted" THEN banked + Paid(i)
               ELSE banked
  /\ ledger' = IF i # 0 /\ user THEN Credit(submits[i].device, v) ELSE ledger
  /\ mispaired' = [mispaired EXCEPT ![o] = @ \/ i = 0 \/ (i # 0 /\ submits[i].share # own)]
  /\ earned' = IF user /\ v = "accepted" THEN earned + own.goal ELSE earned
  /\ UNCHANGED <<target, engineVars, open, found, inOrder, moved, evicted>>

\* A connection drops with what was on the way; the submits stay open.
Drop(o) ==
  /\ open[o]
  /\ open' = [open EXCEPT ![o] = FALSE]
  /\ wire' = [wire EXCEPT ![o] = << >>]
  /\ inOrder' = [inOrder EXCEPT ![o] = @ /\ wire[o] = << >>]
  /\ UNCHANGED <<statsVars, engineVars, found, mispaired, moved, evicted, earned>>

Reconnect(o) ==
  /\ ~open[o]
  /\ open' = [open EXCEPT ![o] = TRUE]
  /\ UNCHANGED <<statsVars, engineVars, wire, historyVars>>
-----------------------------------------------------------------------------
Next ==
  \/ \E o \in Origins :
       \/ \E units \in TargetsOf(o) : RecordJob(o, units)
       \/ \E d \in Devices : TakeJob(d, o)
       \/ \E v \in Verdicts : RecordResult(o, v)
       \/ Drop(o) \/ Reconnect(o)
  \/ \E d \in Devices : Find(d) \/ RecordSubmit(d) \/ Send(d)

Spec == Init /\ [][Next]_vars
-----------------------------------------------------------------------------
(* Properties.                                                               *)

\* The cards' rows add up to the rig's totals: a submit is noted before it is written,
\* so an answer finds one of its origin open, unless the list was once full
\* (record_result, main.cpp's submit_fn).
LedgerCoversRig ==
  ~evicted => \A v \in Verdicts : SumFunction([d \in Devices |-> ledger[d][v]]) = rig[v]

\* An answer is taken for the share it is for, and the two pools' answers never for
\* each other's shares, as long as no answer of that pool was lost and no two cards
\* were writing to it at once (record_result's pairing); then, while none was noted
\* under a later job's difficulty, the bank is the summed difficulty of the user's
\* accepted shares (accepted_units_, stats.h).
PairedInOrder ==
  /\ \A o \in Origins : inOrder[o] => ~mispaired[o]
  /\ inOrder["Main"] /\ ~moved => banked = earned

=============================================================================
