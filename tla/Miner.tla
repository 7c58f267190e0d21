-------------------------------- MODULE Miner --------------------------------
(***************************************************************************)
(* What a mining engine promises to whoever posts jobs to it and receives  *)
(* its solutions, without threads, locks, condition variables, abort flags *)
(* or backoffs: a slot in which the latest job waits, the job being mined, *)
(* and one attempt at a time, each with a number no attempt has had.  The  *)
(* state of a lane that there is at most one of is a set with at most one  *)
(* element.  Engine is shown to implement this specification.              *)
(***************************************************************************)

CONSTANTS
  Lanes,    \* the engines
  Entries,  \* what can be posted: records with an id
  Bad       \* the entries that cannot be mined

VARIABLES
  slot,     \* the entry waiting for the lane
  halt,     \* the lane was asked to stop
  mining,   \* the entry the lane works on
  attempt,  \* the number of the attempt being made
  passed,   \* the attempt in hand has passed the test for being out of date
  late,     \* an attempt was begun although something else was waiting
  used,     \* the numbers of all attempts of all lanes
  posted,   \* the entries posted so far
  shares    \* what was delivered

miner == <<slot, halt, mining, attempt, passed, late, used, posted, shares>>

Init ==
  /\ slot = [e \in Lanes |-> {}]
  /\ halt = [e \in Lanes |-> FALSE]
  /\ mining = [e \in Lanes |-> {}]
  /\ attempt = [e \in Lanes |-> {}]
  /\ passed = [e \in Lanes |-> FALSE]
  /\ late = [e \in Lanes |-> FALSE]
  /\ used = {} /\ posted = {} /\ shares = {}

\* Something waits that the lane must turn to.
Waiting(e) == slot[e] # {} \/ halt[e]

\* The slot keeps the last entry posted: one that was still waiting is lost.
Post(e, x) ==
  /\ slot' = [slot EXCEPT ![e] = {x}]
  /\ posted' = posted \cup {x}
  /\ UNCHANGED <<halt, mining, attempt, passed, late, used, shares>>

\* The entry leaves the slot whole; one that cannot be mined is dropped.
TakeUp(e) ==
  /\ slot[e] # {} /\ ~halt[e] /\ mining[e] = {}
  /\ slot' = [slot EXCEPT ![e] = {}]
  /\ mining' = [mining EXCEPT ![e] = slot[e] \ Bad]
  /\ late' = [late EXCEPT ![e] = FALSE]
  /\ UNCHANGED <<halt, attempt, passed, used, posted, shares>>

\* A job is only left for another one or for a stop, between two attempts.
LayDown(e) ==
  /\ mining[e] # {} /\ attempt[e] = {} /\ Waiting(e)
  /\ mining' = [mining EXCEPT ![e] = {}]
  /\ UNCHANGED <<slot, halt, attempt, passed, late, used, posted, shares>>

\* At most one attempt is begun while something else waits.
Begin(e) ==
  /\ mining[e] # {} /\ attempt[e] = {}
  /\ Waiting(e) => ~late[e]
  /\ \E n \in used' \ used :
       /\ used' = used \cup {n}
       /\ attempt' = [attempt EXCEPT ![e] = {n}]
  /\ late' = [late EXCEPT ![e] = Waiting(e)]
  /\ UNCHANGED <<slot, halt, mining, passed, posted, shares>>

\* An attempt whose job was overtaken by one with another id does not pass.
Pass(e) ==
  /\ attempt[e] # {} /\ ~passed[e]
  /\ \A x \in slot[e], y \in mining[e] : x.id = y.id
  /\ passed' = [passed EXCEPT ![e] = TRUE]
  /\ UNCHANGED <<slot, halt, mining, attempt, late, used, posted, shares>>

\* A solution carries the entry mined and the number of the attempt that found it.
Deliver(e) ==
  /\ passed[e]
  /\ \E x \in mining[e], n \in attempt[e] :
       shares' = shares \cup {[entry |-> x, lane |-> e, nonce |-> n]}
  /\ UNCHANGED <<slot, halt, mining, attempt, passed, late, used, posted>>

\* An attempt ends: it is through, it was overtaken, or it failed.
End(e) ==
  /\ attempt[e] # {}
  /\ attempt' = [attempt EXCEPT ![e] = {}]
  /\ passed' = [passed EXCEPT ![e] = FALSE]
  /\ UNCHANGED <<slot, halt, mining, late, used, posted, shares>>

Halt(e) ==
  /\ halt' = [halt EXCEPT ![e] = TRUE]
  /\ UNCHANGED <<slot, mining, attempt, passed, late, used, posted, shares>>

\* A lane starts again with nothing in hand; what waits in the slot stays there.
Resume(e) ==
  /\ mining[e] = {}
  /\ halt' = [halt EXCEPT ![e] = FALSE]
  /\ UNCHANGED <<slot, mining, attempt, passed, late, used, posted, shares>>

Next ==
  \E e \in Lanes :
    \/ \E x \in Entries : Post(e, x)
    \/ TakeUp(e) \/ LayDown(e)
    \/ Begin(e) \/ Pass(e) \/ Deliver(e) \/ End(e)
    \/ Halt(e) \/ Resume(e)

Spec == Init /\ [][Next]_miner
=============================================================================
