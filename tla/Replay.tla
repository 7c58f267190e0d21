-------------------------------- MODULE Replay --------------------------------
(***************************************************************************)
(* The way back, replay_pairs(), replay_r4() and replay_r3() of            *)
(* src/kernels/cuda/pipeline_kernels.cuh.  No round writes down which two  *)
(* elements a child came from.  Recovery takes a child's record, which     *)
(* names the bucket its block read, stages that bucket of the round's      *)
(* input again and looks for the pair whose child is this one: the keys    *)
(* are put on the chains of a table (not a perfect hash this time), every  *)
(* lane appends the equal-key pairs of its element to one bounded list,    *)
(* and the block then tries the listed pairs.  A lane that finds the list  *)
(* full resumes where it was after the list has been emptied.              *)
(*                                                                         *)
(* A child is identified by what it is made of: two pairs of elements are  *)
(* taken never to have the same child.                                     *)
(***************************************************************************)
EXTENDS FusedRound

CONSTANTS
  RepN,    \* kRepN, dense elements a replay stages
  RepTab,  \* kRepTab
  RepPair  \* kRepPair, pairs the list holds

ASSUME ReplayAssumption == {RepN, RepTab, RepPair} \subseteq Nat \ {0}

VARIABLES
  survivor,         \* the survivor: its two parents' records; empty before the terminal round
  half,             \* the replay's block: which of the two it is for
  pool,             \* apool: the pool members staged
  head, nxt,        \* the chains of the replay's table
  pairs, npairs,    \* the list, and what its counter says
  worker,           \* per thread: where it is, its element and its place on the chain
  l3Slots, l4Lead,  \* per half: the slots <<left, right>> found, empty so far; the lead
  leaves            \* the elements the survivor is made of; empty before recovery
replayVars == <<survivor, half, pool, head, nxt, pairs, npairs, worker, l3Slots, l4Lead, leaves>>
tableVars == <<survivor, half, pool, l3Slots, l4Lead, leaves, drops>>

Halves == 1 .. 2
target == survivor[half]
Ident(c) == <<elem[c.left], elem[c.right]>>
Lead(c) == ElemAt(c.left).lead

\* Round by round a replay stages what the round did, the dense part cut to RepN.
RepDense == Min({Dense, RepN})
RepSlot(p) == IF p < RepDense THEN block.bucket * InCap + p ELSE PoolSlot(pool[p - RepDense + 1])
RepCount == RepDense + Len(pool)
RepKey(p) == ElemAt(RepSlot(p)).key

Worker(at, p, cur) == [at |-> at, p |-> p, cur |-> cur]
In(l, place) == worker[l].at = place
Move(l, w) == worker' = [worker EXCEPT ![l] = w]

\* Two children that cancel: which do is a matter of the hashes.  They are named in the
\* order the walk met them.
Survives(c, d) ==
  /\ BlockDone /\ survivor = <<>> /\ c # d
  /\ survivor' = <<c, d>>
  /\ UNCHANGED <<half, pool, head, nxt, pairs, npairs, worker, l3Slots, l4Lead, leaves, drops>>

\* A block per half, with shared memory of its own.
LaunchReplay ==
  /\ survivor # <<>> /\ half < 2
  /\ \A l \in LaneIds : worker[l].at = "idle"
  /\ half' = half + 1
  /\ pool' = IF kind.arena THEN SubSeq(PoolChain, 1, Min({Len(PoolChain), AMax})) ELSE <<>>
  /\ IF Dense > RepN THEN Drop("stage") ELSE UNCHANGED drops
  /\ worker' = [l \in LaneIds |-> Worker("insert", l, None)]
  /\ UNCHANGED <<survivor, head, nxt, pairs, npairs, l3Slots, l4Lead, leaves>>

ChainHead(p) == IF p < RepCount THEN head[RepKey(p) % RepTab] ELSE None

\* nxt[p] = atomicExch(&head[...], p), for every p of the lane.
Insert(l) ==
  LET p == worker[l].p
  IN
  /\ In(l, "insert")
  /\ IF p < RepCount
     THEN /\ nxt' = [nxt EXCEPT ![p] = ChainHead(p)]
          /\ head' = [head EXCEPT ![RepKey(p) % RepTab] = p]
          /\ Move(l, Worker("insert", p + Lanes, None))
     ELSE Move(l, Worker("inserted", l, None)) /\ UNCHANGED <<nxt, head>>
  /\ UNCHANGED <<tableVars, pairs, npairs>>

\* The next pair on the lane's chain that is the lane's to report: an earlier element
\* of the same key.
Match(p, q) == q < p /\ RepKey(q) = RepKey(p)
NextMatch(p, cur) ==
  LET from[q \in {None} \cup 0 .. InCap + AMax - 1] ==
        IF q = None \/ Match(p, q) THEN q ELSE from[nxt[q]]
  IN from[cur]

\* The pair that found no room is left out when the lane goes on.
AppendPair_FaultSkips(l) ==
  LET me == worker[l]
      q == NextMatch(me.p, me.cur)
  IN
  /\ In(l, "scan") /\ q # None
  /\ npairs' = npairs + 1
  /\ IF npairs >= RepPair
     THEN Move(l, Worker("scanned", me.p, nxt[q])) /\ UNCHANGED pairs
     ELSE pairs' = pairs \cup {<<me.p, q>>} /\ Move(l, Worker("scan", me.p, nxt[q]))
  /\ UNCHANGED <<tableVars, head, nxt>>

\* A lane appends a pair; when the list has no room for it, it stays at that pair.
AppendPair(l) ==
  LET me == worker[l]
      q == NextMatch(me.p, me.cur)
  IN
  /\ In(l, "scan") /\ q # None
  /\ npairs' = npairs + 1
  /\ IF npairs >= RepPair
     THEN Move(l, Worker("scanned", me.p, q)) /\ UNCHANGED pairs
     ELSE pairs' = pairs \cup {<<me.p, q>>} /\ Move(l, Worker("scan", me.p, nxt[q]))
  /\ UNCHANGED <<tableVars, head, nxt>>

ScanEnds(l) ==
  /\ In(l, "scan") /\ NextMatch(worker[l].p, worker[l].cur) = None
  /\ Move(l, Worker("scanned", worker[l].p, None))
  /\ UNCHANGED <<tableVars, head, nxt, pairs, npairs>>

\* What a candidate pair would be as a child of the round, by the round's own order.
Parents(p, q) == Ordered(RepSlot(p), RepSlot(q))
Found == {par \in {Parents(pq[1], pq[2]) : pq \in pairs} : <<elem[par[1]], elem[par[2]]>> = Ident(target)}

NoHead == [h \in 0 .. RepTab - 1 |-> None]
NoNext == [p \in 0 .. InCap + AMax - 1 |-> None]

\* The barrier behind a scan: the block tries the listed pairs, empties the list and
\* goes on until no lane was cut short, then to the next elements.
TryPairs ==
  LET more == \E l \in LaneIds : worker[l].cur # None
      base(w) == w.p - (w.p % Lanes)
      last == \A l \in LaneIds : base(worker[l]) + Lanes >= RepCount
      Onward(w) == IF more THEN Worker("scan", w.p, w.cur) ELSE Worker("scan", w.p + Lanes, ChainHead(w.p + Lanes))
  IN
  /\ \A l \in LaneIds : worker[l].at = "scanned"
  /\ pairs' = {}
  /\ npairs' = 0
  /\ IF Found = {}
     THEN UNCHANGED <<l3Slots, l4Lead>>
     ELSE \E par \in Found :
            /\ l3Slots' = [l3Slots EXCEPT ![half] = par]
            /\ l4Lead' = [l4Lead EXCEPT ![half] = ElemAt(par[1]).lead]
  /\ IF more \/ ~last
     THEN worker' = [l \in LaneIds |-> Onward(worker[l])] /\ UNCHANGED <<head, nxt>>
     ELSE worker' = [l \in LaneIds |-> Worker("idle", l, None)] /\ head' = NoHead /\ nxt' = NoNext
  /\ UNCHANGED <<survivor, half, pool, leaves, drops>>

\* The four slots' leaves, the half with the smaller lead first; zeros for a half that
\* was not found.
RecoverLeaves ==
  LET flip == l4Lead[2] < l4Lead[1]
      LeavesOf(k) == IF l3Slots[k] = <<>> THEN <<0, 0>> ELSE <<elem[l3Slots[k][1]], elem[l3Slots[k][2]]>>
  IN
  /\ half = 2 /\ leaves = <<>>
  /\ \A l \in LaneIds : worker[l].at = "idle"
  /\ leaves' = IF flip THEN LeavesOf(2) \o LeavesOf(1) ELSE LeavesOf(1) \o LeavesOf(2)
  /\ UNCHANGED <<survivor, half, pool, head, nxt, pairs, npairs, worker, l3Slots, l4Lead, drops>>

StartScan ==
  /\ \A l \in LaneIds : worker[l].at = "inserted"
  /\ worker' = [l \in LaneIds |-> Worker("scan", l, ChainHead(l))]
  /\ UNCHANGED <<tableVars, head, nxt, pairs, npairs>>

Recovery ==
  /\ \/ \E c, d \in out : Survives(c, d)
     \/ LaunchReplay
     \/ \E l \in LaneIds : Insert(l) \/ AppendPair(l) \/ ScanEnds(l)
     \/ StartScan
     \/ TryPairs
     \/ RecoverLeaves
  /\ UNCHANGED <<inputVars, step, todo, setVars, block, sharedVars, lane, outVars>>

Round == RoundNext /\ UNCHANGED replayVars

ReplayInit ==
  /\ RoundInit
  /\ survivor = <<>>
  /\ half = 0
  /\ pool = <<>>
  /\ head = NoHead /\ nxt = NoNext
  /\ pairs = {}
  /\ npairs = 0
  /\ worker = [l \in LaneIds |-> Worker("idle", l, None)]
  /\ l3Slots = [k \in Halves |-> <<>>]
  /\ l4Lead = [k \in Halves |-> 0]
  /\ leaves = <<>>

ReplayNext == Round \/ Recovery

ReplaySpec == ReplayInit /\ [][ReplayNext]_<<roundVars, replayVars>> /\ WF_<<roundVars, replayVars>>(ReplayNext)

---------------------------------------------------------------------------
(* Properties. *)

Of(b) == {i \in DOMAIN input : input[i].bucket = b.bucket /\ SubMask(input[i].key) = b.mask}
PairsOf(S) == {pq \in SUBSET S : Cardinality(pq) = 2 /\ \A i, j \in pq : input[i].key = input[j].key}
Made == {{elem[c.left], elem[c.right]} : c \in out}

\* Every two elements of one key that were scattered to the block's bucket have a child,
\* one child, made of what both of them hold; unless a drop counter says that something
\* was lost.  Nothing else has a child.
EveryPairOnce ==
  /\ Made \subseteq PairsOf(Of(block))
  /\ Cardinality(Made) = Cardinality(out)
  /\ \A c \in out : c.whole
  /\ BlockDone /\ drops = {} => Made = PairsOf(Of(block))

\* No two children are written to one slot, and none beyond the set's memory.
SlotsAreExclusive ==
  /\ \A c, d \in out : c.slot = d.slot => c = d
  /\ \A c \in out : c.slot < OutBuckets * OutCap + ArenaCap

\* A survivor's leaves come out in the order of its tree, each half as the round paired it
\* and the half with the smaller lead first.  Only a half whose bucket the replay cannot
\* stage may come out as zeros, and that is counted.
TreeOrder ==
  IF Lead(survivor[2]) < Lead(survivor[1])
  THEN Ident(survivor[2]) \o Ident(survivor[1])
  ELSE Ident(survivor[1]) \o Ident(survivor[2])
LeavesInTreeOrder ==
  leaves # <<>> =>
    \/ leaves = TreeOrder
    \/ /\ Dense > RepN /\ "stage" \in drops
       /\ \E k \in Halves : \A i \in {2 * k - 1, 2 * k} : leaves[i] = 0

\* A group is split once and a list emptied often enough: every launch ends.
LaunchesEnd == <>(BlockDone /\ (Cardinality(out) < 2 \/ leaves # <<>>))
===============================================================================
