------------------------------ MODULE FusedRound ------------------------------
(***************************************************************************)
(* One round of the CUDA pipeline, src/kernels/cuda/fused_round.cuh and    *)
(* the entry and arena kernels of pipeline_kernels.cuh: elements are       *)
(* scattered into buckets by the high bits of their key, then one thread   *)
(* block takes a bucket's elements and writes a child for every two of     *)
(* equal key.  Every capacity on the way is finite: a bucket (its overflow *)
(* goes to one pool for all buckets, threaded onto per-bucket chains), the *)
(* members of the pool a block takes, the group it stages in shared memory *)
(* (a group that is too large is split by further key bits), the walk      *)
(* along a chain and the bucket of the child.  What does not fit is lost   *)
(* and has to be counted.                                                  *)
(*                                                                         *)
(* One step is one shared-memory or global atomic of a lane, or a loop     *)
(* whose effects commute until the next barrier.  A lane waits at a        *)
(* barrier until every lane of its block is at that barrier.  The miner's  *)
(* instantiations are modelled: one block per bucket and sub-mask, the     *)
(* census and the chain heads in one table (MXBM_TABPACK).  A key is       *)
(* what is below the bucket's bits: SubBits of sub-mask, then the bits     *)
(* that address the chain table, which is a perfect hash of them.          *)
(***************************************************************************)
EXTENDS Integers, Sequences, FiniteSets, FiniteSetsExt

CONSTANTS
  Elements,  \* sequences of elements [bucket, key, lead]
  Lanes,     \* kWG, threads of a block
  Buckets,   \* 1 << bucket_bits
  InCap,     \* in_bucket_cap
  OutBuckets, OutCap,
  ArenaCap,  \* kArenaCap, slots of a pool
  AMax,      \* kAMax, pool members a block takes
  SubBits,   \* submask_bits
  TabBits,   \* key bits above the sub-mask: kTabSize = 2^TabBits
  FCap,      \* elements a block stages
  MaxSpill,  \* kMaxSpill, key bits a group may be split by
  MaxWalk    \* steps along a chain (64)

ASSUME FusedRoundAssumption ==
  /\ {Lanes, Buckets, InCap, OutBuckets, OutCap, AMax, FCap, MaxWalk} \subseteq Nat \ {0}
  /\ {ArenaCap, SubBits, TabBits} \subseteq Nat
  /\ MaxSpill \in 1 .. TabBits
  /\ \A in \in Elements : \A i \in DOMAIN in :
       in[i] \in [bucket : 0 .. Buckets - 1, key : 0 .. 2 ^ SubBits * 2 ^ TabBits - 1, lead : Nat]

VARIABLES
  input,   \* the elements
  kind,    \* the instantiation: [arena, solo, mfirst]
  step,    \* of the launches: "entry", "link", "block"
  todo,    \* elements or pool entries the launch has yet to reach
  count, elem, actr, atag,  \* counts, records by slot, the pool's counter and tags
  ahead, anext,             \* chains of pool entries, by bucket
  block,                    \* [bucket, mask] of the block
  aidx, gcount, tab, lchain, cnt8, staged, mlist, built, \* its shared memory
  lane,    \* per thread: where it is, what is left of its loop, its locals
  outCount, outActr, out,   \* the children written, by slot
  drops    \* the drop counters that are not zero
inputVars == <<input, kind>>
setVars == <<count, elem, actr, atag, ahead, anext>>
sharedVars == <<aidx, gcount, tab, lchain, cnt8, staged, mlist, built>>
outVars == <<outCount, outActr, out>>
roundVars == <<inputVars, step, todo, setVars, block, sharedVars, lane, outVars, drops>>

None == -1 \* kEmpty
LaneIds == 0 .. Lanes - 1
Slots == 0 .. 2 ^ TabBits - 1
Shares(l, S) == {x \in S : x % Lanes = l}
PoolSlot(a) == Buckets * InCap + a
SubMask(key) == key % 2 ^ SubBits
TabSlot(key) == (key \div 2 ^ SubBits) % 2 ^ TabBits
Part(key, bits) == TabSlot(key) % 2 ^ bits

---------------------------------------------------------------------------
(* Entry: one thread per element.  The elements of an input are numbered in the order in
   which their threads reach counts[b]; nothing else depends on the order. *)

Drop(counter) == drops' = drops \cup {counter}

Scatter(i) ==
  LET b == input[i].bucket
      pos == count[b]
      Store(slot) == elem' = [elem EXCEPT ![slot] = i]
  IN
  /\ step = "entry" /\ i = Min(todo)
  /\ todo' = todo \ {i}
  /\ count' = [count EXCEPT ![b] = pos + 1]
  /\ \/ /\ pos < InCap
        /\ Store(b * InCap + pos)
        /\ UNCHANGED <<actr, atag, drops>>
     \/ /\ pos >= InCap /\ kind.arena /\ actr < ArenaCap
        /\ actr' = actr + 1
        /\ atag' = [atag EXCEPT ![actr] = b]
        /\ Store(PoolSlot(actr))
        /\ UNCHANGED drops
     \/ /\ pos >= InCap /\ (kind.arena => actr >= ArenaCap)
        /\ actr' = IF kind.arena THEN actr + 1 ELSE actr
        /\ Drop("entry")
        /\ UNCHANGED <<atag, elem>>
  /\ UNCHANGED <<inputVars, step, ahead, anext, block, sharedVars, lane, outVars>>

\* Pool entries arena_link runs a thread for.
Pooled == IF actr < ArenaCap THEN actr ELSE ArenaCap

EntryEnds ==
  /\ step = "entry" /\ todo = {}
  /\ step' = "link"
  /\ todo' = IF kind.arena THEN 0 .. Pooled - 1 ELSE {}
  /\ UNCHANGED <<inputVars, setVars, block, sharedVars, lane, outVars, drops>>

ArenaLink(i) ==
  /\ step = "link" /\ i \in todo
  /\ todo' = todo \ {i}
  /\ anext' = [anext EXCEPT ![i] = ahead[atag[i]]]
  /\ ahead' = [ahead EXCEPT ![atag[i]] = i]
  /\ UNCHANGED <<inputVars, step, count, elem, actr, atag, block, sharedVars, lane, outVars, drops>>

LaunchBlock(b) ==
  /\ step = "link" /\ todo = {}
  /\ step' = "block"
  /\ block' = b
  /\ UNCHANGED <<inputVars, todo, setVars, sharedVars, lane, outVars, drops>>

---------------------------------------------------------------------------
(* The elements of a block. *)

Dense == Min({count[block.bucket], InCap})
Members == 0 .. Dense + Len(aidx) - 1
SlotOf(p) == IF p < Dense THEN block.bucket * InCap + p ELSE PoolSlot(aidx[p - Dense + 1])
ElemAt(slot) == input[elem[slot]]
KeyOf(p) == ElemAt(SlotOf(p)).key

\* The split bits are left out of the filter.
InPass_FaultWholeGroup(l, p) == SubMask(KeyOf(p)) = block.mask

\* The element belongs to the pass the lane is in: sub-mask and part.
InPass(l, p) ==
  /\ SubMask(KeyOf(p)) = block.mask
  /\ Part(KeyOf(p), lane[l].xb) = lane[l].xp
\* With the slot census, an element alone in its slot is not staged.
Wanted(l, p) == InPass(l, p) /\ (kind.solo => tab[TabSlot(KeyOf(p))].n >= 2)
Staged == Min({gcount, FCap})
Positions == 0 .. Staged - 1
PosKey(pos) == ElemAt(staged[pos]).key

---------------------------------------------------------------------------
(* Lanes and barriers. *)

Fresh == [at |-> "fetch", rest |-> {}, xb |-> 0, xp |-> 0, parts |-> 1, counted |-> FALSE,
          oth |-> None, walk |-> 0]
At(l, place) == step = "block" /\ lane[l].at = place
Go(l, place) == lane' = [lane EXCEPT ![l].at = place]
Tick(l, x) == lane' = [lane EXCEPT ![l].rest = @ \ {x}]

LastPass(l) == lane[l].xp + 1 >= lane[l].parts

\* Where a lane goes on behind a barrier, and with which share of the next loop.
Behind(barrier, l) ==
  LET me == lane[l]
      Loop(place, rest) == [me EXCEPT !.at = place, !.rest = rest]
      StageLoop == Loop("stage", {p \in Shares(l, Members) : Wanted(l, p)})
  IN CASE barrier = "fetched" -> [me EXCEPT !.at = "clear"]
       [] barrier = "cleared" -> IF kind.solo THEN [me EXCEPT !.at = "census"] ELSE StageLoop
       [] barrier = "censused" -> StageLoop
       [] barrier = "staged" -> [me EXCEPT !.at = "decide"]
       [] barrier = "zeroed" -> [me EXCEPT !.at = "tally"]
       [] barrier = "tallied" -> [me EXCEPT !.at = "choose"]
       [] barrier = "chosen" -> [me EXCEPT !.at = "clear"]
       [] barrier = "compacted" -> Loop("chain", Shares(l, mlist))
       [] barrier = "chained" -> Loop("walk", {pos \in Shares(l, Positions) : lchain[pos] # None})
       [] barrier = "passed" -> [me EXCEPT !.at = "clear", !.xp = @ + 1]

Barriers == {"fetched", "cleared", "censused", "staged", "zeroed", "tallied", "chosen",
             "compacted", "chained", "passed"}

SyncThreads ==
  /\ step = "block"
  /\ \E barrier \in Barriers :
       /\ \A l \in LaneIds : lane[l].at = barrier
       /\ lane' = [l \in LaneIds |-> Behind(barrier, l)]
  /\ UNCHANGED <<inputVars, step, todo, setVars, block, sharedVars, outVars, drops>>

\* in_ahead and in_anext followed from the bucket's head.
PoolChain ==
  LET from[a \in {None} \cup 0 .. ArenaCap - 1] == IF a = None THEN <<>> ELSE <<a>> \o from[anext[a]]
  IN from[ahead[block.bucket]]

\* Lane 0 takes the bucket's pool entries; the others wait for it.
Fetch(l) ==
  /\ At(l, "fetch")
  /\ Go(l, IF kind.arena THEN "fetched" ELSE "clear")
  /\ IF kind.arena /\ l = 0
     THEN /\ aidx' = SubSeq(PoolChain, 1, Min({Len(PoolChain), AMax}))
          /\ IF Len(PoolChain) > AMax THEN Drop("stage") ELSE UNCHANGED drops
     ELSE UNCHANGED <<aidx, drops>>
  /\ UNCHANGED <<inputVars, step, todo, setVars, block, gcount, tab, lchain, cnt8, staged,
                 mlist, built, outVars>>

\* A word of the table: what the census counted, and the head of the chain.
EmptySlot == [n |-> 0, head |-> None]

Clear(l) ==
  /\ At(l, "clear")
  /\ Go(l, "cleared")
  /\ IF l = 0
     THEN gcount' = 0 /\ mlist' = {}
     ELSE UNCHANGED <<gcount, mlist>>
  /\ tab' = [h \in Slots |-> IF h % Lanes = l THEN EmptySlot ELSE tab[h]]
  /\ UNCHANGED <<inputVars, step, todo, setVars, block, aidx, lchain, cnt8, staged, built,
                 outVars, drops>>

\* One count per element of the pass: what its slot of the table will hold.
Census(l) ==
  /\ At(l, "census")
  /\ Go(l, "censused")
  /\ LET Mine(h) == {p \in Shares(l, Members) : InPass(l, p) /\ TabSlot(KeyOf(p)) = h}
     IN tab' = [h \in Slots |-> [tab[h] EXCEPT !.n = @ + Cardinality(Mine(h))]]
  /\ UNCHANGED <<inputVars, step, todo, setVars, block, aidx, gcount, lchain, cnt8, staged,
                 mlist, built, outVars, drops>>

\* atomicExch(&tab[slot of pos], pos), whose result becomes lchain[pos]; the count goes.
Chain(pos, key) ==
  /\ lchain' = [lchain EXCEPT ![pos] = tab[TabSlot(key)].head]
  /\ tab' = [tab EXCEPT ![TabSlot(key)] = [n |-> 0, head |-> pos]]

\* gcount goes on counting when the group is full.
Stage(l) ==
  LET p == Min(lane[l].rest)
  IN
  /\ At(l, "stage") /\ lane[l].rest # {}
  /\ Tick(l, p)
  /\ gcount' = gcount + 1
  /\ IF gcount < FCap
     THEN /\ staged' = [staged EXCEPT ![gcount] = SlotOf(p)]
          /\ built' = built \ {gcount}
          /\ IF kind.mfirst THEN Chain(gcount, KeyOf(p)) ELSE UNCHANGED <<tab, lchain>>
     ELSE UNCHANGED <<staged, built, tab, lchain>>
  /\ UNCHANGED <<inputVars, step, todo, setVars, block, aidx, cnt8, mlist, outVars, drops>>

\* A lane that has no more to do in its loop goes to the barrier behind it.
LoopEnds(l) ==
  /\ step = "block" /\ lane[l].rest = {}
  /\ \/ lane[l].at = "stage" /\ Go(l, "staged")
     \/ lane[l].at = "chain" /\ Go(l, "chained")
     \/ lane[l].at = "walk" /\ Go(l, IF LastPass(l) THEN "done" ELSE "passed")
  /\ UNCHANGED <<inputVars, step, todo, setVars, block, sharedVars, outVars, drops>>

\* The chain is built in a loop of its own, unless staging has built it.
AfterStaging(l) ==
  IF kind.mfirst
  THEN [lane[l] EXCEPT !.at = "compact"]
  ELSE [lane[l] EXCEPT !.at = "chain", !.rest = Shares(l, Positions)]

Decide(l) ==
  /\ At(l, "decide")
  /\ IF gcount > FCap /\ ~lane[l].counted
     THEN /\ Go(l, "zeroed")
          /\ cnt8' = [q \in DOMAIN cnt8 |-> IF q % Lanes = l THEN 0 ELSE cnt8[q]]
          /\ UNCHANGED drops
     ELSE /\ lane' = [lane EXCEPT ![l] = AfterStaging(l)]
          /\ IF gcount > FCap /\ l = 0 THEN Drop("stage") ELSE UNCHANGED drops
          /\ UNCHANGED cnt8
  /\ UNCHANGED <<inputVars, step, todo, setVars, block, aidx, gcount, tab, lchain, staged,
                 mlist, built, outVars>>

\* Only what the bucket itself holds is counted.
Tally(l) ==
  /\ At(l, "tally")
  /\ Go(l, "tallied")
  /\ cnt8' = [q \in DOMAIN cnt8 |->
                cnt8[q] + Cardinality({p \in Shares(l, 0 .. Dense - 1) :
                                         /\ SubMask(KeyOf(p)) = block.mask
                                         /\ Part(KeyOf(p), MaxSpill) = q})]
  /\ UNCHANGED <<inputVars, step, todo, setVars, block, aidx, gcount, tab, lchain, staged,
                 mlist, built, outVars, drops>>

\* The part of a group that splitting it by lv bits leaves for q, by a tally of the group.
PartSize(tally, lv, q) == MapThenSumSet(LAMBDA i : tally[i], {i \in DOMAIN tally : i % 2 ^ lv = q})
Fits(tally, lv) == \A q \in 0 .. 2 ^ lv - 1 : PartSize(tally, lv, q) <= FCap
SplitLevel(tally) == Min({lv \in 1 .. MaxSpill : Fits(tally, lv)} \cup {MaxSpill})

\* The group is not marked as split.
Choose_FaultForgets(l) ==
  /\ At(l, "choose")
  /\ lane' = [lane EXCEPT ![l] = [@ EXCEPT !.at = "chosen", !.xb = SplitLevel(cnt8), !.xp = 0,
                                           !.parts = 2 ^ SplitLevel(cnt8)]]
  /\ UNCHANGED <<inputVars, step, todo, setVars, block, sharedVars, outVars, drops>>

Choose(l) ==
  /\ At(l, "choose")
  /\ lane' = [lane EXCEPT ![l] = [@ EXCEPT !.at = "chosen", !.xb = SplitLevel(cnt8), !.xp = 0,
                                           !.parts = 2 ^ SplitLevel(cnt8), !.counted = TRUE]]
  /\ UNCHANGED <<inputVars, step, todo, setVars, block, sharedVars, outVars, drops>>

ChainOf(head) ==
  LET from[pos \in {None} \cup 0 .. FCap - 1] == IF pos = None THEN {} ELSE {pos} \cup from[lchain[pos]]
  IN from[head]

Chained(head) == head # None /\ lchain[head] # None

\* One thread per slot of the table notes the chains of two and more.
Compact(l) ==
  /\ At(l, "compact")
  /\ Go(l, "compacted")
  /\ mlist' = mlist \cup UNION {ChainOf(tab[h].head) : h \in {s \in Shares(l, Slots) : Chained(tab[s].head)}}
  /\ UNCHANGED <<inputVars, step, todo, setVars, block, aidx, gcount, tab, lchain, cnt8, staged,
                 built, outVars, drops>>

\* The element's work words are rebuilt, and it is put on its chain.
Expand(l) ==
  LET pos == Min(lane[l].rest)
  IN
  /\ At(l, "chain") /\ lane[l].rest # {}
  /\ Tick(l, pos)
  /\ built' = built \cup {pos}
  /\ IF kind.mfirst THEN UNCHANGED <<tab, lchain>> ELSE Chain(pos, PosKey(pos))
  /\ UNCHANGED <<inputVars, step, todo, setVars, block, aidx, gcount, cnt8, staged, mlist,
                 outVars, drops>>

---------------------------------------------------------------------------
(* Walk and emit. *)

\* Left is the smaller lead, then the smaller slot.
Ordered(s, t) ==
  LET a == ElemAt(s).lead
      b == ElemAt(t).lead
  IN IF b < a \/ (b = a /\ t < s) THEN <<t, s>> ELSE <<s, t>>

Child(slot, s, t, whole) == [slot |-> slot, left |-> Ordered(s, t)[1], right |-> Ordered(s, t)[2],
                             whole |-> whole]

\* A bucket takes one more than it holds.
Emit_FaultOneMore(cb, s, t, whole) ==
  LET pos == outCount[cb]
      Write(slot) == out' = out \cup {Child(slot, s, t, whole)}
  IN
  /\ outCount' = [outCount EXCEPT ![cb] = pos + 1]
  /\ \/ pos <= OutCap /\ Write(cb * OutCap + pos) /\ UNCHANGED <<outActr, drops>>
     \/ /\ pos > OutCap /\ kind.arena /\ outActr < ArenaCap
        /\ outActr' = outActr + 1
        /\ Write(OutBuckets * OutCap + outActr)
        /\ UNCHANGED drops
     \/ /\ pos > OutCap /\ (kind.arena => outActr >= ArenaCap)
        /\ outActr' = IF kind.arena THEN outActr + 1 ELSE outActr
        /\ Drop("out")
        /\ UNCHANGED out

\* A child of the elements in slots s and t goes to bucket cb.
Emit(cb, s, t, whole) ==
  LET pos == outCount[cb]
      Write(slot) == out' = out \cup {Child(slot, s, t, whole)}
  IN
  /\ outCount' = [outCount EXCEPT ![cb] = pos + 1]
  /\ \/ pos < OutCap /\ Write(cb * OutCap + pos) /\ UNCHANGED <<outActr, drops>>
     \/ /\ pos >= OutCap /\ kind.arena /\ outActr < ArenaCap
        /\ outActr' = outActr + 1
        /\ Write(OutBuckets * OutCap + outActr)
        /\ UNCHANGED drops
     \/ /\ pos >= OutCap /\ (kind.arena => outActr >= ArenaCap)
        /\ outActr' = IF kind.arena THEN outActr + 1 ELSE outActr
        /\ Drop("out")
        /\ UNCHANGED out

\* The lane's next element, or the next step along the chain of the one it is at.
Walk(l) ==
  LET me == lane[l]
      pos == Min(me.rest)
      oth == IF me.oth = None THEN lchain[pos] ELSE me.oth
      Done == [me EXCEPT !.rest = @ \ {pos}, !.oth = None, !.walk = 0]
  IN
  /\ At(l, "walk") /\ me.rest # {}
  /\ IF me.walk + 1 > MaxWalk
     THEN /\ Drop("walk")
          /\ lane' = [lane EXCEPT ![l] = Done]
          /\ UNCHANGED outVars
     ELSE /\ \E cb \in 0 .. OutBuckets - 1 :
               Emit(cb, staged[pos], staged[oth], {pos, oth} \subseteq built)
          /\ lane' = [lane EXCEPT ![l] = IF lchain[oth] = None
                                         THEN Done
                                         ELSE [me EXCEPT !.oth = lchain[oth], !.walk = @ + 1]]
  /\ UNCHANGED <<inputVars, step, todo, setVars, block, sharedVars>>

---------------------------------------------------------------------------
Kinds == {k \in [arena : BOOLEAN, solo : BOOLEAN, mfirst : BOOLEAN] : ~(k.solo /\ k.mfirst)}

Blocks == [bucket : 0 .. Buckets - 1, mask : 0 .. 2 ^ SubBits - 1]

InitSet ==
  /\ count = [b \in 0 .. Buckets - 1 |-> 0]
  /\ elem = [s \in 0 .. Buckets * InCap + ArenaCap - 1 |-> 0]
  /\ actr = 0
  /\ atag = [a \in 0 .. ArenaCap - 1 |-> 0]
  /\ ahead = [b \in 0 .. Buckets - 1 |-> None]
  /\ anext = [a \in 0 .. ArenaCap - 1 |-> None]

InitShared ==
  /\ aidx = <<>>
  /\ gcount = 0
  /\ tab = [h \in Slots |-> EmptySlot]
  /\ lchain = [pos \in 0 .. FCap - 1 |-> None]
  /\ cnt8 = [q \in 0 .. 2 ^ MaxSpill - 1 |-> 0]
  /\ staged = [pos \in 0 .. FCap - 1 |-> 0]
  /\ mlist = {}
  /\ built = {}

RoundInit ==
  /\ input \in Elements
  /\ kind \in Kinds
  /\ step = "entry"
  /\ todo = DOMAIN input
  /\ InitSet
  /\ block = [bucket |-> 0, mask |-> 0]
  /\ InitShared
  /\ lane = [l \in LaneIds |-> Fresh]
  /\ outCount = [b \in 0 .. OutBuckets - 1 |-> 0]
  /\ outActr = 0
  /\ out = {}
  /\ drops = {}

Thread(l) ==
  \/ Fetch(l)
  \/ Clear(l)
  \/ Census(l)
  \/ Stage(l)
  \/ LoopEnds(l)
  \/ Decide(l)
  \/ Tally(l)
  \/ Choose(l)
  \/ Compact(l)
  \/ Expand(l)
  \/ Walk(l)

RoundNext ==
  \/ \E i \in todo : Scatter(i) \/ ArenaLink(i)
  \/ EntryEnds
  \/ \E b \in Blocks : LaunchBlock(b)
  \/ \E l \in LaneIds : Thread(l)
  \/ SyncThreads

BlockDone == step = "block" /\ \A l \in LaneIds : lane[l].at = "done"
===============================================================================
