--------------------------- MODULE MonitoringProofs ---------------------------
(***************************************************************************)
(* Theorems about what watches the cards while they mine: Statistics and   *)
(* Supervision.                                                            *)
(***************************************************************************)
EXTENDS Statistics, Supervision, Functions, FunctionTheorems,
        FiniteSetTheorems, WellFoundedInduction, SequenceTheorems, TLAPS

-----------------------------------------------------------------------------
(* Statistics, for any number of cards, of submits the list holds and of    *)
(* shares found, and any difficulties the pools set.                        *)
(*                                                                          *)
(* The argument matches the open submits of an origin, oldest first, with   *)
(* what that pool has still to answer: the shares on its wire and, behind   *)
(* them, the one a card has noted and not yet written.                      *)

\* As Submits, before it is known that a share has a job and so a difficulty.
Entries == [share : Shares, device : Devices, origin : Origins, units : Targets \cup {0}]

Open(q, o) == {i \in 1 .. Len(q) : q[i].origin = o}

\* The open submits of o in the list q stand in the order of w, and the share in n,
\* if there is one, is the last of them.
InLine(q, o, w, n) ==
  /\ \A i \in Open(q, o) : q[i].share \in n \/ \E x \in 1 .. Len(w) : q[i].share = w[x]
  /\ \A x \in 1 .. Len(w) : \E i \in Open(q, o) : q[i].share = w[x]
  /\ \A s \in n : \E i \in Open(q, o) : q[i].share = s
  /\ \A i \in Open(q, o) : q[i].share \in n => \A j \in Open(q, o) : j <= i
  /\ \A i, j \in Open(q, o), x, y \in 1 .. Len(w) :
       i < j /\ q[i].share = w[x] /\ q[j].share = w[y] => x < y
  /\ \A x, y \in 1 .. Len(w) : w[x] = w[y] => x = y
  /\ \A x \in 1 .. Len(w) : w[x] \notin n
  /\ \A s, t \in n : s = t

\* r is q without what was at k.
Without(q, k, r) ==
  /\ Len(r) = Len(q) - 1
  /\ \A j \in 1 .. Len(r) : r[j] = IF j < k THEN q[j] ELSE q[j + 1]

LEMMA RemoveAtIsWithout ==
  ASSUME NEW q \in Seq(Entries), NEW k \in 1 .. Len(q)
  PROVE  RemoveAt(q, k) \in Seq(Entries) /\ Without(q, k, RemoveAt(q, k))
<1> DEFINE a == SubSeq(q, 1, k - 1)
           b == SubSeq(q, k + 1, Len(q))
<1>0. Len(q) \in Nat /\ k \in Nat /\ \A i \in 1 .. Len(q) : q[i] \in Entries
  BY ElementOfSeq, LenProperties
<1>1. /\ a \in Seq(Entries) /\ Len(a) = k - 1
      /\ \A i \in 1 .. k - 1 : a[i] = q[i]
  <2>1. /\ SubSeq(q, 1, k - 1) \in Seq(Entries)
        /\ Len(SubSeq(q, 1, k - 1)) = IF 1 <= k - 1 THEN (k - 1) - 1 + 1 ELSE 0
        /\ \A i \in 1 .. (k - 1) - 1 + 1 : SubSeq(q, 1, k - 1)[i] = q[1 + i - 1]
    <3>1. 1 \in Int /\ k - 1 \in Int /\ \A i \in 1 .. k - 1 : q[i] \in Entries
      BY <1>0
    <3> HIDE DEF Entries
    <3> QED BY <3>1, SubSeqProperties
  <2> QED BY <2>1, <1>0
<1>2. /\ b \in Seq(Entries) /\ Len(b) = Len(q) - k
      /\ \A i \in 1 .. Len(q) - k : b[i] = q[k + i]
  <2>1. /\ SubSeq(q, k + 1, Len(q)) \in Seq(Entries)
        /\ Len(SubSeq(q, k + 1, Len(q))) = IF k + 1 <= Len(q) THEN Len(q) - (k + 1) + 1 ELSE 0
        /\ \A i \in 1 .. Len(q) - (k + 1) + 1 : SubSeq(q, k + 1, Len(q))[i] = q[(k + 1) + i - 1]
    <3>1. k + 1 \in Int /\ Len(q) \in Int /\ \A i \in k + 1 .. Len(q) : q[i] \in Entries
      BY <1>0
    <3> HIDE DEF Entries
    <3> QED BY <3>1, SubSeqProperties
  <2> QED BY <2>1, <1>0
<1>3. /\ a \o b \in Seq(Entries)
      /\ Len(a \o b) = Len(a) + Len(b)
      /\ \A i \in 1 .. Len(a) + Len(b) :
           (a \o b)[i] = IF i <= Len(a) THEN a[i] ELSE b[i - Len(a)]
  <2> HIDE DEF a, b
  <2> QED BY <1>1, <1>2, ConcatProperties
<1>4. RemoveAt(q, k) = a \o b
  BY DEF RemoveAt
<1>5. \A j \in 1 .. Len(q) - 1 : (a \o b)[j] = IF j < k THEN q[j] ELSE q[j + 1]
  <2> SUFFICES ASSUME NEW j \in 1 .. Len(q) - 1
               PROVE  (a \o b)[j] = IF j < k THEN q[j] ELSE q[j + 1]
    OBVIOUS
  <2> HIDE DEF a, b
  <2>1. (a \o b)[j] = IF j <= k - 1 THEN a[j] ELSE b[j - (k - 1)]
    BY <1>0, <1>1, <1>2, <1>3
  <2>2. CASE j < k
    BY <2>1, <2>2, <1>0, <1>1
  <2>3. CASE ~(j < k)
    <3>1. j - (k - 1) \in 1 .. Len(q) - k /\ k + (j - (k - 1)) = j + 1
      BY <2>3, <1>0
    <3> QED BY <3>1, <2>1, <2>3, <1>0, <1>2
  <2> QED BY <2>2, <2>3
<1> HIDE DEF a, b
<1>6. Len(a \o b) = Len(q) - 1
  BY <1>0, <1>1, <1>2, <1>3
<1> QED BY <1>3, <1>4, <1>5, <1>6 DEF Without

(***************************************************************************)
(* What happens to the match when the list or the wire changes.            *)
(***************************************************************************)
\* A submit that leaves the list takes its place with it; the others keep their order.
LEMMA WithoutOther ==
  ASSUME NEW q, NEW r, NEW o, NEW w, NEW n, Len(q) \in Nat, NEW k \in 1 .. Len(q),
         Without(q, k, r), q[k].origin # o, InLine(q, o, w, n)
  PROVE  InLine(r, o, w, n)
<1> DEFINE At(j) == IF j < k THEN j ELSE j + 1
<1>1. \A j \in Open(r, o) : At(j) \in Open(q, o) /\ q[At(j)] = r[j]
  BY DEF Open, Without
<1>2. \A i \in Open(q, o) : \E j \in Open(r, o) : At(j) = i
  <2> SUFFICES ASSUME NEW i \in Open(q, o) PROVE \E j \in Open(r, o) : At(j) = i
    OBVIOUS
  <2>1. i \in 1 .. Len(q) /\ i # k
    BY DEF Open
  <2>2. CASE i < k
    <3>1. i \in Open(r, o) /\ At(i) = i
      BY <2>1, <2>2 DEF Open, Without
    <3> QED BY <3>1
  <2>3. CASE k < i
    <3>1. i - 1 \in Open(r, o) /\ At(i - 1) = i
      BY <2>1, <2>3 DEF Open, Without
    <3> QED BY <3>1
  <2> QED BY <2>1, <2>2, <2>3
<1>3. \A i, j \in Open(r, o) : (i < j <=> At(i) < At(j)) /\ (i <= j <=> At(i) <= At(j))
  BY DEF Open
<1> HIDE DEF At
<1>4. /\ \A j \in Open(r, o) : r[j].share \in n \/ \E x \in 1 .. Len(w) : r[j].share = w[x]
      /\ \A x \in 1 .. Len(w) : \E j \in Open(r, o) : r[j].share = w[x]
      /\ \A s \in n : \E j \in Open(r, o) : r[j].share = s
  <2>1. /\ \A i \in Open(q, o) : q[i].share \in n \/ \E x \in 1 .. Len(w) : q[i].share = w[x]
        /\ \A x \in 1 .. Len(w) : \E i \in Open(q, o) : q[i].share = w[x]
        /\ \A s \in n : \E i \in Open(q, o) : q[i].share = s
    BY DEF InLine
  <2>2. \A i \in Open(q, o) : \E j \in Open(r, o) : r[j].share = q[i].share
    BY <1>1, <1>2
  <2>3. \A j \in Open(r, o) : \E i \in Open(q, o) : r[j].share = q[i].share
    BY <1>1
  <2> QED BY <2>1, <2>2, <2>3
<1>5. \A i \in Open(r, o) : r[i].share \in n => \A j \in Open(r, o) : j <= i
  BY <1>1, <1>3 DEF InLine
<1>6. \A i, j \in Open(r, o), x, y \in 1 .. Len(w) :
        i < j /\ r[i].share = w[x] /\ r[j].share = w[y] => x < y
  <2>1. \A a, b \in Open(q, o), c, d \in 1 .. Len(w) :
          a < b /\ q[a].share = w[c] /\ q[b].share = w[d] => c < d
    BY DEF InLine
  <2> SUFFICES ASSUME NEW i \in Open(r, o), NEW j \in Open(r, o),
                      NEW x \in 1 .. Len(w), NEW y \in 1 .. Len(w),
                      i < j, r[i].share = w[x], r[j].share = w[y]
               PROVE  x < y
    OBVIOUS
  <2>2. /\ At(i) \in Open(q, o) /\ At(j) \in Open(q, o) /\ At(i) < At(j)
        /\ q[At(i)].share = w[x] /\ q[At(j)].share = w[y]
    BY <1>1, <1>3
  <2> QED BY <2>1, <2>2
<1> QED BY <1>4, <1>5, <1>6 DEF InLine

\* The oldest submit of an origin is for the share at the head of its wire.
LEMMA OldestIsAnswered ==
  ASSUME NEW q, NEW r, NEW o, NEW w \in Seq(Shares), NEW n, Len(q) \in Nat, w # << >>,
         NEW k \in Open(q, o), \A i \in Open(q, o) : k <= i,
         Without(q, k, r), InLine(q, o, w, n)
  PROVE  q[k].share = Head(w) /\ InLine(r, o, Tail(w), n)
<1> DEFINE v == Tail(w)
<1>1. /\ Len(w) \in Nat \ {0} /\ Head(w) = w[1]
      /\ Len(v) = Len(w) - 1
      /\ \A x \in 1 .. Len(v) : v[x] = w[x + 1]
  BY HeadTailProperties, EmptySeq
<1> HIDE DEF v
<1>2. PICK i \in Open(q, o) : q[i].share = w[1]
  BY <1>1 DEF InLine
<1>3. i = k
  <2> SUFFICES ASSUME k < i PROVE FALSE
    BY DEF Open
  <2>1. q[k].share \notin n
    BY DEF InLine, Open
  <2>2. PICK x \in 1 .. Len(w) : q[k].share = w[x]
    BY <2>1 DEF InLine
  <2>3. x < 1
    BY <2>2, <1>1, <1>2 DEF InLine
  <2> QED BY <2>3
<1>4. q[k].share = w[1]
  BY <1>2, <1>3
<1> DEFINE At(j) == IF j < k THEN j ELSE j + 1
<1>5. k \in 1 .. Len(q)
  BY DEF Open
<1>6. \A j \in Open(r, o) : At(j) \in Open(q, o) /\ q[At(j)] = r[j] /\ At(j) # k
  BY <1>5 DEF Open, Without
<1>7. \A j \in Open(q, o) \ {k} : j - 1 \in Open(r, o) /\ At(j - 1) = j
  <2> SUFFICES ASSUME NEW j \in Open(q, o), j # k PROVE j - 1 \in Open(r, o) /\ At(j - 1) = j
    OBVIOUS
  <2>1. k < j /\ j \in 1 .. Len(q) /\ q[j].origin = o
    BY <1>5 DEF Open
  <2>2. j - 1 \in 1 .. Len(r) /\ r[j - 1] = q[j]
    BY <2>1, <1>5 DEF Without
  <2> QED BY <2>1, <2>2, <1>5 DEF Open
<1>8. \A j, l \in Open(r, o) : (j < l <=> At(j) < At(l)) /\ (j <= l <=> At(j) <= At(l))
  BY DEF Open
<1> HIDE DEF At
<1>9. \A j \in Open(q, o) : q[j].share = w[1] => j = k
  <2> SUFFICES ASSUME NEW j \in Open(q, o), q[j].share = w[1], k < j PROVE FALSE
    BY DEF Open
  <2>1. 1 \in 1 .. Len(w) /\ 1 < 1
    BY <1>1, <1>4 DEF InLine
  <2> QED BY <2>1
<1>10. InLine(r, o, v, n)
  <2>1. \A j \in Open(r, o) : r[j].share \in n \/ \E x \in 1 .. Len(v) : r[j].share = v[x]
    <3> SUFFICES ASSUME NEW j \in Open(r, o), r[j].share \notin n
                 PROVE  \E x \in 1 .. Len(v) : r[j].share = v[x]
      OBVIOUS
    <3>1. PICK x \in 1 .. Len(w) : r[j].share = w[x]
      BY <1>6 DEF InLine
    <3>2. x # 1
      BY <3>1, <1>6, <1>9
    <3>3. x - 1 \in 1 .. Len(v) /\ v[x - 1] = w[x]
      BY <3>2, <1>1
    <3> QED BY <3>1, <3>3
  <2>2. \A x \in 1 .. Len(v) : \E j \in Open(r, o) : r[j].share = v[x]
    <3> SUFFICES ASSUME NEW x \in 1 .. Len(v) PROVE \E j \in Open(r, o) : r[j].share = v[x]
      OBVIOUS
    <3>1. x + 1 \in 1 .. Len(w) /\ v[x] = w[x + 1]
      BY <1>1
    <3>2. PICK j \in Open(q, o) : q[j].share = w[x + 1]
      BY <3>1 DEF InLine
    <3>3. w[x + 1] # w[1]
      BY <3>1, <1>1 DEF InLine
    <3>4. j # k
      BY <3>2, <3>3, <1>4
    <3> QED BY <3>1, <3>2, <3>4, <1>6, <1>7
  <2>3. \A s \in n : \E j \in Open(r, o) : r[j].share = s
    <3> SUFFICES ASSUME NEW s \in n PROVE \E j \in Open(r, o) : r[j].share = s
      OBVIOUS
    <3>1. PICK j \in Open(q, o) : q[j].share = s
      BY DEF InLine
    <3>2. j # k
      BY <3>1, <1>1, <1>4 DEF InLine
    <3> QED BY <3>1, <3>2, <1>6, <1>7
  <2>4. \A j \in Open(r, o) : r[j].share \in n => \A l \in Open(r, o) : l <= j
    BY <1>6, <1>8 DEF InLine
  <2>5. \A j, l \in Open(r, o), x, y \in 1 .. Len(v) :
          j < l /\ r[j].share = v[x] /\ r[l].share = v[y] => x < y
    <3> SUFFICES ASSUME NEW j \in Open(r, o), NEW l \in Open(r, o),
                        NEW x \in 1 .. Len(v), NEW y \in 1 .. Len(v),
                        j < l, r[j].share = v[x], r[l].share = v[y]
                 PROVE  x < y
      OBVIOUS
    <3>1. x + 1 \in 1 .. Len(w) /\ y + 1 \in 1 .. Len(w) /\ v[x] = w[x + 1] /\ v[y] = w[y + 1]
      BY <1>1
    <3>2. \A a, b \in Open(q, o), c, d \in 1 .. Len(w) :
            a < b /\ q[a].share = w[c] /\ q[b].share = w[d] => c < d
      BY DEF InLine
    <3>3. /\ At(j) \in Open(q, o) /\ At(l) \in Open(q, o) /\ At(j) < At(l)
          /\ q[At(j)].share = w[x + 1] /\ q[At(l)].share = w[y + 1]
      BY <3>1, <1>6, <1>8
    <3>4. x + 1 < y + 1
      BY <3>1, <3>2, <3>3
    <3> QED BY <3>4
  <2>6. /\ \A x, y \in 1 .. Len(v) : v[x] = v[y] => x = y
        /\ \A x \in 1 .. Len(v) : v[x] \notin n
    <3>1. \A x \in 1 .. Len(v) : x + 1 \in 1 .. Len(w) /\ v[x] = w[x + 1]
      BY <1>1
    <3>2. ASSUME NEW x \in 1 .. Len(v), NEW y \in 1 .. Len(v), v[x] = v[y] PROVE x = y
      <4>1. x + 1 = y + 1
        BY <3>1, <3>2 DEF InLine
      <4> QED BY <4>1
    <3>3. \A x \in 1 .. Len(v) : v[x] \notin n
      BY <3>1 DEF InLine
    <3> QED BY <3>2, <3>3
  <2> QED BY <2>1, <2>2, <2>3, <2>4, <2>5, <2>6 DEF InLine
<1> QED BY <1>1, <1>4, <1>10 DEF v

\* A share noted is behind everything of its origin.
LEMMA NotedIsLast ==
  ASSUME NEW q \in Seq(Entries), NEW e \in Entries, NEW w,
         \A x \in 1 .. Len(w) : w[x] # e.share, InLine(q, e.origin, w, {})
  PROVE  InLine(Append(q, e), e.origin, w, {e.share})
<1> DEFINE o == e.origin
           r == Append(q, e)
<1>1. /\ Len(q) \in Nat /\ Len(r) = Len(q) + 1 /\ r[Len(q) + 1] = e
      /\ \A i \in 1 .. Len(q) : r[i] = q[i]
  <2> HIDE DEF Entries
  <2> QED BY AppendProperties, LenProperties
<1> HIDE DEF r
<1>2. Open(r, o) = Open(q, o) \cup {Len(q) + 1}
  <2>1. 1 .. Len(r) = 1 .. Len(q) \cup {Len(q) + 1}
    BY <1>1
  <2> QED BY <2>1, <1>1 DEF Open
<1>3. \A i \in Open(q, o) : i <= Len(q) /\ r[i] = q[i]
  BY <1>1 DEF Open
<1> HIDE DEF o
<1>4. \A i \in Open(q, o) : q[i].share # e.share
  BY DEF InLine, o
<1>5. InLine(q, o, w, {})
  BY DEF o
<1>6. /\ \A i \in Open(r, o) : r[i].share \in {e.share} \/ \E x \in 1 .. Len(w) : r[i].share = w[x]
      /\ \A x \in 1 .. Len(w) : \E i \in Open(r, o) : r[i].share = w[x]
      /\ \A s \in {e.share} : \E i \in Open(r, o) : r[i].share = s
  <2>1. /\ \A i \in Open(q, o) : \E x \in 1 .. Len(w) : q[i].share = w[x]
        /\ \A x \in 1 .. Len(w) : \E i \in Open(q, o) : q[i].share = w[x]
    BY <1>5 DEF InLine
  <2>2. Len(q) + 1 \in Open(r, o) /\ r[Len(q) + 1].share = e.share
    BY <1>1, <1>2
  <2>3. ASSUME NEW i \in Open(r, o)
        PROVE  r[i].share \in {e.share} \/ \E x \in 1 .. Len(w) : r[i].share = w[x]
    <3>1. CASE i \in Open(q, o)
      <4>1. PICK x \in 1 .. Len(w) : q[i].share = w[x]
        BY <3>1, <2>1
      <4> QED BY <3>1, <4>1, <1>3
    <3>2. CASE i = Len(q) + 1
      BY <3>2, <2>2
    <3> QED BY <3>1, <3>2, <1>2
  <2>4. ASSUME NEW x \in 1 .. Len(w)
        PROVE  \E i \in Open(r, o) : r[i].share = w[x]
    <3>1. PICK i \in Open(q, o) : q[i].share = w[x]
      BY <2>1
    <3>2. i \in Open(r, o) /\ r[i] = q[i]
      BY <1>2, <1>3
    <3> QED BY <3>1, <3>2
  <2> QED BY <2>2, <2>3, <2>4
<1>7. \A i \in Open(r, o) : r[i].share \in {e.share} => \A j \in Open(r, o) : j <= i
  <2>1. \A i \in Open(r, o) : r[i].share = e.share => i = Len(q) + 1
    BY <1>2, <1>3, <1>4
  <2>2. \A j \in Open(r, o) : j <= Len(q) + 1
    <3>1. \A j \in Open(q, o) : j \in Nat
      BY DEF Open
    <3> QED BY <3>1, <1>1, <1>2, <1>3
  <2> QED BY <2>1, <2>2
<1>8. ASSUME NEW i \in Open(r, o), NEW j \in Open(r, o), NEW x \in 1 .. Len(w), NEW y \in 1 .. Len(w),
             i < j, r[i].share = w[x], r[j].share = w[y]
      PROVE  x < y
  <2>1. j # Len(q) + 1
    BY <1>1, <1>8
  <2>2. i \in Open(q, o) /\ j \in Open(q, o)
    BY <2>1, <1>1, <1>2, <1>3, <1>8
  <2>3. \A a, b \in Open(q, o), c, d \in 1 .. Len(w) :
          a < b /\ q[a].share = w[c] /\ q[b].share = w[d] => c < d
    BY <1>5 DEF InLine
  <2>4. q[i].share = w[x] /\ q[j].share = w[y]
    BY <2>2, <1>3, <1>8
  <2> QED BY <2>2, <2>3, <2>4, <1>8
<1>9. \A x, y \in 1 .. Len(w) : w[x] = w[y] => x = y
  BY <1>5 DEF InLine
<1> QED BY <1>6, <1>7, <1>8, <1>9 DEF InLine, o, r

\* A share noted for one origin changes nothing for the other.
LEMMA NotedElsewhere ==
  ASSUME NEW q \in Seq(Entries), NEW e \in Entries, NEW o, NEW w, NEW n,
         e.origin # o, InLine(q, o, w, n)
  PROVE  InLine(Append(q, e), o, w, n)
<1> DEFINE r == Append(q, e)
<1>1. /\ Len(q) \in Nat /\ Len(r) = Len(q) + 1 /\ r[Len(q) + 1] = e
      /\ \A i \in 1 .. Len(q) : r[i] = q[i]
  <2> HIDE DEF Entries
  <2> QED BY AppendProperties, LenProperties
<1> HIDE DEF r
<1>2. Open(r, o) = Open(q, o) /\ \A i \in Open(q, o) : r[i] = q[i]
  <2>1. 1 .. Len(r) = 1 .. Len(q) \cup {Len(q) + 1}
    BY <1>1
  <2> QED BY <2>1, <1>1 DEF Open
<1>3. InLine(r, o, w, n)
  BY <1>2 DEF InLine
<1> QED BY <1>3 DEF r

\* The share noted last goes to the end of the wire.
LEMMA SentIsLast ==
  ASSUME NEW q, NEW o, NEW w \in Seq(Shares), NEW s \in Shares, Len(q) \in Nat,
         InLine(q, o, w, {s})
  PROVE  InLine(q, o, Append(w, s), {})
<1> DEFINE v == Append(w, s)
<1>1. /\ Len(w) \in Nat /\ Len(v) = Len(w) + 1 /\ v[Len(w) + 1] = s
      /\ \A x \in 1 .. Len(w) : v[x] = w[x]
  <2> HIDE DEF Shares
  <2> QED BY AppendProperties, LenProperties
<1> HIDE DEF v
<1>2. 1 .. Len(v) = 1 .. Len(w) \cup {Len(w) + 1}
  BY <1>1
<1>3. \A x \in 1 .. Len(w) : w[x] # s
  BY DEF InLine
<1>4. /\ \A i \in Open(q, o) : \E x \in 1 .. Len(v) : q[i].share = v[x]
      /\ \A x \in 1 .. Len(v) : \E i \in Open(q, o) : q[i].share = v[x]
  <2>1. ASSUME NEW i \in Open(q, o)
        PROVE  \E x \in 1 .. Len(v) : q[i].share = v[x]
    <3>1. CASE q[i].share = s
      <4>1. Len(w) + 1 \in 1 .. Len(v)
        BY <1>2
      <4> QED BY <4>1, <3>1, <1>1
    <3>2. CASE q[i].share # s
      <4>1. \E x \in 1 .. Len(w) : q[i].share = w[x]
        BY <3>2 DEF InLine
      <4>2. PICK x \in 1 .. Len(w) : q[i].share = w[x]
        BY <4>1
      <4>3. x \in 1 .. Len(v) /\ v[x] = w[x]
        BY <1>1, <1>2
      <4> QED BY <4>2, <4>3
    <3> QED BY <3>1, <3>2
  <2>2. ASSUME NEW x \in 1 .. Len(v)
        PROVE  \E i \in Open(q, o) : q[i].share = v[x]
    <3>1. CASE x = Len(w) + 1
      <4>1. \E i \in Open(q, o) : q[i].share = s
        BY DEF InLine
      <4> QED BY <4>1, <3>1, <1>1
    <3>2. CASE x # Len(w) + 1
      <4>1. x \in 1 .. Len(w)
        BY <3>2, <1>2
      <4>2. \E i \in Open(q, o) : q[i].share = w[x]
        BY <4>1 DEF InLine
      <4> QED BY <4>1, <4>2, <1>1
    <3> QED BY <3>1, <3>2
  <2> QED BY <2>1, <2>2
<1>5. ASSUME NEW i \in Open(q, o), NEW j \in Open(q, o), NEW x \in 1 .. Len(v), NEW y \in 1 .. Len(v),
             i < j, q[i].share = v[x], q[j].share = v[y]
      PROVE  x < y
  <2>1. CASE x = Len(w) + 1
    <3>1. j <= i
      BY <2>1, <1>1, <1>5 DEF InLine
    <3> QED BY <3>1, <1>5 DEF Open
  <2>2. CASE x # Len(w) + 1 /\ y = Len(w) + 1
    BY <2>2, <1>1, <1>2
  <2>3. CASE x # Len(w) + 1 /\ y # Len(w) + 1
    <3>1. \A a, b \in Open(q, o), c, d \in 1 .. Len(w) :
            a < b /\ q[a].share = w[c] /\ q[b].share = w[d] => c < d
      BY DEF InLine
    <3>2. x \in 1 .. Len(w) /\ y \in 1 .. Len(w) /\ q[i].share = w[x] /\ q[j].share = w[y]
      BY <2>3, <1>1, <1>2, <1>5
    <3> QED BY <3>1, <3>2, <1>5
  <2> QED BY <2>1, <2>2, <2>3
<1>6. \A x, y \in 1 .. Len(v) : v[x] = v[y] => x = y
  <2>1. \A x, y \in 1 .. Len(w) : w[x] = w[y] => x = y
    BY DEF InLine
  <2> QED BY <2>1, <1>1, <1>2, <1>3
<1>7. InLine(q, o, v, {})
  BY <1>4, <1>5, <1>6 DEF InLine
<1> QED BY <1>7 DEF v

(***************************************************************************)
(* The oldest open submit of an origin is the least of its places.         *)
(***************************************************************************)
LEMMA LeastIsThere ==
  ASSUME NEW m \in Nat, NEW T \in SUBSET (1 .. m), T # {}
  PROVE  Min(T) \in T /\ \A y \in T : Min(T) <= y
<1> DEFINE Under(x) == {z \in T : z < x}
           Family == {Under(x) : x \in T}
           Orders == StrictSubsetOrdering(T)
<1>1. IsFiniteSet(T)
  <2>1. IsFiniteSet(1 .. m)
    BY FS_Interval, m \in Int, 1 \in Int
  <2> HIDE DEF Under, Family, Orders
  <2> QED BY <2>1, FS_Subset
<1>2. IsWellFoundedOn(Orders, SUBSET T)
  BY <1>1, FS_StrictSubsetOrderingWellFounded, FS_FiniteSubsetsOfFinite
<1>3. \E U \in Family : \A V \in Family : <<V, U>> \notin Orders
  <2>1. Family \subseteq SUBSET T /\ Family # {}
    OBVIOUS
  <2> HIDE DEF Family, Orders
  <2> QED BY <1>2, <2>1, WFMin
<1>4. PICK x \in T : \A y \in T : <<Under(y), Under(x)>> \notin Orders
  BY <1>3
<1>5. \A y \in T : x <= y
  <2> SUFFICES ASSUME NEW y \in T, y < x PROVE FALSE
    BY <1>4
  <2>1. Under(y) \subseteq Under(x) /\ y \in Under(x) /\ y \notin Under(y)
    <3>1. \A z \in T : z \in Int
      OBVIOUS
    <3>2. x \in Int /\ y \in Int /\ \A z \in T : z < y => z < x
      BY <1>4, <3>1
    <3>3. Under(y) \subseteq Under(x)
      BY <3>2
    <3>4. y \in Under(x)
      BY <3>2
    <3>5. y \notin Under(y)
      BY <3>2
    <3> QED BY <3>3, <3>4, <3>5
  <2>2. <<Under(y), Under(x)>> \in Orders
    BY <2>1 DEF StrictSubsetOrdering
  <2> QED BY <1>4, <2>2
<1> QED BY <1>4, <1>5 DEF Min

LEMMA OldestIsLeast ==
  ASSUME NEW o, submits \in Seq(Entries)
  PROVE  /\ OldestOf(o) = 0 => Open(submits, o) = {}
         /\ OldestOf(o) # 0 => /\ OldestOf(o) \in Open(submits, o)
                               /\ \A j \in Open(submits, o) : OldestOf(o) <= j
<1>1. OldestOf(o) = IF Open(submits, o) # {} THEN Min(Open(submits, o)) ELSE 0
  BY DEF OldestOf, SelectInSeq, Open
<1>2. Open(submits, o) \subseteq 1 .. Len(submits) /\ Len(submits) \in Nat
  BY LenProperties DEF Open
<1>3. CASE Open(submits, o) = {}
  BY <1>1, <1>3
<1>4. CASE Open(submits, o) # {}
  <2>1. /\ Min(Open(submits, o)) \in Open(submits, o)
        /\ \A y \in Open(submits, o) : Min(Open(submits, o)) <= y
    BY <1>2, <1>4, LeastIsThere
  <2> QED BY <1>1, <1>2, <1>4, <2>1
<1> QED BY <1>3, <1>4

(***************************************************************************)
(* The invariant.                                                          *)
(***************************************************************************)
Typed ==
  /\ target \in [Origins -> Targets \cup {0}]
  /\ submits \in Seq(Entries) /\ Len(submits) <= Cap
  /\ mining \in [Devices -> {NoShare} \cup [origin : Origins, goal : Targets]]
  /\ pc \in [Devices -> {"mine", "found", "noted"}]
  /\ share \in [Devices -> Shares \cup {NoShare}]
  /\ \A d \in Devices : pc[d] # "mine" => share[d] \in Shares
  /\ open \in [Origins -> BOOLEAN]
  /\ wire \in [Origins -> Seq(Shares)]
  /\ found \in 0 .. MaxShares
  /\ mispaired \in [Origins -> BOOLEAN]
  /\ inOrder \in [Origins -> BOOLEAN]

\* No two shares in hand are one, and one not yet noted is on no wire.
FreshInv ==
  /\ \A d \in Devices : pc[d] # "mine" => share[d].id <= found
  /\ \A d, e \in Devices : pc[d] # "mine" /\ pc[e] # "mine" /\ share[d].id = share[e].id => d = e
  /\ \A o \in Origins : \A x \in 1 .. Len(wire[o]) : wire[o][x].id <= found
  /\ \A d \in Devices : pc[d] = "found" =>
       \A o \in Origins : \A x \in 1 .. Len(wire[o]) : wire[o][x].id # share[d].id

\* The shares of o that are noted and not yet written.
Noted(o) == {share[d] : d \in {c \in Devices : pc[c] = "noted" /\ share[c].origin = o}}

MatchInv == \A o \in Origins : inOrder[o] => InLine(submits, o, wire[o], Noted(o))

\* While no share was noted under a later job's difficulty, a submit pays its share's.
PayInv ==
  ~moved => \A i \in 1 .. Len(submits) : submits[i].units = submits[i].share.goal

PairInv == Typed /\ FreshInv /\ MatchInv /\ PayInv /\ PairedInOrder

LEMMA InitPair == Init => PairInv
<1> SUFFICES ASSUME Init PROVE PairInv
  OBVIOUS
<1>1. << >> \in Seq(Entries) /\ << >> \in Seq(Shares) /\ Len(<< >>) = 0
  BY EmptySeq
<1>2. Typed
  BY <1>1, StatisticsAssumption DEF Init, Typed, StatisticsAssumption
<1>3. FreshInv
  BY <1>1 DEF Init, FreshInv
<1>4. MatchInv
  <2> SUFFICES ASSUME NEW o \in Origins PROVE InLine(<< >>, o, << >>, Noted(o))
    BY DEF Init, MatchInv
  <2>1. Open(<< >>, o) = {} /\ Noted(o) = {}
    BY <1>1 DEF Init, Open, Noted
  <2> QED BY <1>1, <2>1 DEF InLine
<1>5. PayInv /\ PairedInOrder
  BY <1>1 DEF Init, PayInv, PairedInOrder, Origins
<1> QED BY <1>2, <1>3, <1>4, <1>5 DEF PairInv

Entry(d) == [share |-> share[d], device |-> d, origin |-> share[d].origin,
             units |-> Units(share[d].origin)]

\* A list that overflows loses its head and nothing else.
LEMMA NewestKeepsOrder ==
  ASSUME NEW q \in Seq(Entries), Len(q) <= Cap, NEW e \in Entries
  PROVE  /\ Newest(Append(q, e)) \in Seq(Entries) /\ Len(Newest(Append(q, e))) <= Cap
         /\ Len(q) # Cap => Newest(Append(q, e)) = Append(q, e)
         /\ Len(q) = Cap => /\ Without(Append(q, e), 1, Newest(Append(q, e)))
                            /\ Append(q, e)[1] = Head(q)
<1> DEFINE r == Append(q, e)
<1>1. /\ r \in Seq(Entries) /\ r # << >> /\ Len(q) \in Nat /\ Len(r) = Len(q) + 1
      /\ \A i \in 1 .. Len(q) : r[i] = q[i]
  <2> HIDE DEF Entries
  <2> QED BY AppendProperties, LenProperties
<1>2. Cap \in Nat \ {0}
  BY StatisticsAssumption DEF StatisticsAssumption
<1>3. /\ Tail(r) \in Seq(Entries) /\ Len(Tail(r)) = Len(r) - 1
      /\ \A i \in 1 .. Len(Tail(r)) : Tail(r)[i] = r[i + 1]
  <2> HIDE DEF Entries, r
  <2> QED BY <1>1, HeadTailProperties
<1> HIDE DEF r
<1>4. CASE Len(q) # Cap
  <2>1. Newest(r) = r
    BY <1>1, <1>2, <1>4 DEF Newest
  <2> QED BY <2>1, <1>1, <1>2, <1>4 DEF r
<1>5. CASE Len(q) = Cap
  <2>1. Newest(r) = Tail(r)
    BY <1>1, <1>2, <1>5 DEF Newest
  <2>2. Without(r, 1, Tail(r))
    BY <1>1, <1>3 DEF Without
  <2>3. r[1] = Head(q)
    <3>1. 1 \in 1 .. Len(q)
      BY <1>1, <1>2, <1>5
    <3>2. Head(q) = q[1]
      <4> HIDE DEF Entries
      <4> QED BY <3>1, EmptySeq, HeadTailProperties
    <3> QED BY <3>1, <3>2, <1>1
  <2> QED BY <2>1, <2>2, <2>3, <1>1, <1>2, <1>3, <1>5 DEF r
<1> QED BY <1>4, <1>5

LEMMA EntryIsTyped ==
  ASSUME Typed, NEW d \in Devices, pc[d] # "mine"
  PROVE  Entry(d) \in Entries
BY DEF Typed, Entry, Entries, Units, Shares

LEMMA SubmitIsEntry ==
  ASSUME NEW d \in Devices, RecordSubmit(d)
  PROVE  submits' = Newest(Append(submits, Entry(d)))
BY DEF RecordSubmit, Entry

LEMMA NextTyped == Typed /\ [Next]_vars => Typed'
<1> SUFFICES ASSUME Typed, [Next]_vars PROVE Typed'
  OBVIOUS
<1>1. CASE UNCHANGED vars
  BY <1>1 DEF Typed, vars, statsVars, engineVars, wireVars, historyVars
<1>2. ASSUME NEW o \in Origins, NEW units \in TargetsOf(o), RecordJob(o, units) PROVE Typed'
  <2>1. units \in Targets
    BY DEF TargetsOf, Targets
  <2> QED BY <2>1, <1>2 DEF Typed, RecordJob, engineVars, wireVars, historyVars
<1>3. ASSUME NEW o \in Origins, NEW d \in Devices, TakeJob(d, o) PROVE Typed'
  <2>1. [origin |-> o, goal |-> target[o]] \in [origin : Origins, goal : Targets]
    BY <1>3 DEF Typed, TakeJob
  <2>2. mining' \in [Devices -> {NoShare} \cup [origin : Origins, goal : Targets]]
    BY <2>1, <1>3 DEF Typed, TakeJob
  <2>3. UNCHANGED <<target, submits, pc, share, open, wire, found, mispaired, inOrder>>
    BY <1>3 DEF TakeJob, statsVars, wireVars, historyVars
  <2> QED BY <2>2, <2>3 DEF Typed
<1>4. ASSUME NEW o \in Origins, NEW v \in Verdicts, RecordResult(o, v) PROVE Typed'
  <2>1. wire' \in [Origins -> Seq(Shares)]
    <3>1. Tail(wire[o]) \in Seq(Shares)
      <4>1. wire[o] \in Seq(Shares) /\ wire[o] # << >>
        BY <1>4 DEF Typed, RecordResult
      <4> HIDE DEF Shares
      <4> QED BY <4>1, HeadTailProperties
    <3> QED BY <3>1, <1>4 DEF Typed, RecordResult
  <2>2. submits' \in Seq(Entries) /\ Len(submits') <= Cap
    <3>1. CASE OldestOf(o) = 0
      BY <3>1, <1>4 DEF Typed, RecordResult
    <3>2. CASE OldestOf(o) # 0
      <4>1. OldestOf(o) \in 1 .. Len(submits)
        BY <3>2, OldestIsLeast DEF Typed, Open
      <4>2. submits' = RemoveAt(submits, OldestOf(o))
        BY <3>2, <1>4 DEF RecordResult
      <4>3. Len(submits) \in Nat /\ Cap \in Nat
        BY LenProperties, StatisticsAssumption DEF Typed, StatisticsAssumption
      <4> QED BY <4>1, <4>2, <4>3, RemoveAtIsWithout DEF Typed, Without
    <3> QED BY <3>1, <3>2
  <2>3. mispaired' \in [Origins -> BOOLEAN]
    BY <1>4 DEF Typed, RecordResult
  <2>4. UNCHANGED <<target, mining, pc, share, open, found, inOrder>>
    BY <1>4 DEF RecordResult, engineVars
  <2> QED BY <2>1, <2>2, <2>3, <2>4 DEF Typed
<1>5. ASSUME NEW o \in Origins, Drop(o) \/ Reconnect(o) PROVE Typed'
  <2>1. << >> \in Seq(Shares)
    BY EmptySeq
  <2>2. UNCHANGED <<target, submits, mining, pc, share, found, mispaired>>
    BY <1>5 DEF Drop, Reconnect, statsVars, engineVars, historyVars
  <2>3. open' \in [Origins -> BOOLEAN] /\ inOrder' \in [Origins -> BOOLEAN]
    BY <1>5 DEF Typed, Drop, Reconnect, historyVars
  <2>4. wire' \in [Origins -> Seq(Shares)]
    <3> HIDE DEF Shares
    <3> QED BY <2>1, <1>5 DEF Typed, Drop, Reconnect
  <2> QED BY <2>2, <2>3, <2>4 DEF Typed
<1>6. ASSUME NEW d \in Devices, Find(d) PROVE Typed'
  <2>1. found + 1 \in 1 .. MaxShares
    BY <1>6, StatisticsAssumption DEF Typed, Find, StatisticsAssumption
  <2>2. mining[d] \in [origin : Origins, goal : Targets]
    BY <1>6 DEF Typed, Find
  <2>3. [id |-> found + 1, origin |-> mining[d].origin, goal |-> mining[d].goal] \in Shares
    BY <2>1, <2>2 DEF Shares
  <2>4. UNCHANGED <<target, submits, mining, open, wire, mispaired, inOrder>>
    BY <1>6 DEF Find, statsVars, wireVars
  <2>5. /\ found' \in 0 .. MaxShares
        /\ share' \in [Devices -> Shares \cup {NoShare}]
        /\ pc' \in [Devices -> {"mine", "found", "noted"}]
        /\ \A e \in Devices : pc'[e] # "mine" => share'[e] \in Shares
    BY <2>1, <2>3, <1>6 DEF Typed, Find
  <2> QED BY <2>4, <2>5 DEF Typed
<1>7. ASSUME NEW d \in Devices, RecordSubmit(d) PROVE Typed'
  <2>1. submits' \in Seq(Entries) /\ Len(submits') <= Cap
    <3>1. Entry(d) \in Entries
      BY <1>7, EntryIsTyped DEF RecordSubmit
    <3> QED BY <3>1, <1>7, SubmitIsEntry, NewestKeepsOrder DEF Typed
  <2>2. pc' \in [Devices -> {"mine", "found", "noted"}]
    BY <1>7 DEF Typed, RecordSubmit
  <2>3. inOrder' \in [Origins -> BOOLEAN]
    BY <1>7 DEF Typed, RecordSubmit, Overlaps
  <2>4. \A e \in Devices : pc'[e] # "mine" => share'[e] \in Shares
    BY <1>7 DEF Typed, RecordSubmit
  <2> QED BY <2>1, <2>2, <2>3, <2>4, <1>7 DEF Typed, RecordSubmit, wireVars
<1>8. ASSUME NEW d \in Devices, Send(d) PROVE Typed'
  <2>1. wire' \in [Origins -> Seq(Shares)]
    <3>1. share[d] \in Shares /\ share[d].origin \in Origins
      BY <1>8 DEF Typed, Send, Shares
    <3>2. \A o \in Origins : Append(wire[o], share[d]) \in Seq(Shares)
      <4>1. \A o \in Origins : wire[o] \in Seq(Shares)
        BY DEF Typed
      <4> HIDE DEF Shares
      <4> QED BY <4>1, <3>1, AppendProperties
    <3> QED BY <3>1, <3>2, <1>8 DEF Typed, Send
  <2>2. inOrder' \in [Origins -> BOOLEAN]
    <3>1. share[d].origin \in Origins
      BY <1>8 DEF Typed, Send, Shares
    <3> QED BY <3>1, <1>8 DEF Typed, Send
  <2> QED BY <2>1, <2>2, <1>8 DEF Typed, Send, statsVars
<1> QED BY <1>1, <1>2, <1>3, <1>4, <1>5, <1>6, <1>7, <1>8 DEF Next

LEMMA NextFresh == Typed /\ FreshInv /\ [Next]_vars => FreshInv'
<1> SUFFICES ASSUME Typed, FreshInv, [Next]_vars PROVE FreshInv'
  OBVIOUS
<1>1. CASE UNCHANGED vars
  BY <1>1 DEF FreshInv, vars, engineVars, wireVars, historyVars
<1>2. ASSUME NEW o \in Origins, NEW units \in TargetsOf(o), RecordJob(o, units) PROVE FreshInv'
  BY <1>2 DEF FreshInv, RecordJob, engineVars, wireVars, historyVars
<1>3. ASSUME NEW o \in Origins, NEW d \in Devices, TakeJob(d, o) PROVE FreshInv'
  BY <1>3 DEF FreshInv, TakeJob, wireVars, historyVars
<1>4. ASSUME NEW o \in Origins, NEW v \in Verdicts, RecordResult(o, v) PROVE FreshInv'
  <2>1. UNCHANGED <<pc, share, found>>
    BY <1>4 DEF RecordResult, engineVars
  <2>2. \A p \in Origins : \A x \in 1 .. Len(wire'[p]) :
          \E y \in 1 .. Len(wire[p]) : wire'[p][x] = wire[p][y]
    <3> SUFFICES ASSUME NEW p \in Origins, NEW x \in 1 .. Len(wire'[p])
                 PROVE  \E y \in 1 .. Len(wire[p]) : wire'[p][x] = wire[p][y]
      OBVIOUS
    <3>1. CASE p # o
      BY <3>1, <1>4 DEF Typed, RecordResult
    <3>2. CASE p = o
      <4>1. wire'[o] = Tail(wire[o]) /\ wire[o] # << >> /\ wire[o] \in Seq(Shares)
        BY <1>4 DEF Typed, RecordResult
      <4>2. /\ Len(wire[o]) \in Nat /\ Len(Tail(wire[o])) = Len(wire[o]) - 1
            /\ \A i \in 1 .. Len(Tail(wire[o])) : Tail(wire[o])[i] = wire[o][i + 1]
        <5> HIDE DEF Shares
        <5> QED BY <4>1, HeadTailProperties, LenProperties
      <4>3. x + 1 \in 1 .. Len(wire[o]) /\ wire'[o][x] = wire[o][x + 1]
        BY <3>2, <4>1, <4>2
      <4> QED BY <3>2, <4>3
    <3> QED BY <3>1, <3>2
  <2> QED BY <2>1, <2>2 DEF FreshInv
<1>5. ASSUME NEW o \in Origins, Drop(o) \/ Reconnect(o) PROVE FreshInv'
  <2>1. UNCHANGED <<pc, share, found>>
    BY <1>5 DEF Drop, Reconnect, engineVars, historyVars
  <2>2. \A p \in Origins : wire'[p] = wire[p] \/ wire'[p] = << >>
    BY <1>5 DEF Drop, Reconnect, Typed
  <2>3. Len(<< >>) = 0
    BY EmptySeq
  <2> QED BY <2>1, <2>2, <2>3 DEF FreshInv
<1>6. ASSUME NEW d \in Devices, Find(d) PROVE FreshInv'
  <2>1. /\ pc[d] = "mine" /\ found' = found + 1 /\ UNCHANGED wire
        /\ pc' = [pc EXCEPT ![d] = "found"]
        /\ share'[d].id = found + 1
        /\ \A e \in Devices \ {d} : share'[e] = share[e]
    BY <1>6 DEF Find, Typed, wireVars
  <2>2. found \in Nat /\ \A e \in Devices : pc[e] # "mine" => share[e].id \in Nat
    BY StatisticsAssumption DEF Typed, Shares, StatisticsAssumption
  <2>3. \A e \in Devices \ {d} : pc'[e] = pc[e]
    BY <2>1 DEF Typed
  <2>4. \A o \in Origins : \A x \in 1 .. Len(wire[o]) : wire[o][x].id \in Nat /\ wire[o][x].id <= found
    <3>1. \A o \in Origins : \A x \in 1 .. Len(wire[o]) : wire[o][x] \in Shares
      BY ElementOfSeq DEF Typed
    <3> QED BY <3>1 DEF FreshInv, Shares
  <2>5. \A o \in Origins : \A x \in 1 .. Len(wire[o]) : wire[o][x].id # found + 1 /\ wire[o][x].id <= found + 1
    BY <2>2, <2>4
  <2>6. \A e \in Devices \ {d} : pc[e] # "mine" => share[e].id # found + 1 /\ share[e].id <= found + 1
    BY <2>2 DEF FreshInv
  <2>7. \A e \in Devices : pc'[e] # "mine" => share'[e].id <= found'
    BY <2>1, <2>2, <2>3, <2>6
  <2>8. \A c, e \in Devices : pc'[c] # "mine" /\ pc'[e] # "mine" /\ share'[c].id = share'[e].id => c = e
    BY <2>1, <2>3, <2>6 DEF FreshInv
  <2>9. \A e \in Devices : pc'[e] = "found" =>
          \A o \in Origins : \A x \in 1 .. Len(wire[o]) : wire[o][x].id # share'[e].id
    BY <2>1, <2>3, <2>5 DEF FreshInv
  <2> QED BY <2>1, <2>5, <2>7, <2>8, <2>9 DEF FreshInv
<1>7. ASSUME NEW d \in Devices, RecordSubmit(d) PROVE FreshInv'
  <2>1. /\ UNCHANGED <<share, wire, found>> /\ pc[d] = "found"
        /\ \A e \in Devices : pc'[e] = IF e = d THEN "noted" ELSE pc[e]
    BY <1>7 DEF RecordSubmit, Typed, wireVars
  <2> QED BY <2>1 DEF FreshInv
<1>8. ASSUME NEW d \in Devices, Send(d) PROVE FreshInv'
  <2>1. /\ pc[d] = "noted" /\ UNCHANGED found
        /\ \A e \in Devices : pc'[e] = IF e = d THEN "mine" ELSE pc[e]
        /\ \A e \in Devices \ {d} : share'[e] = share[e]
    BY <1>8 DEF Send, Typed
  <2>2. \A o \in Origins : \A x \in 1 .. Len(wire'[o]) :
          wire'[o][x] = share[d] \/ \E y \in 1 .. Len(wire[o]) : wire'[o][x] = wire[o][y]
    <3> SUFFICES ASSUME NEW o \in Origins, NEW x \in 1 .. Len(wire'[o])
                 PROVE  wire'[o][x] = share[d] \/ \E y \in 1 .. Len(wire[o]) : wire'[o][x] = wire[o][y]
      OBVIOUS
    <3>1. CASE wire'[o] = wire[o]
      BY <3>1
    <3>2. CASE wire'[o] # wire[o]
      <4>1. wire'[o] = Append(wire[o], share[d]) /\ share[d] \in Shares /\ wire[o] \in Seq(Shares)
        BY <3>2, <1>8 DEF Send, Typed
      <4>2. /\ Len(wire[o]) \in Nat /\ Len(wire'[o]) = Len(wire[o]) + 1
            /\ wire'[o][Len(wire[o]) + 1] = share[d]
            /\ \A y \in 1 .. Len(wire[o]) : wire'[o][y] = wire[o][y]
        <5> HIDE DEF Shares
        <5> QED BY <4>1, AppendProperties, LenProperties
      <4>3. x = Len(wire[o]) + 1 \/ x \in 1 .. Len(wire[o])
        BY <4>2
      <4> QED BY <4>2, <4>3
    <3> QED BY <3>1, <3>2
  <2>3. \A o \in Origins : \A x \in 1 .. Len(wire'[o]) : wire'[o][x].id <= found
    BY <2>1, <2>2 DEF FreshInv
  <2>4. \A e \in Devices : pc'[e] = "found" =>
          \A o \in Origins : \A x \in 1 .. Len(wire'[o]) : wire'[o][x].id # share'[e].id
    BY <2>1, <2>2 DEF FreshInv
  <2>5. \A e \in Devices : pc'[e] # "mine" => share'[e].id <= found'
    BY <2>1 DEF FreshInv
  <2>6. \A c, e \in Devices : pc'[c] # "mine" /\ pc'[e] # "mine" /\ share'[c].id = share'[e].id => c = e
    BY <2>1 DEF FreshInv
  <2> QED BY <2>1, <2>3, <2>4, <2>5, <2>6 DEF FreshInv
<1> QED BY <1>1, <1>2, <1>3, <1>4, <1>5, <1>6, <1>7, <1>8 DEF Next

\* What record_result takes the answer for, and what that leaves behind: the oldest
\* submit of the origin is the share answered, while its pool's answers are in order.
LEMMA AnswerTakesItsShare ==
  ASSUME Typed, MatchInv, NEW o \in Origins, NEW v \in Verdicts, RecordResult(o, v), inOrder[o]
  PROVE  /\ OldestOf(o) \in 1 .. Len(submits)
         /\ submits[OldestOf(o)].share = Head(wire[o])
         /\ InLine(submits', o, wire'[o], Noted(o))
<1> DEFINE k == OldestOf(o)
           w == wire[o]
<1>1. w \in Seq(Shares) /\ w # << >> /\ Len(submits) \in Nat
  BY LenProperties DEF RecordResult, Typed
<1>2. InLine(submits, o, w, Noted(o))
  BY DEF MatchInv
<1>3. 1 \in 1 .. Len(w)
  <2> HIDE DEF w, Shares
  <2> QED BY <1>1, EmptySeq
<1>4. Open(submits, o) # {}
  <2> HIDE DEF w
  <2> QED BY <1>2, <1>3 DEF InLine
<1>5. k \in Open(submits, o) /\ k # 0 /\ \A j \in Open(submits, o) : k <= j
  BY <1>4, OldestIsLeast DEF Typed
<1>6. k \in 1 .. Len(submits)
  BY <1>5 DEF Open
<1>7. submits' = RemoveAt(submits, k) /\ wire'[o] = Tail(w)
  BY <1>5 DEF RecordResult, Typed
<1>8. Without(submits, k, submits')
  BY <1>6, <1>7, RemoveAtIsWithout DEF Typed
<1> HIDE DEF k, w
<1>9. submits[k].share = Head(w) /\ InLine(submits', o, Tail(w), Noted(o))
  BY <1>1, <1>2, <1>5, <1>8, OldestIsAnswered
<1> QED BY <1>6, <1>7, <1>9 DEF k, w

LEMMA NextMatch == Typed /\ FreshInv /\ MatchInv /\ [Next]_vars => MatchInv'
<1> SUFFICES ASSUME Typed, FreshInv, MatchInv, [Next]_vars PROVE MatchInv'
  OBVIOUS
<1>0. Len(submits) \in Nat
  BY LenProperties DEF Typed
<1>1. CASE UNCHANGED vars
  BY <1>1 DEF MatchInv, Noted, vars, statsVars, engineVars, wireVars, historyVars
<1>2. ASSUME NEW o \in Origins, NEW units \in TargetsOf(o), RecordJob(o, units) PROVE MatchInv'
  BY <1>2 DEF MatchInv, Noted, RecordJob, engineVars, wireVars, historyVars
<1>3. ASSUME NEW o \in Origins, NEW d \in Devices, TakeJob(d, o) PROVE MatchInv'
  BY <1>3 DEF MatchInv, Noted, TakeJob, statsVars, wireVars, historyVars
<1>4. ASSUME NEW o \in Origins, NEW v \in Verdicts, RecordResult(o, v) PROVE MatchInv'
  <2> SUFFICES ASSUME NEW p \in Origins, inOrder[p] PROVE InLine(submits', p, wire'[p], Noted(p))
    BY <1>4 DEF MatchInv, RecordResult, engineVars, Noted
  <2>1. CASE p = o
    BY <2>1, <1>4, AnswerTakesItsShare
  <2>2. CASE p # o
    <3>1. wire'[p] = wire[p] /\ InLine(submits, p, wire[p], Noted(p))
      BY <2>2, <1>4 DEF RecordResult, Typed, MatchInv
    <3>2. CASE OldestOf(o) = 0
      BY <3>1, <3>2, <1>4 DEF RecordResult
    <3>3. CASE OldestOf(o) # 0
      <4>1. OldestOf(o) \in 1 .. Len(submits) /\ submits[OldestOf(o)].origin = o
        BY <3>3, OldestIsLeast DEF Typed, Open
      <4>2. submits' = RemoveAt(submits, OldestOf(o))
        BY <3>3, <1>4 DEF RecordResult
      <4>3. Without(submits, OldestOf(o), submits')
        BY <4>1, <4>2, RemoveAtIsWithout DEF Typed
      <4> QED BY <4>1, <4>3, <3>1, <2>2, <1>0, WithoutOther
    <3> QED BY <3>2, <3>3
  <2> QED BY <2>1, <2>2
<1>5. ASSUME NEW o \in Origins, Drop(o) \/ Reconnect(o) PROVE MatchInv'
  <2>1. UNCHANGED <<submits, pc, share>>
    BY <1>5 DEF Drop, Reconnect, statsVars, engineVars
  <2>2. \A p \in Origins : inOrder'[p] => inOrder[p] /\ wire'[p] = wire[p]
    BY <1>5 DEF Drop, Reconnect, Typed, historyVars
  <2> QED BY <2>1, <2>2 DEF MatchInv, Noted
<1>6. ASSUME NEW d \in Devices, Find(d) PROVE MatchInv'
  <2>1. UNCHANGED <<submits, wire, inOrder>>
    BY <1>6 DEF Find, statsVars, wireVars
  <2>2. \A e \in Devices : /\ pc'[e] = "noted" <=> pc[e] = "noted"
                           /\ pc[e] = "noted" => share'[e] = share[e]
    BY <1>6 DEF Find, Typed
  <2>3. \A p \in Origins : Noted(p)' = Noted(p)
    BY <2>2 DEF Noted
  <2> QED BY <2>1, <2>3 DEF MatchInv
<1>7. ASSUME NEW d \in Devices, RecordSubmit(d) PROVE MatchInv'
  <2> DEFINE s == share[d]
             e == Entry(d)
             r == Append(submits, e)
  <2>1. /\ pc[d] = "found" /\ s \in Shares /\ e \in Entries
        /\ e.share = s /\ e.origin = s.origin
    BY <1>7, EntryIsTyped DEF RecordSubmit, Typed, Entry
  <2>2. UNCHANGED <<share, wire>> /\ \A c \in Devices : pc'[c] = "noted" <=> pc[c] = "noted" \/ c = d
    BY <1>7 DEF RecordSubmit, Typed, wireVars
  <2>3. submits' = Newest(r)
    BY <1>7, SubmitIsEntry
  <2>4. \A p \in Origins : inOrder'[p] =>
          /\ inOrder[p]
          /\ p = s.origin => ~Overlaps(d)
          /\ Len(submits) = Cap => Head(submits).origin # p
    BY <1>7 DEF RecordSubmit, Typed
  <2> SUFFICES ASSUME NEW p \in Origins, inOrder'[p]
               PROVE  InLine(submits', p, wire[p], Noted(p)')
    BY <2>2 DEF MatchInv
  <2>5. InLine(submits, p, wire[p], Noted(p))
    BY <2>4 DEF MatchInv
  <2>6. InLine(r, p, wire[p], Noted(p)')
    <3>1. CASE p = s.origin
      <4>1. \A c \in Devices : pc[c] = "noted" => share[c].origin # p
        BY <3>1, <2>1, <2>4 DEF Overlaps
      <4>2. Noted(p) = {}
        BY <4>1 DEF Noted
      <4>3. Noted(p)' = {s}
        BY <4>1, <3>1, <2>2 DEF Noted
      <4>4. \A x \in 1 .. Len(wire[p]) : wire[p][x] # s
        BY <2>1 DEF FreshInv
      <4>5. InLine(submits, e.origin, wire[p], {}) /\ \A x \in 1 .. Len(wire[p]) : wire[p][x] # e.share
        BY <2>1, <2>5, <3>1, <4>2, <4>4
      <4>6. InLine(Append(submits, e), e.origin, wire[p], {e.share})
        <5> HIDE DEF e, s
        <5> QED BY <4>5, <2>1, NotedIsLast DEF Typed
      <4> QED BY <4>6, <4>3, <2>1, <3>1
    <3>2. CASE p # s.origin
      <4>1. Noted(p)' = Noted(p)
        BY <3>2, <2>2 DEF Noted
      <4>2. InLine(Append(submits, e), p, wire[p], Noted(p))
        <5>1. e.origin # p
          BY <2>1, <3>2
        <5> HIDE DEF e, s
        <5> QED BY <5>1, <2>1, <2>5, NotedElsewhere DEF Typed
      <4> QED BY <4>1, <4>2
    <3> QED BY <3>1, <3>2
  <2> HIDE DEF e, s
  <2>7. /\ Len(submits) # Cap => Newest(r) = r
        /\ Len(submits) = Cap => Without(r, 1, Newest(r)) /\ r[1] = Head(submits)
    BY <2>1, NewestKeepsOrder DEF Typed
  <2>8. Len(r) \in Nat /\ 1 \in 1 .. Len(r)
    <3>1. Len(r) = Len(submits) + 1
      <4> HIDE DEF Entries
      <4> QED BY <2>1, AppendProperties DEF Typed
    <3> QED BY <3>1, <1>0
  <2> HIDE DEF r
  <2>9. CASE Len(submits) # Cap
    BY <2>9, <2>3, <2>6, <2>7
  <2>10. CASE Len(submits) = Cap
    BY <2>10, <2>3, <2>4, <2>6, <2>7, <2>8, WithoutOther
  <2> QED BY <2>9, <2>10
<1>8. ASSUME NEW d \in Devices, Send(d) PROVE MatchInv'
  <2> DEFINE s == share[d]
  <2>1. /\ pc[d] = "noted" /\ s \in Shares /\ s.origin \in Origins /\ UNCHANGED submits
    BY <1>8 DEF Send, Typed, statsVars, Shares
  <2>2. \A c \in Devices \ {d} : (pc'[c] = "noted" <=> pc[c] = "noted") /\ share'[c] = share[c]
    BY <1>8 DEF Send, Typed
  <2>3. pc'[d] = "mine"
    BY <1>8 DEF Send, Typed
  <2> SUFFICES ASSUME NEW p \in Origins, inOrder'[p]
               PROVE  InLine(submits, p, wire'[p], Noted(p)')
    BY <2>1 DEF MatchInv
  <2>4. CASE p = s.origin
    <3>1. inOrder[p] /\ open[p]
      BY <2>4, <1>8 DEF Send, Typed
    <3>2. wire'[p] = Append(wire[p], s)
      BY <2>4, <3>1, <1>8 DEF Send, Typed
    <3>3. InLine(submits, p, wire[p], Noted(p)) /\ s \in Noted(p)
      BY <3>1, <2>1, <2>4 DEF MatchInv, Noted
    <3>4. Noted(p) = {s}
      BY <3>3 DEF InLine
    <3>5. \A c \in Devices : pc[c] = "noted" /\ share[c].origin = p => c = d
      <4>1. \A c \in Devices : pc[c] = "noted" /\ share[c].origin = p => share[c] = share[d]
        BY <3>4 DEF Noted
      <4> QED BY <4>1, <2>1 DEF FreshInv
    <3>6. Noted(p)' = {}
      BY <3>5, <2>2, <2>3 DEF Noted
    <3>7. InLine(submits, p, Append(wire[p], s), {})
      <4>1. wire[p] \in Seq(Shares)
        BY DEF Typed
      <4>2. InLine(submits, p, wire[p], {s})
        BY <3>3, <3>4
      <4> HIDE DEF s
      <4> QED BY <4>1, <4>2, <2>1, <1>0, SentIsLast
    <3> QED BY <3>2, <3>6, <3>7
  <2>5. CASE p # s.origin
    <3>1. inOrder[p] /\ wire'[p] = wire[p]
      BY <2>5, <1>8 DEF Send, Typed
    <3>2. Noted(p)' = Noted(p)
      BY <2>5, <2>2, <2>3 DEF Noted
    <3> QED BY <3>1, <3>2 DEF MatchInv
  <2> QED BY <2>4, <2>5
<1> QED BY <1>1, <1>2, <1>3, <1>4, <1>5, <1>6, <1>7, <1>8 DEF Next

LEMMA NextPay == Typed /\ PayInv /\ [Next]_vars => PayInv'
<1> SUFFICES ASSUME Typed, PayInv, [Next]_vars PROVE PayInv'
  OBVIOUS
<1>0. Len(submits) \in Nat
  BY LenProperties DEF Typed
<1>1. CASE UNCHANGED <<submits, moved>>
  BY <1>1 DEF PayInv
<1>2. ASSUME NEW o \in Origins, NEW v \in Verdicts, RecordResult(o, v) PROVE PayInv'
  <2>1. UNCHANGED moved
    BY <1>2 DEF RecordResult
  <2>2. CASE OldestOf(o) = 0
    BY <2>2, <2>1, <1>2 DEF RecordResult, PayInv
  <2>3. CASE OldestOf(o) # 0
    <3>1. OldestOf(o) \in 1 .. Len(submits)
      BY <2>3, OldestIsLeast DEF Typed, Open
    <3>2. submits' = RemoveAt(submits, OldestOf(o))
      BY <2>3, <1>2 DEF RecordResult
    <3>3. Without(submits, OldestOf(o), submits')
      BY <3>1, <3>2, RemoveAtIsWithout DEF Typed
    <3>4. \A j \in 1 .. Len(submits') : \E i \in 1 .. Len(submits) : submits'[j] = submits[i]
      BY <3>1, <3>3, <1>0 DEF Without
    <3> QED BY <3>4, <2>1 DEF PayInv
  <2> QED BY <2>2, <2>3
<1>3. ASSUME NEW d \in Devices, RecordSubmit(d) PROVE PayInv'
  <2> DEFINE r == Append(submits, Entry(d))
  <2>1. Entry(d) \in Entries /\ submits' = Newest(r)
    BY <1>3, EntryIsTyped, SubmitIsEntry DEF RecordSubmit
  <2>2. ~moved' => ~moved /\ Entry(d).units = Entry(d).share.goal
    BY <1>3 DEF RecordSubmit, Entry, Units
  <2>3. /\ Len(r) = Len(submits) + 1 /\ r[Len(submits) + 1] = Entry(d)
        /\ \A i \in 1 .. Len(submits) : r[i] = submits[i]
    <3> HIDE DEF Entries
    <3> QED BY <2>1, AppendProperties DEF Typed
  <2>4. /\ Len(submits) # Cap => Newest(r) = r
        /\ Len(submits) = Cap => Without(r, 1, Newest(r))
    BY <2>1, NewestKeepsOrder DEF Typed
  <2> HIDE DEF r
  <2>5. \A j \in 1 .. Len(submits') : \E i \in 1 .. Len(r) : submits'[j] = r[i]
    <3>1. CASE Len(submits) # Cap
      BY <3>1, <2>1, <2>4
    <3>2. CASE Len(submits) = Cap
      <4>1. Len(submits') = Len(r) - 1 /\ \A j \in 1 .. Len(submits') : submits'[j] = r[j + 1]
        BY <3>2, <2>1, <2>4 DEF Without
      <4>2. \A j \in 1 .. Len(submits') : j + 1 \in 1 .. Len(r)
        BY <4>1, <2>3, <1>0
      <4> QED BY <4>1, <4>2
    <3> QED BY <3>1, <3>2
  <2>6. ~moved' => \A i \in 1 .. Len(r) : r[i].units = r[i].share.goal
    <3>1. \A i \in 1 .. Len(r) : i \in 1 .. Len(submits) \/ i = Len(submits) + 1
      BY <2>3, <1>0
    <3> QED BY <3>1, <2>2, <2>3 DEF PayInv
  <2> QED BY <2>5, <2>6 DEF PayInv
<1>4. CASE ~ UNCHANGED <<submits, moved>>
  BY <1>2, <1>3, <1>4 DEF Next, vars, statsVars, historyVars, RecordJob, TakeJob, Drop,
                          Reconnect, Find, Send
<1> QED BY <1>1, <1>4

LEMMA NextPaired == Typed /\ MatchInv /\ PayInv /\ PairedInOrder /\ [Next]_vars => PairedInOrder'
<1> SUFFICES ASSUME Typed, MatchInv, PayInv, PairedInOrder, [Next]_vars PROVE PairedInOrder'
  OBVIOUS
<1>1. \A o \in Origins : inOrder'[o] => inOrder[o]
  <2> SUFFICES ASSUME NEW o \in Origins, inOrder'[o] PROVE inOrder[o]
    OBVIOUS
  <2>1. inOrder \in [Origins -> BOOLEAN]
    BY DEF Typed
  <2>2. CASE UNCHANGED inOrder
    BY <2>2
  <2>3. ASSUME NEW d \in Devices, RecordSubmit(d) \/ Send(d) PROVE inOrder[o]
    BY <2>1, <2>3 DEF RecordSubmit, Send
  <2>4. ASSUME NEW p \in Origins, Drop(p) PROVE inOrder[o]
    BY <2>1, <2>4 DEF Drop
  <2>5. CASE ~ UNCHANGED inOrder
    BY <2>3, <2>4, <2>5 DEF Next, vars, statsVars, historyVars, RecordJob, TakeJob,
                            RecordResult, Reconnect, Find
  <2> QED BY <2>2, <2>5
<1>2. ~moved' => ~moved
  BY DEF Next, vars, historyVars, RecordJob, TakeJob, RecordResult, Drop, Reconnect, Find,
         RecordSubmit, Send
<1>3. CASE UNCHANGED <<mispaired, banked, earned>>
  BY <1>1, <1>2, <1>3 DEF PairedInOrder, Origins
<1>4. ASSUME NEW o \in Origins, NEW v \in Verdicts, RecordResult(o, v) PROVE PairedInOrder'
  <2>1. UNCHANGED <<inOrder, moved>>
    BY <1>4 DEF RecordResult
  <2>2. inOrder[o] => /\ OldestOf(o) \in 1 .. Len(submits)
                      /\ OldestOf(o) # 0
                      /\ submits[OldestOf(o)].share = Head(wire[o])
    BY <1>4, AnswerTakesItsShare
  <2>3. \A p \in Origins : inOrder[p] => ~mispaired'[p]
    BY <2>2, <1>4 DEF RecordResult, Typed, PairedInOrder
  <2>4. inOrder["Main"] /\ ~moved => banked' = earned'
    <3>1. CASE o = "Main" /\ v = "accepted"
      <4> SUFFICES ASSUME inOrder["Main"], ~moved PROVE banked' = earned'
        OBVIOUS
      <4>1. Paid(OldestOf(o)) = Head(wire[o]).goal
        BY <2>2, <3>1 DEF PayInv, Paid
      <4> QED BY <4>1, <2>2, <3>1, <1>4 DEF RecordResult, PairedInOrder
    <3>2. CASE ~(o = "Main" /\ v = "accepted")
      BY <3>2, <1>4 DEF RecordResult, PairedInOrder
    <3> QED BY <3>1, <3>2
  <2> QED BY <2>1, <2>3, <2>4 DEF PairedInOrder
<1>5. CASE ~ UNCHANGED <<mispaired, banked, earned>>
  BY <1>4, <1>5 DEF Next, vars, statsVars, historyVars, RecordJob, TakeJob, Drop, Reconnect,
                    Find, RecordSubmit, Send
<1> QED BY <1>3, <1>5

\* While a pool's answers are in order each is charged to the share it is for, and the
\* user's bank is what the accepted shares were worth (record_submit and record_result,
\* stats.cpp, fed by submit_fn and on_share_result of main.cpp).
THEOREM AnswersFindTheirShares == Spec => []PairedInOrder
<1>1. PairInv /\ [Next]_vars => PairInv'
  BY NextTyped, NextFresh, NextMatch, NextPay, NextPaired DEF PairInv
<1>2. PairInv => PairedInOrder
  BY DEF PairInv
<1> QED BY <1>1, <1>2, InitPair, PTL DEF Spec

(***************************************************************************)
(* Sums over the cards.  SumFunction folds a finite set by the recursion    *)
(* AddsUp; that there is one function that satisfies it, and what it gives,  *)
(* follows from the least subset for which it would not.                    *)
(***************************************************************************)
Pick(s) == CHOOSE x \in s : TRUE

AddsUp(g, f, S) ==
  g = [s \in SUBSET S |-> IF s = {} THEN 0 ELSE f[Pick(s)] + g[s \ {Pick(s)}]]

LEMMA PickIsThere == \A s : s # {} => Pick(s) \in s
  BY DEF Pick

\* Some least member of a family of subsets of a finite set.
LEMMA LeastSubset ==
  ASSUME NEW S, IsFiniteSet(S), NEW F, F \subseteq SUBSET S, F # {}
  PROVE  \E T \in F : \A U \in F : ~(U \subseteq T /\ U # T)
<1>1. IsWellFoundedOn(StrictSubsetOrdering(S), SUBSET S)
  BY FS_StrictSubsetOrderingWellFounded, FS_FiniteSubsetsOfFinite
<1>2. \E T \in F : \A U \in F : ~(<<U, T>> \in StrictSubsetOrdering(S))
  BY <1>1, WFMin
<1>3. PICK T \in F : \A U \in F : ~(<<U, T>> \in StrictSubsetOrdering(S))
  BY <1>2
<1>4. ASSUME NEW U \in F, U \subseteq T, U # T PROVE FALSE
  <2>1. <<U, T>> \in StrictSubsetOrdering(S)
    BY <1>4 DEF StrictSubsetOrdering
  <2> QED BY <1>3, <2>1
<1> QED BY <1>4

LEMMA SumsAgree ==
  ASSUME NEW f, NEW T, NEW U, IsFiniteSet(T), NEW g, NEW h, AddsUp(g, f, T), AddsUp(h, f, U)
  PROVE  \A s \in SUBSET (T \cap U) : g[s] = h[s]
<1> DEFINE Bad == {s \in SUBSET (T \cap U) : g[s] # h[s]}
<1> SUFFICES ASSUME Bad # {} PROVE FALSE
  OBVIOUS
<1>1. PICK s \in Bad : \A r \in Bad : ~(r \subseteq s /\ r # s)
  <2>1. Bad \subseteq SUBSET T
    OBVIOUS
  <2> HIDE DEF Bad
  <2> QED BY <2>1, LeastSubset
<1>2. s \in SUBSET T /\ s \in SUBSET U /\ g[s] # h[s]
  OBVIOUS
<1>3. CASE s = {}
  <2>1. g[s] = 0 /\ h[s] = 0
    BY <1>2, <1>3 DEF AddsUp
  <2> QED BY <1>2, <2>1
<1>4. CASE s # {}
  <2> DEFINE r == s \ {Pick(s)}
  <2>1. r \in SUBSET (T \cap U) /\ r \subseteq s /\ r # s
    BY <1>2, <1>4, PickIsThere
  <2>2. g[r] = h[r]
    BY <1>1, <2>1
  <2>3. g[s] = f[Pick(s)] + g[r] /\ h[s] = f[Pick(s)] + h[r]
    BY <1>2, <1>4 DEF AddsUp
  <2> QED BY <1>2, <2>2, <2>3
<1> QED BY <1>3, <1>4

LEMMA SumsExist ==
  ASSUME NEW f, NEW S, IsFiniteSet(S)
  PROVE  \E g : AddsUp(g, f, S)
<1> DEFINE Bad == {T \in SUBSET S : ~\E g : AddsUp(g, f, T)}
<1> SUFFICES ASSUME Bad # {} PROVE FALSE
  OBVIOUS
<1>1. PICK T \in Bad : \A U \in Bad : ~(U \subseteq T /\ U # T)
  <2>1. Bad \subseteq SUBSET S
    OBVIOUS
  <2> HIDE DEF Bad
  <2> QED BY <2>1, LeastSubset
<1>2. T \subseteq S /\ ~\E g : AddsUp(g, f, T)
  OBVIOUS
<1>3. \A U \in SUBSET T : U # T => \E g : AddsUp(g, f, U)
  BY <1>1, <1>2
<1> HIDE DEF Bad
<1> DEFINE Of(s) == CHOOSE g : AddsUp(g, f, s)
           G == [s \in SUBSET T |-> IF s = {} THEN 0
                                    ELSE f[Pick(s)] + Of(s \ {Pick(s)})[s \ {Pick(s)}]]
<1>4. \A U \in SUBSET T : U # T => AddsUp(Of(U), f, U)
  BY <1>3
<1>5. ASSUME NEW r \in SUBSET T, r # T PROVE G[r] = Of(r)[r]
  <2>1. AddsUp(Of(r), f, r) /\ r \in SUBSET r
    BY <1>4, <1>5
  <2>2. CASE r = {}
    <3>1. Of(r)[r] = 0
      <4> HIDE DEF Of
      <4> QED BY <2>1, <2>2 DEF AddsUp
    <3>2. G[r] = 0
      BY <2>2
    <3> QED BY <3>1, <3>2
  <2>3. CASE r # {}
    <3> DEFINE q == r \ {Pick(r)}
    <3>1. q \in SUBSET T /\ q # T /\ q \in SUBSET r /\ q \in SUBSET (r \cap q)
      BY <1>5, <2>3, PickIsThere
    <3>2. Of(r)[r] = f[Pick(r)] + Of(r)[q]
      <4> HIDE DEF Of
      <4> QED BY <2>1, <2>3 DEF AddsUp
    <3>3. AddsUp(Of(q), f, q)
      BY <1>4, <3>1
    <3>4. Of(r)[q] = Of(q)[q]
      <4>1. IsFiniteSet(r)
        BY <1>2, FS_Subset
      <4> HIDE DEF Of, q
      <4> QED BY <2>1, <3>1, <3>3, <4>1, SumsAgree
    <3>5. G[r] = f[Pick(r)] + Of(q)[q]
      <4> HIDE DEF Of
      <4> QED BY <2>3
    <3> QED BY <3>2, <3>4, <3>5
  <2> QED BY <2>2, <2>3
<1>6. ASSUME NEW s \in SUBSET T
      PROVE  G[s] = IF s = {} THEN 0 ELSE f[Pick(s)] + G[s \ {Pick(s)}]
  <2>1. CASE s = {}
    BY <2>1
  <2>2. CASE s # {}
    <3> DEFINE r == s \ {Pick(s)}
    <3>1. r \in SUBSET T /\ r # T
      BY <1>6, <2>2, PickIsThere
    <3>2. G[r] = Of(r)[r]
      BY <1>5, <3>1
    <3>3. G[s] = f[Pick(s)] + Of(r)[r]
      <4> HIDE DEF Of
      <4> QED BY <2>2
    <3> QED BY <2>2, <3>2, <3>3
  <2> QED BY <2>1, <2>2
<1>7. AddsUp(G, f, T)
  <2>1. G = [s \in SUBSET T |-> G[s]]
    OBVIOUS
  <2> HIDE DEF G
  <2> QED BY <1>6, <2>1 DEF AddsUp
<1> QED BY <1>2, <1>7

LEMMA SumIs ==
  ASSUME NEW S, IsFiniteSet(S), NEW f, NEW g, AddsUp(g, f, S)
  PROVE  SumFunctionOnSet(f, S) = g[S]
<1>1. SumFunctionOnSet(f, S) = (CHOOSE h : AddsUp(h, f, S))[S]
  BY DEF SumFunctionOnSet, FoldFunctionOnSet, MapThenFoldSet, AddsUp, Pick
<1>2. PICK h : AddsUp(h, f, S) /\ h = CHOOSE e : AddsUp(e, f, S)
  OBVIOUS
<1>3. S \in SUBSET (S \cap S)
  OBVIOUS
<1>4. g[S] = h[S]
  BY <1>2, <1>3, SumsAgree
<1> QED BY <1>1, <1>2, <1>4

\* A sum over a set with one entry larger by one.
LEMMA SumGrows ==
  ASSUME NEW S, IsFiniteSet(S), NEW f \in [S -> Int], NEW d \in S,
         NEW e, e = [f EXCEPT ![d] = f[d] + 1]
  PROVE  SumFunctionOnSet(e, S) = SumFunctionOnSet(f, S) + 1
<1>1. PICK g : AddsUp(g, f, S)
  BY SumsExist
<1>2. PICK h : AddsUp(h, e, S)
  BY SumsExist
<1> DEFINE Fits(s) == g[s] \in Int /\ h[s] = g[s] + (IF d \in s THEN 1 ELSE 0)
           Bad == {s \in SUBSET S : ~Fits(s)}
<1>3. Bad = {}
  <2> SUFFICES ASSUME Bad # {} PROVE FALSE
    OBVIOUS
  <2>1. PICK s \in Bad : \A r \in Bad : ~(r \subseteq s /\ r # s)
    <3>1. Bad \subseteq SUBSET S
      OBVIOUS
    <3> HIDE DEF Bad
    <3> QED BY <3>1, LeastSubset
  <2>2. s \in SUBSET S /\ ~Fits(s)
    OBVIOUS
  <2>3. CASE s = {}
    <3>1. g[s] = 0 /\ h[s] = 0
      BY <1>1, <1>2, <2>2, <2>3 DEF AddsUp
    <3> QED BY <2>2, <2>3, <3>1
  <2>4. CASE s # {}
    <3>1. PICK x : x = Pick(s)
      OBVIOUS
    <3>2. PICK r : r = s \ {x}
      OBVIOUS
    <3>3. x \in s /\ x \in S /\ r \in SUBSET S /\ r \subseteq s /\ r # s
      BY <2>2, <2>4, <3>1, <3>2, PickIsThere
    <3>4. Fits(r)
      BY <2>1, <3>3
    <3>5. g[s] = f[x] + g[r] /\ h[s] = e[x] + h[r]
      BY <1>1, <1>2, <2>2, <2>4, <3>1, <3>2 DEF AddsUp
    <3>6. f[x] \in Int /\ e[x] = IF x = d THEN f[x] + 1 ELSE f[x]
      BY <3>3
    <3>7. d \in s <=> x = d \/ d \in r
      BY <3>2, <3>3
    <3>8. ~(x = d /\ d \in r)
      BY <3>2
    <3>9. Fits(s)
      BY <3>4, <3>5, <3>6, <3>7, <3>8
    <3> QED BY <2>2, <3>9
  <2> QED BY <2>3, <2>4
<1>4. Fits(S)
  BY <1>3
<1>5. SumFunctionOnSet(f, S) = g[S] /\ SumFunctionOnSet(e, S) = h[S]
  BY <1>1, <1>2, SumIs
<1> QED BY <1>4, <1>5

LEMMA SumOfNone ==
  ASSUME NEW S, IsFiniteSet(S), NEW f, \A x \in S : f[x] = 0
  PROVE  SumFunctionOnSet(f, S) = 0
<1>1. PICK g : AddsUp(g, f, S)
  BY SumsExist
<1> DEFINE Bad == {s \in SUBSET S : g[s] # 0}
<1>2. Bad = {}
  <2> SUFFICES ASSUME Bad # {} PROVE FALSE
    OBVIOUS
  <2>1. PICK s \in Bad : \A r \in Bad : ~(r \subseteq s /\ r # s)
    <3>1. Bad \subseteq SUBSET S
      OBVIOUS
    <3> HIDE DEF Bad
    <3> QED BY <3>1, LeastSubset
  <2>2. s \in SUBSET S /\ g[s] # 0
    OBVIOUS
  <2>3. s # {}
    BY <1>1, <2>2 DEF AddsUp
  <2>4. s \ {Pick(s)} \in SUBSET S /\ s \ {Pick(s)} # s /\ f[Pick(s)] = 0
    BY <2>2, <2>3, PickIsThere
  <2>5. g[s \ {Pick(s)}] = 0
    BY <2>1, <2>4
  <2>6. g[s] = f[Pick(s)] + g[s \ {Pick(s)}]
    BY <1>1, <2>2, <2>3 DEF AddsUp
  <2> QED BY <2>2, <2>4, <2>5, <2>6
<1>3. g[S] = 0
  BY <1>2
<1> QED BY <1>1, <1>3, SumIs


(***************************************************************************)
(* The cards' rows and the totals.  While nothing was forgotten, each pool  *)
(* has at least as many submits open as answers to come, those of its wire  *)
(* and of the shares noted and not yet written; so an answer finds one,     *)
(* though not always its own, and the card it is charged to is counted      *)
(* where the total is.                                                      *)
(***************************************************************************)
\* With p for pc and s for share, the cards whose share for o is noted and not written.
NotedOf(p, s, o) == {d \in Devices : p[d] = "noted" /\ s[d].origin = o}

CountInv ==
  ~evicted => \A o \in Origins :
    Cardinality(Open(submits, o)) >= Len(wire[o]) + Cardinality(NotedOf(pc, share, o))
TallyInv ==
  /\ rig \in [Verdicts -> Int]
  /\ ledger \in [Devices -> [Verdicts -> Int]]
LedgerInv == Typed /\ CountInv /\ TallyInv /\ LedgerCoversRig

LEMMA OpenIsFinite ==
  ASSUME NEW q, Len(q) \in Nat, NEW o
  PROVE  IsFiniteSet(Open(q, o)) /\ Cardinality(Open(q, o)) \in Nat
<1>1. IsFiniteSet(1 .. Len(q))
  BY FS_Interval, Len(q) \in Int, 1 \in Int
<1>2. Open(q, o) \in SUBSET (1 .. Len(q))
  BY DEF Open
<1>3. IsFiniteSet(Open(q, o))
  BY <1>1, <1>2, FS_Subset
<1> QED BY <1>3, FS_CardinalityType

LEMMA NotedIsFinite ==
  ASSUME NEW p, NEW s, NEW o
  PROVE  IsFiniteSet(NotedOf(p, s, o)) /\ Cardinality(NotedOf(p, s, o)) \in Nat
<1>1. IsFiniteSet(Devices)
  BY StatisticsAssumption DEF StatisticsAssumption
<1>2. NotedOf(p, s, o) \in SUBSET Devices
  BY DEF NotedOf
<1>3. IsFiniteSet(NotedOf(p, s, o))
  BY <1>1, <1>2, FS_Subset
<1> QED BY <1>3, FS_CardinalityType

\* Noting a submit opens one of its origin.
LEMMA OneMoreOpen ==
  ASSUME NEW q \in Seq(Entries), NEW e \in Entries, NEW o
  PROVE  Cardinality(Open(Append(q, e), o))
           = Cardinality(Open(q, o)) + (IF e.origin = o THEN 1 ELSE 0)
<1>1. PICK r : r = Append(q, e)
  OBVIOUS
<1>2. /\ Len(q) \in Nat /\ Len(r) = Len(q) + 1 /\ r[Len(q) + 1] = e
      /\ \A i \in 1 .. Len(q) : r[i] = q[i]
  BY <1>1, AppendProperties, LenProperties
<1>3. /\ \A i \in Open(r, o) : i \in Open(q, o) \/ (i = Len(q) + 1 /\ e.origin = o)
      /\ Open(q, o) \subseteq Open(r, o) /\ Len(q) + 1 \notin Open(q, o)
      /\ e.origin = o => Len(q) + 1 \in Open(r, o)
  BY <1>2 DEF Open
<1>4. IsFiniteSet(Open(q, o)) /\ Cardinality(Open(q, o)) \in Nat
  BY <1>2, OpenIsFinite
<1>5. CASE e.origin = o
  <2>1. Open(r, o) = Open(q, o) \cup {Len(q) + 1}
    BY <1>3, <1>5
  <2>2. Cardinality(Open(r, o)) = Cardinality(Open(q, o)) + 1
    BY <1>3, <1>4, <2>1, FS_AddElement
  <2> QED BY <1>1, <1>5, <2>2
<1>6. CASE e.origin # o
  <2>1. Open(r, o) = Open(q, o)
    BY <1>3, <1>6
  <2> QED BY <1>1, <1>4, <1>6, <2>1
<1> QED BY <1>5, <1>6

\* Taking one out closes one of its origin.
LEMMA OneLessOpen ==
  ASSUME NEW q, NEW r, NEW o, Len(q) \in Nat, NEW k \in 1 .. Len(q), Without(q, k, r)
  PROVE  Cardinality(Open(r, o))
           = Cardinality(Open(q, o)) - (IF q[k].origin = o THEN 1 ELSE 0)
<1> DEFINE At(j) == IF j < k THEN j ELSE j + 1
           f == [j \in Open(r, o) |-> At(j)]
           T == Open(q, o) \ {k}
<1>1. /\ \A j \in Open(r, o) : At(j) \in T
      /\ \A j \in T : (IF j < k THEN j ELSE j - 1) \in Open(r, o)
                      /\ At(IF j < k THEN j ELSE j - 1) = j
      /\ \A i, j \in Open(r, o) : At(i) = At(j) => i = j
  <2>1. Len(r) \in Nat /\ Len(q) = Len(r) + 1 /\ k \in 1 .. Len(q)
    BY DEF Without
  <2>2. \A j \in 1 .. Len(r) : r[j] = q[At(j)]
    BY DEF Without
  <2>3. \A j \in Open(r, o) : At(j) \in T
    BY <2>1, <2>2 DEF Open
  <2>4. ASSUME NEW j \in T
        PROVE  /\ (IF j < k THEN j ELSE j - 1) \in Open(r, o)
               /\ At(IF j < k THEN j ELSE j - 1) = j
    <3>1. CASE j < k
      BY <2>1, <2>2, <2>4, <3>1 DEF Open
    <3>2. CASE ~(j < k)
      BY <2>1, <2>2, <2>4, <3>2 DEF Open
    <3> QED BY <3>1, <3>2
  <2>5. \A i, j \in Open(r, o) : At(i) = At(j) => i = j
    BY <2>1 DEF Open
  <2> QED BY <2>3, <2>4, <2>5
<1> HIDE DEF At
<1> HIDE DEF T
<1>2. f \in [Open(r, o) -> T] /\ \A j \in Open(r, o) : f[j] = At(j)
  BY <1>1
<1> HIDE DEF f
<1>3. f \in Bijection(Open(r, o), T)
  <2>1. \A i, j \in Open(r, o) : f[i] = f[j] => i = j
    BY <1>1, <1>2
  <2>2. \A t \in T : \E j \in Open(r, o) : f[j] = t
    BY <1>1, <1>2
  <2> QED BY <1>2, <2>1, <2>2, Fun_IsBij
<1>4. ExistsBijection(Open(r, o), T)
  BY <1>3 DEF ExistsBijection
<1>5. Len(r) \in Nat
  BY DEF Without
<1>6. IsFiniteSet(Open(r, o)) /\ Cardinality(Open(r, o)) = Cardinality(T)
  BY <1>4, <1>5, OpenIsFinite, FS_Bijection
<1>7. /\ IsFiniteSet(Open(q, o)) /\ Cardinality(Open(q, o)) \in Nat
      /\ k \in Open(q, o) <=> q[k].origin = o
  BY OpenIsFinite DEF Open
<1>8. Cardinality(T) = IF k \in Open(q, o) THEN Cardinality(Open(q, o)) - 1 ELSE Cardinality(Open(q, o))
  BY <1>7, FS_RemoveElement DEF T
<1> QED BY <1>6, <1>7, <1>8


\* The three amounts of CountInv are numbers.
LEMMA AmountsOf ==
  ASSUME Typed, NEW o \in Origins
  PROVE  /\ Cardinality(Open(submits, o)) \in Nat
         /\ wire[o] \in Seq(Shares) /\ Len(wire[o]) \in Nat
         /\ Cardinality(NotedOf(pc, share, o)) \in Nat
<1>1. submits \in Seq(Entries) /\ wire[o] \in Seq(Shares)
  BY DEF Typed
<1>2. Len(submits) \in Nat /\ Len(wire[o]) \in Nat
  BY <1>1, LenProperties
<1> QED BY <1>1, <1>2, OpenIsFinite, NotedIsFinite

\* A step that opens and closes nothing and expects no more answers.
LEMMA CountUntouched ==
  ASSUME CountInv, Typed, Typed', evicted' = evicted, submits' = submits,
         \A o \in Origins : /\ NotedOf(pc', share', o) = NotedOf(pc, share, o)
                            /\ Len(wire'[o]) <= Len(wire[o])
  PROVE  CountInv'
<1> SUFFICES ASSUME ~evicted, NEW o \in Origins
             PROVE  Cardinality(Open(submits, o))
                      >= Len(wire'[o]) + Cardinality(NotedOf(pc', share', o))
  BY DEF CountInv
<1>1. Cardinality(Open(submits, o)) >= Len(wire[o]) + Cardinality(NotedOf(pc, share, o))
  BY DEF CountInv
<1>2. wire'[o] \in Seq(Shares)
  BY DEF Typed
<1>3. Len(wire'[o]) \in Nat
  BY <1>2, LenProperties
<1> QED BY <1>1, <1>3, AmountsOf

LEMMA CountFind ==
  ASSUME CountInv, Typed, Typed', NEW d \in Devices, Find(d)
  PROVE  CountInv'
<1>1. /\ pc[d] = "mine" /\ pc' = [pc EXCEPT ![d] = "found"]
      /\ \E s : share' = [share EXCEPT ![d] = s]
      /\ UNCHANGED <<evicted, submits, wire>>
  BY DEF Find, statsVars, wireVars
<1>2. \A e \in Devices : /\ pc[e] = "noted" <=> pc'[e] = "noted"
                         /\ pc[e] = "noted" => share'[e] = share[e]
  BY <1>1 DEF Typed
<1>3. \A o \in Origins : NotedOf(pc', share', o) = NotedOf(pc, share, o)
  BY <1>2 DEF NotedOf
<1>4. \A o \in Origins : Len(wire'[o]) <= Len(wire[o])
  BY <1>1, AmountsOf
<1> QED BY <1>1, <1>3, <1>4, CountUntouched

LEMMA CountSubmit ==
  ASSUME CountInv, Typed, Typed', NEW d \in Devices, RecordSubmit(d)
  PROVE  CountInv'
<1> SUFFICES ASSUME ~evicted', NEW o \in Origins
             PROVE  Cardinality(Open(submits', o))
                      >= Len(wire'[o]) + Cardinality(NotedOf(pc', share', o))
  BY DEF CountInv
<1>1. PICK s : s = share[d]
  OBVIOUS
<1>2. PICK e : e = Entry(d)
  OBVIOUS
<1>3. /\ pc[d] = "found" /\ pc' = [pc EXCEPT ![d] = "noted"]
      /\ UNCHANGED <<share, wire>>
  BY DEF RecordSubmit, wireVars
<1>4. ~evicted /\ Len(submits) # Cap
  BY Zenon DEF RecordSubmit
<1>5. submits \in Seq(Entries) /\ Len(submits) <= Cap
  BY DEF Typed
<1>6. e \in Entries
  BY <1>2, <1>3, EntryIsTyped
<1>7. e.origin = s.origin
  BY <1>1, <1>2 DEF Entry
<1>8. submits' = Append(submits, e)
  <2>1. submits' = Newest(Append(submits, e))
    BY <1>2, SubmitIsEntry
  <2>2. Len(submits) \in Nat /\ Len(Append(submits, e)) = Len(submits) + 1
    BY <1>5, <1>6, AppendProperties, LenProperties
  <2>3. ~(Len(Append(submits, e)) > Cap)
    BY <1>4, <1>5, <2>2, StatisticsAssumption DEF StatisticsAssumption
  <2> QED BY <2>1, <2>3 DEF Newest
<1>9. Cardinality(Open(submits', o))
        = Cardinality(Open(submits, o)) + (IF s.origin = o THEN 1 ELSE 0)
  BY <1>5, <1>6, <1>7, <1>8, OneMoreOpen
<1>10. Cardinality(NotedOf(pc', share', o))
         = Cardinality(NotedOf(pc, share, o)) + (IF s.origin = o THEN 1 ELSE 0)
  <2>1. d \notin NotedOf(pc, share, o)
    BY <1>3 DEF NotedOf
  <2>2. IsFiniteSet(NotedOf(pc, share, o))
    BY NotedIsFinite
  <2>3. \A c \in Devices : pc'[c] = "noted" <=> pc[c] = "noted" \/ c = d
    BY <1>3 DEF Typed
  <2>4. CASE s.origin = o
    <3>1. NotedOf(pc', share', o) = NotedOf(pc, share, o) \cup {d}
      BY <1>1, <1>3, <2>3, <2>4 DEF NotedOf
    <3> QED BY <2>1, <2>2, <2>4, <3>1, FS_AddElement
  <2>5. CASE s.origin # o
    <3>1. NotedOf(pc', share', o) = NotedOf(pc, share, o)
      BY <1>1, <1>3, <2>3, <2>5 DEF NotedOf
    <3> QED BY <2>5, <3>1, AmountsOf
  <2> QED BY <2>4, <2>5
<1>11. Cardinality(Open(submits, o)) >= Len(wire[o]) + Cardinality(NotedOf(pc, share, o))
  BY <1>4 DEF CountInv
<1>12. wire'[o] = wire[o]
  BY <1>3
<1> QED BY <1>9, <1>10, <1>11, <1>12, AmountsOf

LEMMA CountSend ==
  ASSUME CountInv, Typed, Typed', NEW d \in Devices, Send(d)
  PROVE  CountInv'
<1> SUFFICES ASSUME ~evicted', NEW o \in Origins
             PROVE  Cardinality(Open(submits', o))
                      >= Len(wire'[o]) + Cardinality(NotedOf(pc', share', o))
  BY DEF CountInv
<1>1. PICK s : s = share[d]
  OBVIOUS
<1>2. /\ pc[d] = "noted" /\ pc' = [pc EXCEPT ![d] = "mine"]
      /\ share' = [share EXCEPT ![d] = NoShare]
      /\ wire' = IF open[s.origin] THEN [wire EXCEPT ![s.origin] = Append(wire[s.origin], s)] ELSE wire
      /\ UNCHANGED <<submits, evicted>>
  BY <1>1 DEF Send, statsVars
<1>3. s \in Shares /\ s.origin \in Origins
  BY <1>1, <1>2 DEF Typed, Shares
<1>4. /\ \A c \in Devices : pc'[c] = "noted" <=> pc[c] = "noted" /\ c # d
      /\ \A c \in Devices : c # d => share'[c] = share[c]
  BY <1>2 DEF Typed
<1>5. Cardinality(Open(submits, o)) >= Len(wire[o]) + Cardinality(NotedOf(pc, share, o))
  BY <1>2 DEF CountInv
<1>6. CASE s.origin = o
  <2>1. NotedOf(pc', share', o) = NotedOf(pc, share, o) \ {d} /\ d \in NotedOf(pc, share, o)
    BY <1>1, <1>2, <1>4, <1>6 DEF NotedOf
  <2>2. Cardinality(NotedOf(pc', share', o)) = Cardinality(NotedOf(pc, share, o)) - 1
    BY <2>1, NotedIsFinite, FS_RemoveElement
  <2>3. wire[o] \in Seq(Shares) /\ (wire'[o] = Append(wire[o], s) \/ wire'[o] = wire[o])
    BY <1>2, <1>6 DEF Typed
  <2>4. Len(Append(wire[o], s)) = Len(wire[o]) + 1
    BY <1>3, <2>3, AppendProperties
  <2>5. Len(wire'[o]) <= Len(wire[o]) + 1 /\ Len(wire'[o]) \in Nat
    BY <2>3, <2>4, AmountsOf
  <2>6. submits' = submits
    BY <1>2
  <2> QED BY <1>5, <2>2, <2>5, <2>6, AmountsOf
<1>7. CASE s.origin # o
  <2>1. NotedOf(pc', share', o) = NotedOf(pc, share, o)
    BY <1>1, <1>2, <1>4, <1>7 DEF NotedOf
  <2>2. wire'[o] = wire[o]
    BY <1>2, <1>3, <1>7 DEF Typed
  <2>3. submits' = submits
    BY <1>2
  <2> QED BY <1>5, <2>1, <2>2, <2>3
<1> QED BY <1>6, <1>7

\* An answer, while nothing was forgotten, finds a submit of its origin, and that of a card.
LEMMA AnswerFindsOne ==
  ASSUME CountInv, Typed, ~evicted, NEW o \in Origins, wire[o] # << >>
  PROVE  /\ OldestOf(o) \in 1 .. Len(submits) /\ OldestOf(o) # 0
         /\ submits[OldestOf(o)].origin = o
         /\ submits[OldestOf(o)].device \in Devices
<1>1. Cardinality(Open(submits, o)) >= Len(wire[o]) + Cardinality(NotedOf(pc, share, o))
  BY DEF CountInv
<1>2. Len(wire[o]) # 0
  BY AmountsOf, EmptySeq
<1>3. Cardinality(Open(submits, o)) # 0
  BY <1>1, <1>2, AmountsOf
<1>4. Open(submits, o) # {}
  BY <1>3, FS_EmptySet
<1>5. submits \in Seq(Entries)
  BY DEF Typed
<1>6. OldestOf(o) \in Open(submits, o)
  BY <1>4, <1>5, OldestIsLeast
<1>7. OldestOf(o) \in 1 .. Len(submits) /\ submits[OldestOf(o)].origin = o
  BY <1>6 DEF Open
<1>8. submits[OldestOf(o)] \in Entries
  BY <1>5, <1>7, ElementOfSeq
<1>9. submits[OldestOf(o)].device \in Devices
  BY <1>8 DEF Entries
<1> QED BY <1>7, <1>9

LEMMA CountResult ==
  ASSUME CountInv, Typed, Typed', NEW p \in Origins, NEW v \in Verdicts, RecordResult(p, v)
  PROVE  CountInv'
<1> SUFFICES ASSUME ~evicted', NEW o \in Origins
             PROVE  Cardinality(Open(submits', o))
                      >= Len(wire'[o]) + Cardinality(NotedOf(pc', share', o))
  BY DEF CountInv
<1>1. PICK k : k = OldestOf(p)
  OBVIOUS
<1>2. /\ wire[p] # << >> /\ wire' = [wire EXCEPT ![p] = Tail(wire[p])]
      /\ submits' = IF k = 0 THEN submits ELSE RemoveAt(submits, k)
      /\ UNCHANGED <<pc, share, evicted>>
  BY <1>1 DEF RecordResult, engineVars
<1>3. k \in 1 .. Len(submits) /\ k # 0 /\ submits[k].origin = p
  BY <1>1, <1>2, AnswerFindsOne
<1>4. submits \in Seq(Entries) /\ Len(submits) \in Nat
  <2>1. submits \in Seq(Entries)
    BY DEF Typed
  <2> QED BY <2>1, LenProperties
<1>5. Without(submits, k, submits')
  BY <1>2, <1>3, <1>4, RemoveAtIsWithout
<1>6. Cardinality(Open(submits', o))
        = Cardinality(Open(submits, o)) - (IF p = o THEN 1 ELSE 0)
  BY <1>3, <1>4, <1>5, OneLessOpen
<1>7. Len(wire'[o]) = Len(wire[o]) - (IF p = o THEN 1 ELSE 0)
  <2>1. CASE p = o
    <3>1. wire'[o] = Tail(wire[o]) /\ wire[o] # << >> /\ wire[o] \in Seq(Shares)
      BY <1>2, <2>1 DEF Typed
    <3>2. Len(Tail(wire[o])) = Len(wire[o]) - 1
      BY <3>1, HeadTailProperties
    <3> QED BY <2>1, <3>1, <3>2
  <2>2. CASE p # o
    <3>1. wire'[o] = wire[o]
      BY <1>2, <2>2 DEF Typed
    <3> QED BY <2>2, <3>1, AmountsOf
  <2> QED BY <2>1, <2>2
<1>8. Cardinality(Open(submits, o)) >= Len(wire[o]) + Cardinality(NotedOf(pc, share, o))
  BY <1>2 DEF CountInv
<1>9. NotedOf(pc', share', o) = NotedOf(pc, share, o)
  BY <1>2
<1>10. /\ Cardinality(Open(submits, o)) \in Nat /\ Len(wire[o]) \in Nat
       /\ Cardinality(NotedOf(pc, share, o)) \in Nat
  BY AmountsOf
<1>11. CASE p = o
  BY <1>6, <1>7, <1>8, <1>9, <1>10, <1>11
<1>12. CASE p # o
  BY <1>6, <1>7, <1>8, <1>9, <1>10, <1>12
<1> QED BY <1>11, <1>12

LEMMA CountDrop ==
  ASSUME CountInv, Typed, Typed', NEW p \in Origins, Drop(p)
  PROVE  CountInv'
<1>1. wire' = [wire EXCEPT ![p] = << >>] /\ UNCHANGED <<pc, share, submits, evicted>>
  BY DEF Drop, engineVars, statsVars
<1>2. ASSUME NEW o \in Origins PROVE Len(wire'[o]) <= Len(wire[o])
  <2>1. wire'[o] = << >> \/ wire'[o] = wire[o]
    BY <1>1 DEF Typed
  <2>2. Len(<< >>) = 0
    OBVIOUS
  <2> QED BY <2>1, <2>2, AmountsOf
<1>3. \A o \in Origins : NotedOf(pc', share', o) = NotedOf(pc, share, o)
  BY <1>1
<1> QED BY <1>1, <1>2, <1>3, CountUntouched

LEMMA NextCount == Typed /\ CountInv /\ [Next]_vars => CountInv'
<1> SUFFICES ASSUME Typed, CountInv, [Next]_vars PROVE CountInv'
  OBVIOUS
<1>0. Typed'
  BY NextTyped
<1>1. CASE UNCHANGED <<pc, share, submits, evicted, wire>>
  <2>1. \A o \in Origins : /\ NotedOf(pc', share', o) = NotedOf(pc, share, o)
                           /\ Len(wire'[o]) <= Len(wire[o])
    BY <1>1, AmountsOf
  <2> QED BY <1>0, <1>1, <2>1, CountUntouched
<1>2. ASSUME NEW o \in Origins,
             (\E units \in TargetsOf(o) : RecordJob(o, units)) \/ (\E d \in Devices : TakeJob(d, o))
             \/ Reconnect(o)
      PROVE  CountInv'
  <2>1. UNCHANGED <<pc, share, submits, evicted, wire>>
    BY <1>2 DEF RecordJob, TakeJob, Reconnect, statsVars, engineVars, wireVars, historyVars
  <2> QED BY <1>1, <2>1
<1>3. CASE UNCHANGED vars
  BY <1>1, <1>3 DEF vars, statsVars, engineVars, wireVars, historyVars
<1> QED BY <1>0, <1>2, <1>3, CountFind, CountSubmit, CountSend, CountResult, CountDrop DEF Next

LEMMA SumIsOver ==
  ASSUME NEW f, NEW S, DOMAIN f = S
  PROVE  SumFunction(f) = SumFunctionOnSet(f, S)
  BY DEF SumFunction

\* What an answer adds to the card it is charged to, it adds to the rig.
LEMMA TallyResult ==
  ASSUME LedgerInv, NEW o \in Origins, NEW v \in Verdicts, RecordResult(o, v)
  PROVE  TallyInv' /\ LedgerCoversRig'
<1>1. PICK k : k = OldestOf(o)
  OBVIOUS
<1>2. /\ wire[o] # << >> /\ UNCHANGED evicted
      /\ rig' = IF o = "Main" THEN [rig EXCEPT ![v] = rig[v] + 1] ELSE rig
      /\ ledger' = IF k # 0 /\ o = "Main" THEN Credit(submits[k].device, v) ELSE ledger
  BY <1>1 DEF RecordResult
<1>3. TallyInv /\ LedgerCoversRig /\ Typed /\ CountInv
  BY DEF LedgerInv
<1>4. CASE o # "Main"
  BY <1>2, <1>3, <1>4 DEF TallyInv, LedgerCoversRig
<1>5. ASSUME o = "Main" PROVE TallyInv'
  <2>1. rig' \in [Verdicts -> Int]
    BY <1>2, <1>3, <1>5 DEF TallyInv
  <2>2. \A d \in Devices : Credit(d, v) \in [Devices -> [Verdicts -> Int]]
    BY <1>3 DEF TallyInv, Credit
  <2>3. k # 0 => submits[k].device \in Devices
    <3>1. submits \in Seq(Entries)
      BY <1>3 DEF Typed
    <3>2. k # 0 => k \in 1 .. Len(submits)
      BY <1>1, <3>1, OldestIsLeast DEF Open
    <3>3. k # 0 => submits[k] \in Entries
      BY <3>1, <3>2, ElementOfSeq
    <3> QED BY <3>3 DEF Entries
  <2>4. ledger' \in [Devices -> [Verdicts -> Int]]
    BY <1>2, <1>3, <2>2, <2>3 DEF TallyInv
  <2> QED BY <2>1, <2>4 DEF TallyInv
<1>6. ASSUME o = "Main" PROVE LedgerCoversRig'
  <2> SUFFICES ASSUME ~evicted, NEW u \in Verdicts
               PROVE  SumFunction([d \in Devices |-> ledger'[d][u]]) = rig'[u]
    BY <1>2 DEF LedgerCoversRig
  <2>1. PICK c \in Devices : ledger' = Credit(c, v)
    BY <1>1, <1>2, <1>3, <1>6, AnswerFindsOne
  <2>2. ledger' = [ledger EXCEPT ![c][v] = ledger[c][v] + 1]
    BY <2>1 DEF Credit
  <2>3. \A d \in Devices : /\ ledger[d] \in [Verdicts -> Int]
                           /\ ledger'[d][u] = IF d = c /\ u = v THEN ledger[d][u] + 1 ELSE ledger[d][u]
    BY <1>3, <2>2 DEF TallyInv
  <2>4. PICK f : f = [d \in Devices |-> ledger[d][u]]
    OBVIOUS
  <2>5. PICK e : e = [d \in Devices |-> ledger'[d][u]]
    OBVIOUS
  <2>6. f \in [Devices -> Int] /\ e = [f EXCEPT ![c] = IF u = v THEN f[c] + 1 ELSE f[c]]
    BY <2>3, <2>4, <2>5
  <2>7. DOMAIN f = Devices /\ DOMAIN e = Devices /\ IsFiniteSet(Devices)
    BY <2>4, <2>5, StatisticsAssumption DEF StatisticsAssumption
  <2>8. SumFunctionOnSet(f, Devices) = rig[u] /\ rig[u] \in Int
    <3>1. SumFunction(f) = rig[u]
      BY <1>3, <2>4 DEF LedgerCoversRig
    <3>2. SumFunction(f) = SumFunctionOnSet(f, Devices)
      BY <2>7, SumIsOver
    <3> QED BY <1>3, <3>1, <3>2 DEF TallyInv
  <2>9. CASE u = v
    <3>1. e = [f EXCEPT ![c] = f[c] + 1]
      BY <2>6, <2>9
    <3>2. SumFunctionOnSet(e, Devices) = SumFunctionOnSet(f, Devices) + 1
      <4>1. IsFiniteSet(Devices) /\ f \in [Devices -> Int] /\ c \in Devices
        BY <2>1, <2>6, <2>7
      <4> QED BY <3>1, <4>1, SumGrows, Zenon
    <3>3. rig'[u] = rig[u] + 1
      BY <1>2, <1>3, <1>6, <2>9 DEF TallyInv
    <3>4. SumFunction(e) = SumFunctionOnSet(e, Devices)
      BY <2>7, SumIsOver
    <3> QED BY <2>5, <2>8, <3>2, <3>3, <3>4
  <2>10. CASE u # v
    <3>1. e = f
      BY <2>6, <2>10
    <3>2. rig'[u] = rig[u]
      BY <1>2, <1>3, <1>6, <2>10 DEF TallyInv
    <3>3. SumFunction(e) = SumFunctionOnSet(e, Devices)
      BY <2>7, SumIsOver
    <3> QED BY <2>5, <2>8, <3>1, <3>2, <3>3
  <2> QED BY <2>9, <2>10
<1> QED BY <1>4, <1>5, <1>6

LEMMA NextLedger == LedgerInv /\ [Next]_vars => LedgerInv'
<1> SUFFICES ASSUME LedgerInv, [Next]_vars PROVE LedgerInv'
  OBVIOUS
<1>1. Typed' /\ CountInv'
  BY NextTyped, NextCount DEF LedgerInv
<1>2. ASSUME UNCHANGED <<ledger, rig>>, evicted => evicted' PROVE TallyInv' /\ LedgerCoversRig'
  BY <1>2 DEF LedgerInv, TallyInv, LedgerCoversRig
<1>3. ASSUME NEW o \in Origins, NEW v \in Verdicts, RecordResult(o, v)
      PROVE  TallyInv' /\ LedgerCoversRig'
  BY <1>3, TallyResult
<1>4. ASSUME NEW o \in Origins,
             (\E units \in TargetsOf(o) : RecordJob(o, units)) \/ (\E d \in Devices : TakeJob(d, o))
             \/ Drop(o) \/ Reconnect(o)
      PROVE  TallyInv' /\ LedgerCoversRig'
  <2>1. UNCHANGED <<ledger, rig, evicted>>
    BY <1>4 DEF RecordJob, TakeJob, Drop, Reconnect, statsVars, historyVars
  <2> QED BY <1>2, <2>1
<1>5. ASSUME NEW d \in Devices, Find(d) \/ RecordSubmit(d) \/ Send(d)
      PROVE  TallyInv' /\ LedgerCoversRig'
  <2>1. UNCHANGED <<ledger, rig>>
    BY <1>5 DEF Find, RecordSubmit, Send, statsVars
  <2>2. evicted => evicted'
    BY <1>5, Zenon DEF Find, RecordSubmit, Send
  <2> QED BY <1>2, <2>1, <2>2
<1>6. ASSUME UNCHANGED vars PROVE TallyInv' /\ LedgerCoversRig'
  <2>1. UNCHANGED <<ledger, rig>> /\ (evicted => evicted')
    BY <1>6, Zenon DEF vars, statsVars, historyVars
  <2> QED BY <1>2, <2>1
<1>7. TallyInv' /\ LedgerCoversRig'
  BY <1>3, <1>4, <1>5, <1>6, Zenon DEF Next
<1> QED BY <1>1, <1>7 DEF LedgerInv

LEMMA InitLedger == Init => LedgerInv
<1> SUFFICES ASSUME Init PROVE LedgerInv
  OBVIOUS
<1>1. Typed
  BY InitPair DEF PairInv
<1>2. TallyInv
  BY DEF Init, TallyInv, None
<1>3. ASSUME NEW o \in Origins
      PROVE  Cardinality(Open(submits, o)) >= Len(wire[o]) + Cardinality(NotedOf(pc, share, o))
  <2>1. Len(wire[o]) = 0
    BY DEF Init
  <2>2. NotedOf(pc, share, o) = {}
    BY DEF Init, NotedOf
  <2> QED BY <1>1, <2>1, <2>2, AmountsOf, FS_EmptySet
<1>4. ASSUME NEW v \in Verdicts PROVE SumFunction([d \in Devices |-> ledger[d][v]]) = rig[v]
  <2>1. PICK f : f = [d \in Devices |-> ledger[d][v]]
    OBVIOUS
  <2>2. DOMAIN f = Devices /\ rig[v] = 0 /\ \A d \in Devices : f[d] = 0
    BY <2>1 DEF Init, None
  <2>3. SumFunctionOnSet(f, Devices) = 0
    BY <2>2, SumOfNone, StatisticsAssumption DEF StatisticsAssumption
  <2> QED BY <2>1, <2>2, <2>3, SumIsOver
<1> QED BY <1>1, <1>2, <1>3, <1>4 DEF LedgerInv, CountInv, LedgerCoversRig

(* LedgerCoversRig: the cards' rows add up to the rig's totals unless the list  *)
(* of open submits was once full (record_submit, record_result).                *)
THEOREM RowsAddUpToTotals == Spec => []LedgerCoversRig
<1>1. LedgerInv => LedgerCoversRig
  BY DEF LedgerInv
<1> QED BY <1>1, InitLedger, NextLedger, PTL DEF Spec

-----------------------------------------------------------------------------
(* Supervision, for any number of cards, any temperatures and any interval, *)
(* as long as Stall exceeds what SupervisionAssumption says: the watchdog   *)
(* reports no card that is well.                                            *)
(*                                                                          *)
(* The argument is a budget.  A card without an excuse gets on with its     *)
(* work in bounded time, and what the invariant bounds is the time since    *)
(* its clock was last set together with the time its present step has left. *)

LEMMA Amounts ==
  /\ Interval \in Nat /\ Late \in Nat /\ PollTime \in Nat /\ Stall \in Nat
  /\ SolveTime \in Nat \ {0} /\ MaxTemp \in Nat \ {0} /\ D \in Nat \ {0}
  /\ Oldest \in Nat /\ PollTime <= Oldest
  /\ 1 \in Cards /\ Cards \subseteq Int
BY SupervisionAssumption DEF SupervisionAssumption, Cards, Oldest

LEMMA NextType == WatchTypeOK /\ [WatchNext]_watchVars => WatchTypeOK'
<1> SUFFICES ASSUME WatchTypeOK, [WatchNext]_watchVars PROVE WatchTypeOK'
  OBVIOUS
<1> USE Amounts
<1>1. CASE UNCHANGED watchVars
  BY <1>1 DEF WatchTypeOK, watchVars, workerVars, holdVars, pollVars, stateVars
<1>2. ASSUME NEW kind \in {"usable", "unusable"}, PoolSends(kind) PROVE WatchTypeOK'
  <2>1. job' \in {"none", "usable", "unusable"} /\ explained' \in [Cards -> BOOLEAN]
    BY <1>2 DEF WatchTypeOK, PoolSends
  <2>2. UNCHANGED <<eng, age, ahead, holdVars, action, pollVars, stateVars, exited>>
    BY <1>2 DEF PoolSends
  <2> QED BY <2>1, <2>2 DEF WatchTypeOK, holdVars, pollVars, stateVars
<1>3. ASSUME NEW d \in Cards, Resumes(d) \/ Completes(d) \/ Retries(d) PROVE WatchTypeOK'
  <2>1. /\ eng' \in [Cards -> {"idle", "solve", "held", "stuck"}]
        /\ age' \in [Cards -> 0 .. SolveTime]
    BY <1>3 DEF WatchTypeOK, Resumes, Completes, Retries, Turns, Does
  <2>2. ahead' \in [Cards -> BOOLEAN]
    BY <1>3 DEF WatchTypeOK, Resumes, Completes, Retries
  <2>3. UNCHANGED <<job, holdVars, action, pollVars, stateVars, exited, explained>>
    BY <1>3 DEF Resumes, Completes, Retries
  <2> QED BY <2>1, <2>2, <2>3 DEF WatchTypeOK, holdVars, pollVars, stateVars
<1>4. ASSUME NEW d \in Cards, GetsStuck(d) PROVE WatchTypeOK'
  <2>1. /\ eng' \in [Cards -> {"idle", "solve", "held", "stuck"}]
        /\ age' \in [Cards -> 0 .. SolveTime]
        /\ explained' \in [Cards -> BOOLEAN]
    BY <1>4 DEF WatchTypeOK, GetsStuck, Does
  <2>2. UNCHANGED <<job, ahead, holdVars, action, pollVars, stateVars, exited>>
    BY <1>4 DEF GetsStuck
  <2> QED BY <2>1, <2>2 DEF WatchTypeOK, holdVars, pollVars, stateVars
<1>12. ASSUME NEW d \in Cards, Weather(d) PROVE WatchTypeOK'
  <2>1. temp' \in [Cards -> 0 .. MaxTemp]
    BY <1>12 DEF WatchTypeOK, Weather
  <2>2. UNCHANGED <<workerVars, ahead, paused, userPaused, tat, action, pollVars, stateVars,
                    exited, explained>>
    BY <1>12 DEF Weather
  <2> QED BY <2>1, <2>2 DEF WatchTypeOK, workerVars, pollVars, stateVars
<1>5. CASE PressKey \/ ThermalCheck
  <2>1. paused' \in [Cards -> BOOLEAN]
    BY <1>5 DEF WatchTypeOK, PressKey, ThermalCheck, TooHot, CoolAgain
  <2>4. userPaused' \in BOOLEAN
    BY <1>5 DEF WatchTypeOK, PressKey, ThermalCheck
  <2>5. tat' \in Cards
    <3>1. tat \in 1 .. D
      BY DEF WatchTypeOK, Cards
    <3>2. tat' = tat \/ tat' = (IF tat = D THEN 1 ELSE tat + 1)
      BY <1>5 DEF PressKey, ThermalCheck
    <3> QED BY <3>1, <3>2 DEF Cards
  <2>2. explained' \in [Cards -> BOOLEAN]
    BY <1>5 DEF WatchTypeOK, PressKey, ThermalCheck, Flickers, Paused
  <2>3. UNCHANGED <<workerVars, ahead, temp, action, pollVars, stateVars, exited>>
    BY <1>5 DEF PressKey, ThermalCheck
  <2> QED BY <2>1, <2>2, <2>3, <2>4, <2>5 DEF WatchTypeOK, workerVars, pollVars, stateVars
<1>6. CASE SampleCounts \/ ReadNow \/ AskMining
  <2>1. sampled' \in [Cards -> BOOLEAN] /\ ahead' \in [Cards -> BOOLEAN]
    BY <1>6 DEF WatchTypeOK, SampleCounts, ReadNow, AskMining
  <2>2. lag' \in 0 .. PollTime /\ at' \in Cards
    BY <1>6 DEF WatchTypeOK, SampleCounts, ReadNow, AskMining
  <2>3. active' \in BOOLEAN /\ phase' \in {"sleep", "now", "mining", "check", "script"}
    BY <1>6 DEF WatchTypeOK, SampleCounts, ReadNow, AskMining, MiningExpected
  <2>4. UNCHANGED <<workerVars, holdVars, action, wake, stateVars, exited, explained>>
    BY <1>6 DEF SampleCounts, ReadNow, AskMining
  <2> QED BY <2>1, <2>2, <2>3, <2>4 DEF WatchTypeOK, workerVars, holdVars, stateVars
<1>7. NextDevice /\ UNCHANGED action =>
        /\ phase' \in {"sleep", "now", "mining", "check", "script"}
        /\ wake' \in 0 .. Interval + Late /\ lag' \in 0 .. PollTime
        /\ sampled' \in [Cards -> BOOLEAN] /\ at' \in Cards
  <2> SUFFICES ASSUME NextDevice
               PROVE  /\ phase' \in {"sleep", "now", "mining", "check", "script"}
                      /\ wake' \in 0 .. Interval + Late /\ lag' \in 0 .. PollTime
                      /\ sampled' \in [Cards -> BOOLEAN] /\ at' \in Cards
    OBVIOUS
  <2>1. at' \in Cards
    <3>1. at \in 1 .. D
      BY DEF WatchTypeOK, Cards
    <3>2. at < D => at + 1 \in Cards
      BY <3>1 DEF Cards
    <3> QED BY <3>2 DEF NextDevice
  <2>2. 0 \in 0 .. Interval + Late /\ 0 \in 0 .. PollTime
    OBVIOUS
  <2> QED BY <2>1, <2>2 DEF WatchTypeOK, NextDevice
<1>8. CASE SeesProgress
  <2>1. /\ seen' \in [Cards -> BOOLEAN] /\ hung' \in [Cards -> BOOLEAN]
        /\ explained' \in [Cards -> BOOLEAN]
        /\ still' \in [Cards -> 0 .. Oldest]
    BY <1>8 DEF WatchTypeOK, SeesProgress, ProgressNow
  <2>2. UNCHANGED <<workerVars, ahead, holdVars, action, active, exited>> /\ NextDevice
    BY <1>8 DEF SeesProgress
  <2> QED BY <1>7, <2>1, <2>2 DEF WatchTypeOK, workerVars, holdVars
<1>9. CASE HoldsClock \/ Waits
  <2>1. still' \in [Cards -> 0 .. Oldest] /\ UNCHANGED <<seen, hung>>
    BY <1>9 DEF WatchTypeOK, HoldsClock, Waits, ProgressNow, stateVars
  <2>2. UNCHANGED <<workerVars, ahead, holdVars, action, active, exited, explained>> /\ NextDevice
    BY <1>9 DEF HoldsClock, Waits
  <2> QED BY <1>7, <2>1, <2>2 DEF WatchTypeOK, workerVars, holdVars
<1>10. CASE ReportsHung \/ ScriptEnds
  <2>1. hung' \in [Cards -> BOOLEAN] /\ exited' \in BOOLEAN /\ UNCHANGED <<seen, still>>
    BY <1>10 DEF WatchTypeOK, ReportsHung, ScriptEnds, stateVars
  <2>2. /\ phase' \in {"sleep", "now", "mining", "check", "script"}
        /\ wake' \in 0 .. Interval + Late /\ lag' \in 0 .. PollTime
        /\ sampled' \in [Cards -> BOOLEAN] /\ at' \in Cards /\ UNCHANGED active
    <3>1. CASE NextDevice /\ UNCHANGED <<action, active>>
      BY <1>7, <3>1
    <3>2. CASE UNCHANGED pollVars
      BY <3>2 DEF WatchTypeOK, pollVars
    <3>3. CASE phase' = "script" /\ UNCHANGED <<wake, lag, sampled, active, at>>
      BY <3>3 DEF WatchTypeOK
    <3> QED BY <1>10, <3>1, <3>2, <3>3 DEF ReportsHung, ScriptEnds
  <2>3. UNCHANGED <<workerVars, ahead, holdVars, action, explained>>
    BY <1>10 DEF ReportsHung, ScriptEnds
  <2> QED BY <2>1, <2>2, <2>3 DEF WatchTypeOK, workerVars, holdVars
<1>11. CASE Tick
  <2>1. age' \in [Cards -> 0 .. SolveTime]
    BY <1>11 DEF WatchTypeOK, Tick
  <2>2. wake' \in 0 .. Interval + Late /\ lag' \in 0 .. PollTime
    BY <1>11 DEF WatchTypeOK, Tick
  <2>3. still' \in [Cards -> 0 .. Oldest]
    BY <1>11 DEF WatchTypeOK, Tick, Older
  <2>4. UNCHANGED <<job, eng, ahead, holdVars, action, phase, sampled, active, at, seen, hung,
                    exited, explained>>
    BY <1>11 DEF Tick
  <2> QED BY <2>1, <2>2, <2>3, <2>4 DEF WatchTypeOK, holdVars
<1> QED BY <1>1, <1>2, <1>3, <1>4, <1>5, <1>6, <1>8, <1>9, <1>10, <1>11, <1>12 DEF WatchNext, Poll

LEMMA InitType == WatchInit => WatchTypeOK
<1> SUFFICES ASSUME WatchInit PROVE WatchTypeOK
  OBVIOUS
<1> USE Amounts
<1>1. /\ 0 \in 0 .. Interval + Late /\ 0 \in 0 .. PollTime /\ 0 \in 0 .. SolveTime
      /\ 0 \in 0 .. Oldest /\ 1 .. MaxTemp \subseteq 0 .. MaxTemp
  OBVIOUS
<1>2. temp \in [Cards -> 0 .. MaxTemp]
  BY <1>1 DEF WatchInit
<1> QED BY <1>1, <1>2 DEF WatchInit, WatchTypeOK

\* Every variable keeps its type; in particular no clock runs past what it is counted to.
THEOREM TypeCorrect == WatchSpec => []WatchTypeOK
BY InitType, NextType, PTL DEF WatchSpec

(***************************************************************************)
(* The budget.                                                             *)
(***************************************************************************)
\* The longest from one `now` of the watchdog to the next.
Cycle == Interval + Late + 2 * PollTime

\* How long the clock of a card without an excuse may have run: while its worker has
\* yet to wake up for a first job, while it is paused in between two looks of the
\* watchdog, and until it completes a solve.
IdleBound == PollTime + Cycle + SolveTime
HeldBound == IdleBound + PollTime
SolveBound == HeldBound + Cycle + 2 * SolveTime

\* poll() has judged this card already.
Done(d) == phase \in {"check", "script"} /\ (at > d \/ (phase = "script" /\ at = d))

\* At most so long ago the last poll ended, or the counts were sampled.
SincePoll == IF phase = "sleep" THEN wake
             ELSE IF phase = "now" THEN Interval + Late + lag
             ELSE Interval + Late + PollTime + lag
SinceSample == IF phase = "now" THEN lag ELSE PollTime + lag

\* The next look at this card will find its count moved.
Noticed(d) == (sampled[d] /\ ~Done(d)) \/ (phase = "sleep" /\ ahead[d])

\* A card whose worker has something to do has left, in its step and those it leads to,
\* what the budget leaves; one at rest will be excused at the next look.
InBudget(d) ==
  /\ eng[d] = "solve" => still[d] + SolveTime - age[d] <= SolveBound
  /\ eng[d] = "held" /\ ~Paused(d) => still[d] + 2 * SolveTime - age[d] <= SolveBound
  /\ eng[d] = "held" /\ Paused(d) =>
       IF Done(d) THEN still[d] <= IdleBound + lag ELSE still[d] <= HeldBound + SincePoll
  /\ eng[d] = "idle" /\ job = "usable" => still[d] + SolveTime - age[d] <= IdleBound
  /\ eng[d] = "idle" /\ job = "none" =>
       IF Done(d) THEN still[d] <= lag ELSE still[d] <= PollTime + SincePoll

Bounded(d) == IF ahead[d] THEN still[d] <= SolveBound + SinceSample ELSE InBudget(d)

Innocent(d) == ~explained[d] => eng[d] # "stuck" /\ job # "unusable"

QuietInv ==
  /\ \A d \in Cards : Innocent(d)
  /\ job = "none" => ~active
  /\ phase = "sleep" => lag = 0 /\ \A d \in Cards : ~sampled[d]

StillInv == \A d \in Cards : seen[d] /\ ~explained[d] => Noticed(d) \/ Bounded(d)

LEMMA InitStill == WatchInit => QuietInv /\ StillInv
BY DEF WatchInit, QuietInv, Innocent, StillInv

LEMMA NextQuiet == WatchTypeOK /\ QuietInv /\ [WatchNext]_watchVars => QuietInv'
<1> SUFFICES ASSUME WatchTypeOK, QuietInv, [WatchNext]_watchVars PROVE QuietInv'
  OBVIOUS
<1>1. CASE UNCHANGED watchVars
  BY <1>1 DEF QuietInv, Innocent, watchVars, workerVars, pollVars
<1>2. ASSUME NEW kind \in {"usable", "unusable"}, PoolSends(kind) PROVE QuietInv'
  BY <1>2 DEF WatchTypeOK, QuietInv, Innocent, PoolSends, pollVars
<1>3. ASSUME NEW d \in Cards, Resumes(d) \/ Completes(d) \/ Retries(d) PROVE QuietInv'
  <2>1. \A e \in Cards : eng'[e] # "stuck" \/ eng'[e] = eng[e]
    BY <1>3 DEF WatchTypeOK, Resumes, Completes, Retries, Turns, Does
  <2>2. UNCHANGED <<job, phase, lag, sampled, active, explained>>
    BY <1>3 DEF Resumes, Completes, Retries, pollVars
  <2> QED BY <2>1, <2>2 DEF QuietInv, Innocent
<1>4. ASSUME NEW d \in Cards, GetsStuck(d) PROVE QuietInv'
  BY <1>4 DEF WatchTypeOK, QuietInv, Innocent, GetsStuck, Does, pollVars
<1>5. ASSUME NEW d \in Cards, Weather(d) PROVE QuietInv'
  BY <1>5 DEF QuietInv, Innocent, Weather, workerVars, pollVars
<1>6. CASE PressKey \/ ThermalCheck
  <2>1. \A d \in Cards : ~explained'[d] => ~explained[d]
    BY <1>6 DEF WatchTypeOK, PressKey, ThermalCheck
  <2>2. UNCHANGED <<job, eng, phase, lag, sampled, active>>
    BY <1>6 DEF PressKey, ThermalCheck, workerVars, pollVars
  <2> QED BY <2>1, <2>2 DEF QuietInv, Innocent
<1>7. CASE SampleCounts \/ ReadNow \/ AskMining
  <2>1. UNCHANGED <<job, eng, explained>> /\ phase' # "sleep"
    BY <1>7 DEF SampleCounts, ReadNow, AskMining, workerVars
  <2>2. job = "none" => ~active'
    BY <1>7 DEF QuietInv, SampleCounts, ReadNow, AskMining, MiningExpected
  <2> QED BY <2>1, <2>2 DEF QuietInv, Innocent
<1>8. NextDevice /\ phase' = "sleep" => lag' = 0 /\ \A d \in Cards : ~sampled'[d]
  BY DEF NextDevice
<1>9. CASE SeesProgress
  <2>1. \A d \in Cards : ~explained'[d] => ~explained[d] \/ (eng[d] # "stuck" /\ job # "unusable")
    BY <1>9 DEF WatchTypeOK, SeesProgress
  <2>2. UNCHANGED <<job, eng, active>> /\ NextDevice
    BY <1>9 DEF SeesProgress, workerVars
  <2> QED BY <1>8, <2>1, <2>2 DEF QuietInv, Innocent
<1>10. CASE HoldsClock \/ Waits \/ ScriptEnds
  <2>1. UNCHANGED <<job, eng, active, explained>> /\ NextDevice
    BY <1>10 DEF HoldsClock, Waits, ScriptEnds, workerVars
  <2> QED BY <1>8, <2>1 DEF QuietInv, Innocent
<1>11. CASE ReportsHung
  <2>1. UNCHANGED <<job, eng, active, explained>> /\ phase = "check"
    BY <1>11 DEF ReportsHung, StandsStill, workerVars, pollVars
  <2>2. NextDevice \/ phase' # "sleep"
    BY <2>1, <1>11 DEF ReportsHung, pollVars
  <2> QED BY <1>8, <2>1, <2>2 DEF QuietInv, Innocent
<1>12. CASE Tick
  BY <1>12 DEF QuietInv, Innocent, Tick
<1> QED BY <1>1, <1>2, <1>3, <1>4, <1>5, <1>6, <1>7, <1>9, <1>10, <1>11, <1>12 DEF WatchNext, Poll

(* What the arithmetic below is about. *)
LEMMA Clocks ==
  ASSUME WatchTypeOK, NEW d \in Cards
  PROVE  /\ still[d] \in Nat /\ age[d] \in Nat /\ age[d] <= SolveTime
         /\ lag \in Nat /\ lag <= PollTime /\ wake \in Nat /\ wake <= Interval + Late
         /\ SincePoll \in Nat /\ SincePoll <= Cycle
         /\ SinceSample \in Nat /\ SinceSample <= 2 * PollTime
         /\ Cycle = Interval + Late + 2 * PollTime
         /\ IdleBound = PollTime + Cycle + SolveTime
         /\ HeldBound = IdleBound + PollTime
         /\ SolveBound = HeldBound + Cycle + 2 * SolveTime
         /\ Cycle \in Nat /\ IdleBound \in Nat /\ HeldBound \in Nat /\ SolveBound \in Nat
<1> USE Amounts
<1>1. still[d] \in 0 .. Oldest /\ age[d] \in 0 .. SolveTime /\ lag \in 0 .. PollTime
      /\ wake \in 0 .. Interval + Late
  BY DEF WatchTypeOK
<1>2. Cycle \in Nat /\ IdleBound \in Nat /\ HeldBound \in Nat /\ SolveBound \in Nat
  BY DEF Cycle, IdleBound, HeldBound, SolveBound
<1>3. SincePoll \in Nat /\ SincePoll <= Cycle
  BY <1>1 DEF SincePoll, Cycle
<1>4. SinceSample \in Nat /\ SinceSample <= 2 * PollTime
  BY <1>1 DEF SinceSample
<1> QED BY <1>1, <1>2, <1>3, <1>4 DEF Cycle, IdleBound, HeldBound, SolveBound

Judged(d) == seen[d] /\ ~explained[d] => Noticed(d) \/ Bounded(d)

LEMMA StillPool ==
  ASSUME WatchTypeOK, QuietInv, StillInv, NEW kind \in {"usable", "unusable"}, PoolSends(kind)
  PROVE  StillInv'
<1> SUFFICES ASSUME NEW d \in Cards PROVE Judged(d)'
  BY DEF StillInv, Judged
<1>1. CASE kind = "unusable"
  BY <1>1 DEF WatchTypeOK, PoolSends, Judged
<1>2. CASE kind = "usable"
  <2>1. /\ UNCHANGED <<eng, age, ahead, paused, userPaused, phase, wake, lag, sampled, at, seen, still>>
        /\ job' = "usable" /\ explained'[d] = explained[d]
    BY <1>2 DEF WatchTypeOK, PoolSends, holdVars, pollVars, stateVars
  <2>2. Noticed(d)' = Noticed(d) /\ Done(d)' = Done(d) /\ Paused(d)' = Paused(d)
        /\ SincePoll' = SincePoll /\ SinceSample' = SinceSample
    BY <2>1 DEF Noticed, Done, Paused, SincePoll, SinceSample
  <2>3. ~explained[d] => job # "unusable"
    BY DEF QuietInv, Innocent
  <2>4. InBudget(d) /\ job # "unusable" => InBudget(d)'
    <3> SUFFICES ASSUME InBudget(d), job # "unusable" PROVE InBudget(d)'
      OBVIOUS
    <3>1. job = "none" \/ job = "usable"
      BY DEF WatchTypeOK
    <3>2. eng[d] = "idle" => still[d] + SolveTime - age[d] <= IdleBound
      BY <3>1, Clocks, Amounts DEF InBudget
    <3> QED BY <2>1, <2>2, <3>2 DEF InBudget
  <2> QED BY <2>1, <2>2, <2>3, <2>4 DEF StillInv, Judged, Bounded
<1> QED BY <1>1, <1>2

LEMMA StillWorker ==
  ASSUME WatchTypeOK, QuietInv, StillInv, NEW e \in Cards, Resumes(e) \/ Retries(e) \/ GetsStuck(e)
  PROVE  StillInv'
<1> SUFFICES ASSUME NEW d \in Cards PROVE Judged(d)'
  BY DEF StillInv, Judged
<1>1. /\ UNCHANGED <<job, ahead, paused, userPaused, phase, wake, lag, sampled, at, seen, still>>
      /\ ~explained'[d] => ~explained[d]
  BY DEF WatchTypeOK, Resumes, Retries, GetsStuck, holdVars, pollVars, stateVars
<1>2. Noticed(d)' = Noticed(d) /\ Done(d)' = Done(d) /\ Paused(d)' = Paused(d)
      /\ SincePoll' = SincePoll /\ SinceSample' = SinceSample
  BY <1>1 DEF Noticed, Done, Paused, SincePoll, SinceSample
<1>3. CASE d # e
  <2>1. eng'[d] = eng[d] /\ age'[d] = age[d]
    BY <1>3 DEF WatchTypeOK, Resumes, Retries, GetsStuck, Turns, Does
  <2> QED BY <1>1, <1>2, <2>1 DEF StillInv, Judged, Bounded, InBudget
<1>4. CASE d = e /\ GetsStuck(e)
  BY <1>4 DEF WatchTypeOK, GetsStuck, Judged
<1>5. CASE d = e /\ (Resumes(e) \/ Retries(e))
  <2> SUFFICES ASSUME seen[d], ~explained[d], ~Noticed(d) PROVE Bounded(d)'
    BY <1>1, <1>2 DEF Judged
  <2>1. job # "unusable" /\ eng[d] # "stuck" /\ Resumes(d)
    BY <1>5 DEF QuietInv, Innocent, Retries
  <2>2. eng'[d] = (IF Paused(d) THEN "held" ELSE "solve") /\ age'[d] = 0
    BY <2>1 DEF WatchTypeOK, Resumes, Turns, Does
  <2>3. CASE ahead[d]
    BY <2>3, <1>1, <1>2 DEF StillInv, Bounded
  <2>4. CASE ~ahead[d] /\ eng[d] = "idle"
    <3>1. still[d] + SolveTime - age[d] <= IdleBound
      BY <2>1, <2>4 DEF StillInv, Bounded, InBudget, Resumes
    <3>2. still[d] <= IdleBound /\ still[d] + SolveTime - 0 <= SolveBound
      BY <3>1, Clocks, Amounts
    <3>3. IF Done(d) THEN still[d] <= IdleBound + lag ELSE still[d] <= HeldBound + SincePoll
      BY <3>2, Clocks, Amounts
    <3> QED BY <2>2, <2>4, <3>2, <3>3, <1>1, <1>2 DEF Bounded, InBudget
  <2>5. CASE ~ahead[d] /\ eng[d] = "held"
    <3>1. ~Paused(d) /\ still[d] + 2 * SolveTime - age[d] <= SolveBound
      BY <2>1, <2>5 DEF StillInv, Bounded, InBudget, Resumes
    <3>2. still[d] + SolveTime - 0 <= SolveBound
      BY <3>1, Clocks, Amounts
    <3> QED BY <2>2, <2>5, <3>1, <3>2, <1>1, <1>2 DEF Bounded, InBudget
  <2> QED BY <2>1, <2>3, <2>4, <2>5 DEF Resumes
<1> QED BY <1>3, <1>4, <1>5

LEMMA StillCompletes ==
  ASSUME WatchTypeOK, QuietInv, StillInv, NEW e \in Cards, Completes(e)
  PROVE  StillInv'
<1> SUFFICES ASSUME NEW d \in Cards PROVE Judged(d)'
  BY DEF StillInv, Judged
<1>1. UNCHANGED <<job, paused, userPaused, phase, wake, lag, sampled, at, seen, still, explained>>
  BY DEF Completes, holdVars, pollVars, stateVars
<1>2. Done(d)' = Done(d) /\ Paused(d)' = Paused(d)
      /\ SincePoll' = SincePoll /\ SinceSample' = SinceSample
  BY <1>1 DEF Done, Paused, SincePoll, SinceSample
<1>3. CASE d # e
  <2>1. eng'[d] = eng[d] /\ age'[d] = age[d] /\ ahead'[d] = ahead[d]
    BY <1>3 DEF WatchTypeOK, Completes, Turns, Does
  <2> QED BY <1>1, <1>2, <2>1 DEF StillInv, Judged, Noticed, Bounded, InBudget
<1>4. CASE d = e
  <2>1. ahead'[d]
    BY <1>4 DEF WatchTypeOK, Completes
  <2> SUFFICES ASSUME seen[d], ~explained[d], ~Noticed(d) PROVE Bounded(d)'
    BY <1>1, <1>2, <2>1 DEF Judged, Noticed
  <2>2. eng[d] = "solve"
    BY <1>4 DEF QuietInv, Innocent, Completes
  <2>3. CASE ahead[d]
    BY <2>1, <2>3, <1>1, <1>2 DEF StillInv, Bounded
  <2>4. CASE ~ahead[d]
    <3>1. still[d] + SolveTime - age[d] <= SolveBound
      BY <2>2, <2>4 DEF StillInv, Bounded, InBudget
    <3>2. still[d] <= SolveBound + SinceSample
      BY <3>1, Clocks, Amounts
    <3> QED BY <2>1, <3>2, <1>1, <1>2 DEF Bounded
  <2> QED BY <2>3, <2>4
<1> QED BY <1>3, <1>4

LEMMA StillPauses ==
  ASSUME WatchTypeOK, QuietInv, StillInv, PressKey \/ ThermalCheck
  PROVE  StillInv'
<1> SUFFICES ASSUME NEW d \in Cards PROVE Judged(d)'
  BY DEF StillInv, Judged
<1>1. UNCHANGED <<job, eng, age, ahead, phase, wake, lag, sampled, at, seen, still>>
  BY DEF PressKey, ThermalCheck, workerVars, pollVars, stateVars
<1>2. Noticed(d)' = Noticed(d) /\ Done(d)' = Done(d)
      /\ SincePoll' = SincePoll /\ SinceSample' = SinceSample
  BY <1>1 DEF Noticed, Done, SincePoll, SinceSample
<1>3. ~explained'[d] => ~explained[d] /\ (~Flickers(d) \/ Paused(d)' = Paused(d))
  <2>1. CASE PressKey
    BY <2>1 DEF WatchTypeOK, PressKey
  <2>2. CASE ThermalCheck /\ d = tat
    BY <2>2 DEF WatchTypeOK, ThermalCheck
  <2>3. CASE ThermalCheck /\ d # tat
    <3>1. paused'[d] = paused[d] /\ userPaused' = userPaused /\ explained'[d] = explained[d]
      BY <2>3 DEF WatchTypeOK, ThermalCheck
    <3> QED BY <3>1 DEF Paused
  <2> QED BY <2>1, <2>2, <2>3
<1> SUFFICES ASSUME seen[d], ~explained'[d], ~Noticed(d) PROVE Bounded(d)'
  BY <1>1, <1>2 DEF Judged
<1>4. Bounded(d)
  BY <1>3 DEF StillInv
<1>5. CASE ahead[d]
  BY <1>1, <1>2, <1>4, <1>5 DEF Bounded
<1>6. CASE ~ahead[d] /\ eng[d] = "held" /\ Paused(d) /\ ~Paused(d)'
  <2>1. IF Done(d) THEN still[d] <= IdleBound + lag ELSE still[d] <= HeldBound + SincePoll
    BY <1>4, <1>6 DEF Bounded, InBudget
  <2>2. still[d] + 2 * SolveTime - age[d] <= SolveBound
    BY <2>1, Clocks, Amounts
  <2> QED BY <2>2, <1>1, <1>6 DEF Bounded, InBudget
<1>7. CASE ~ahead[d] /\ eng[d] = "held" /\ ~Paused(d) /\ Paused(d)'
  BY <1>3, <1>7 DEF Flickers
<1>8. CASE ~ahead[d] /\ (eng[d] = "held" => (Paused(d) <=> Paused(d)'))
  BY <1>1, <1>2, <1>4, <1>8 DEF Bounded, InBudget
<1> QED BY <1>5, <1>6, <1>7, <1>8

(* Nothing the budget is about changes. *)
LEMMA StillUntouched ==
  ASSUME StillInv,
         UNCHANGED <<job, eng, age, ahead, paused, userPaused, phase, wake, lag, sampled, at,
                     seen, still, explained>>
  PROVE  StillInv'
BY DEF StillInv, Noticed, Bounded, InBudget, Done, Paused, SincePoll, SinceSample

LEMMA StillSampled ==
  ASSUME WatchTypeOK, QuietInv, StillInv, SampleCounts \/ ReadNow \/ AskMining
  PROVE  StillInv'
<1> SUFFICES ASSUME NEW d \in Cards, seen[d], ~explained[d] PROVE (Noticed(d) \/ Bounded(d))'
  BY DEF StillInv, SampleCounts, ReadNow, AskMining, stateVars
<1>1. /\ UNCHANGED <<job, eng, age, paused, userPaused, wake, still>>
      /\ Paused(d)' = Paused(d) /\ ~Done(d)
      /\ phase \in {"sleep", "now", "mining"} /\ phase' # "sleep"
  BY DEF SampleCounts, ReadNow, AskMining, workerVars, holdVars, stateVars, Paused, Done
<1>2. ~Done(d)'
  BY Amounts DEF Done, SampleCounts, ReadNow, AskMining, Cards
<1>3. SincePoll <= SincePoll' /\ SincePoll' \in Nat
  BY Clocks, Amounts DEF SampleCounts, ReadNow, AskMining, SincePoll
<1>4. CASE SampleCounts /\ ahead[d]
  BY <1>2, <1>4 DEF SampleCounts, Noticed
<1>5. CASE ~SampleCounts /\ ahead[d]
  <2>1. SinceSample <= SinceSample' /\ SinceSample' \in Nat
    BY <1>5, Clocks, Amounts DEF ReadNow, AskMining, SinceSample
  <2>2. ahead' = ahead /\ sampled' = sampled /\ phase # "sleep"
    BY <1>5 DEF ReadNow, AskMining
  <2>3. CASE sampled[d]
    BY <2>2, <2>3, <1>2 DEF Noticed
  <2>4. CASE ~sampled[d]
    <3>1. still[d] <= SolveBound + SinceSample
      BY <2>2, <2>4, <1>5 DEF StillInv, Noticed, Bounded
    <3>2. still[d] <= SolveBound + SinceSample'
      BY <3>1, <2>1, Clocks
    <3> QED BY <3>2, <2>2, <1>1, <1>5 DEF Bounded
  <2> QED BY <2>3, <2>4
<1>6. CASE ~ahead[d]
  <2>1. ~ahead'[d]
    BY <1>6 DEF WatchTypeOK, SampleCounts, ReadNow, AskMining
  <2>2. CASE sampled[d]
    BY <2>2, <1>1, <1>2 DEF QuietInv, Noticed, SampleCounts, ReadNow, AskMining
  <2>3. CASE ~sampled[d]
    <3>1. InBudget(d)
      BY <2>3, <1>6 DEF StillInv, Noticed, Bounded
    <3>2. /\ still[d] <= HeldBound + SincePoll => still[d] <= HeldBound + SincePoll'
          /\ still[d] <= PollTime + SincePoll => still[d] <= PollTime + SincePoll'
      BY <1>3, Clocks, Amounts
    <3>3. InBudget(d)'
      BY <3>1, <3>2, <1>1, <1>2 DEF InBudget
    <3> QED BY <3>3, <2>1 DEF Bounded
  <2> QED BY <2>2, <2>3
<1> QED BY <1>4, <1>5, <1>6

(* What holds, with a clock of s, of a card that was just judged. *)
Settled(d, s) ==
  IF ahead[d] THEN s <= SolveBound + SinceSample
  ELSE /\ eng[d] = "solve" => s + SolveTime - age[d] <= SolveBound
       /\ eng[d] = "held" /\ ~Paused(d) => s + 2 * SolveTime - age[d] <= SolveBound
       /\ eng[d] = "held" /\ Paused(d) => s <= IdleBound + lag
       /\ eng[d] = "idle" /\ job = "usable" => s + SolveTime - age[d] <= IdleBound
       /\ eng[d] = "idle" /\ job = "none" => s <= lag

LEMMA ClockSet ==
  ASSUME WatchTypeOK, NEW d \in Cards
  PROVE  Settled(d, lag)
BY Clocks, Amounts DEF Settled

LEMMA DoneSettled ==
  ASSUME NEW d \in Cards, Done(d), Noticed(d) \/ Bounded(d)
  PROVE  Settled(d, still[d])
BY DEF Done, Noticed, Bounded, InBudget, Settled

(* The poll goes on to the next card, or ends: those judged. *)
LEMMA AfterLook ==
  ASSUME WatchTypeOK, QuietInv, phase \in {"check", "script"}, NextDevice,
         UNCHANGED <<job, eng, age, ahead, paused, userPaused>>,
         NEW d \in Cards, d = at \/ Done(d), Settled(d, still'[d]), still'[d] \in Nat
  PROVE  (Noticed(d) \/ Bounded(d))'
<1>1. Paused(d)' = Paused(d)
  BY DEF Paused
<1>2. at \in Nat /\ d \in Nat /\ d <= at /\ d <= D
  BY Amounts DEF WatchTypeOK, Cards, Done
<1>3. CASE at < D
  <2>1. phase' = "check" /\ at' = at + 1 /\ UNCHANGED <<wake, lag, sampled>>
    BY <1>3 DEF NextDevice
  <2>2. Done(d)' /\ SinceSample' = SinceSample
    BY <2>1, <1>2 DEF Done, SinceSample
  <2> QED BY <2>1, <2>2, <1>1 DEF Settled, Bounded, InBudget
<1>4. CASE ~(at < D)
  <2>1. phase' = "sleep" /\ wake' = 0 /\ lag' = 0
    BY <1>4 DEF NextDevice
  <2>2. CASE ahead[d]
    BY <2>1, <2>2 DEF Noticed
  <2>3. CASE ~ahead[d]
    <3>1. ~Done(d)' /\ SincePoll' = 0
      BY <2>1 DEF Done, SincePoll
    <3>2. still'[d] <= IdleBound + lag => still'[d] <= HeldBound + 0
      BY Clocks, Amounts
    <3>3. still'[d] <= lag => still'[d] <= PollTime + 0
      BY Clocks, Amounts
    <3>4. InBudget(d)'
      BY <2>3, <3>1, <3>2, <3>3, <1>1 DEF Settled, InBudget
    <3> QED BY <2>3, <3>4 DEF Bounded
  <2> QED BY <2>2, <2>3
<1> QED BY <1>3, <1>4

(* And those it has yet to come to. *)
LEMMA BeforeLook ==
  ASSUME WatchTypeOK, phase \in {"check", "script"}, NextDevice,
         UNCHANGED <<job, eng, age, ahead, paused, userPaused>>,
         NEW d \in Cards, d # at, ~Done(d), still'[d] = still[d],
         Noticed(d) \/ Bounded(d)
  PROVE  (Noticed(d) \/ Bounded(d))'
<1>1. at \in Nat /\ d \in Nat /\ at < d /\ d <= D
  BY Amounts DEF WatchTypeOK, Cards, Done
<1>2. phase' = "check" /\ at' = at + 1 /\ UNCHANGED <<wake, lag, sampled>>
  BY <1>1, Amounts DEF NextDevice
<1>3. ~Done(d)' /\ Paused(d)' = Paused(d) /\ SincePoll' = SincePoll
      /\ SinceSample' = SinceSample /\ Noticed(d)' = Noticed(d)
  BY <1>1, <1>2 DEF Done, Paused, SincePoll, SinceSample, Noticed
<1> QED BY <1>2, <1>3 DEF Bounded, InBudget

LEMMA StillJudges ==
  ASSUME WatchTypeOK, QuietInv, StillInv, SeesProgress \/ HoldsClock
  PROVE  StillInv'
<1> SUFFICES ASSUME NEW d \in Cards, seen'[d], ~explained'[d]
             PROVE  (Noticed(d) \/ Bounded(d))'
  BY DEF StillInv
<1>1. /\ phase = "check" /\ NextDevice
      /\ UNCHANGED <<job, eng, age, ahead, paused, userPaused>>
  BY DEF SeesProgress, HoldsClock, StandsStill, workerVars, holdVars
<1>2. CASE d = at
  <2>1. still'[d] = lag
    BY <1>2 DEF WatchTypeOK, SeesProgress, HoldsClock, ProgressNow
  <2> QED BY <2>1, <1>1, <1>2, ClockSet, Clocks, AfterLook
<1>3. CASE d # at
  <2>1. still'[d] = still[d] /\ seen'[d] = seen[d] /\ explained'[d] = explained[d]
    BY <1>3 DEF WatchTypeOK, SeesProgress, HoldsClock, ProgressNow
  <2>2. Noticed(d) \/ Bounded(d)
    BY <2>1 DEF StillInv
  <2>3. CASE Done(d)
    BY <2>1, <2>2, <2>3, <1>1, DoneSettled, Clocks, AfterLook
  <2>4. CASE ~Done(d)
    BY <2>1, <2>2, <2>4, <1>1, <1>3, BeforeLook
  <2> QED BY <2>3, <2>4
<1> QED BY <1>2, <1>3

(* A card that is not excused is not at rest. *)
LEMMA ActiveSettled ==
  ASSUME QuietInv, StandsStill, ~Excused(at), Noticed(at) \/ Bounded(at), at \in Int
  PROVE  Settled(at, still[at]) /\ job # "none" /\ ~Paused(at)
<1>1. job # "none" /\ ~Paused(at)
  BY DEF QuietInv, Excused
<1>2. ~Noticed(at) /\ ~Done(at)
  BY DEF StandsStill, Noticed, Done
<1> QED BY <1>1, <1>2 DEF Bounded, InBudget, Settled

LEMMA StillWaits ==
  ASSUME WatchTypeOK, QuietInv, StillInv, Waits \/ ReportsHung \/ ScriptEnds
  PROVE  StillInv'
<1> SUFFICES ASSUME NEW d \in Cards, seen[d], ~explained[d]
             PROVE  (Noticed(d) \/ Bounded(d))'
  BY DEF StillInv, Waits, ReportsHung, ScriptEnds, stateVars
<1>1. /\ phase \in {"check", "script"}
      /\ UNCHANGED <<job, eng, age, ahead, paused, userPaused, still>>
  BY DEF Waits, ReportsHung, ScriptEnds, StandsStill, workerVars, holdVars, stateVars
<1>2. Noticed(d) \/ Bounded(d)
  BY DEF StillInv
<1>3. at \in Int /\ d \in Int
  BY Amounts DEF WatchTypeOK
<1>4. d = at \/ Done(d) => Settled(d, still[d])
  <2>1. CASE Done(d)
    BY <2>1, <1>2, DoneSettled
  <2>2. CASE ~Done(d) /\ d = at
    <3>1. StandsStill /\ ~Excused(at)
      BY <2>2 DEF Done, Waits, ReportsHung, ScriptEnds
    <3> QED BY <2>2, <3>1, <1>2, <1>3, ActiveSettled
  <2> QED BY <2>1, <2>2
<1>5. CASE NextDevice
  <2>1. CASE d = at \/ Done(d)
    BY <2>1, <1>1, <1>4, <1>5, Clocks, AfterLook
  <2>2. CASE ~(d = at \/ Done(d))
    BY <2>2, <1>1, <1>2, <1>5, BeforeLook
  <2> QED BY <2>1, <2>2
<1>6. CASE UNCHANGED pollVars
  BY <1>1, <1>2, <1>6
  DEF pollVars, Noticed, Bounded, InBudget, Done, Paused, SincePoll, SinceSample
<1>7. CASE phase = "check" /\ phase' = "script" /\ UNCHANGED <<wake, lag, sampled, active, at>>
  <2>1. Paused(d)' = Paused(d) /\ SincePoll' = SincePoll /\ SinceSample' = SinceSample
    BY <1>1, <1>7 DEF Paused, SincePoll, SinceSample
  <2>2. CASE d = at
    <3>1. Done(d)'
      BY <2>2, <1>7 DEF Done
    <3> QED BY <2>1, <2>2, <3>1, <1>1, <1>4, <1>7 DEF Settled, Bounded, InBudget
  <2>3. CASE d # at
    <3>1. Done(d)' = Done(d) /\ Noticed(d)' = Noticed(d)
      BY <2>3, <1>1, <1>7 DEF Done, Noticed
    <3> QED BY <2>1, <3>1, <1>1, <1>2, <1>7 DEF Bounded, InBudget
  <2> QED BY <2>2, <2>3
<1> QED BY <1>5, <1>6, <1>7 DEF Waits, ReportsHung, ScriptEnds, StandsStill

LEMMA StillTicks ==
  ASSUME WatchTypeOK, QuietInv, StillInv, Tick
  PROVE  StillInv'
<1> SUFFICES ASSUME NEW d \in Cards, seen[d], ~explained[d]
             PROVE  (Noticed(d) \/ Bounded(d))'
  BY DEF StillInv, Tick
<1>1. /\ UNCHANGED <<job, eng, ahead, paused, userPaused, phase, sampled, at>>
      /\ Paused(d)' = Paused(d) /\ Done(d)' = Done(d) /\ Noticed(d)' = Noticed(d)
  BY DEF Tick, holdVars, Paused, Done, Noticed
<1>2. still'[d] \in Nat /\ still'[d] <= still[d] + 1
  <2>1. still'[d] = Older(still[d], Oldest)
    BY DEF Tick
  <2> QED BY <2>1, Clocks DEF Older
<1>3. Busy(d) => age'[d] = age[d] + 1
  BY DEF Tick
<1>4. /\ SincePoll' = SincePoll + 1
      /\ phase # "sleep" => SinceSample' = SinceSample + 1 /\ lag' = lag + 1
  BY Clocks, Amounts DEF Tick, SincePoll, SinceSample
<1>5. CASE Noticed(d)
  BY <1>1, <1>5
<1>6. CASE ~Noticed(d) /\ ahead[d]
  <2>1. phase # "sleep" /\ still[d] <= SolveBound + SinceSample
    BY <1>6 DEF StillInv, Noticed, Bounded
  <2>2. still'[d] <= SolveBound + SinceSample'
    BY <2>1, <1>2, <1>4, Clocks
  <2> QED BY <2>2, <1>1, <1>6 DEF Bounded
<1>7. CASE ~Noticed(d) /\ ~ahead[d]
  <2>1. InBudget(d)
    BY <1>7 DEF StillInv, Bounded
  <2>2. (eng[d] = "solve" => still[d] + SolveTime - age[d] <= SolveBound)'
    <3> SUFFICES ASSUME eng[d] = "solve" PROVE still'[d] + SolveTime - age'[d] <= SolveBound
      BY <1>1
    <3>1. still[d] + SolveTime - age[d] <= SolveBound /\ age'[d] = age[d] + 1
      BY <2>1, <1>3 DEF InBudget, Busy
    <3> QED BY <3>1, <1>2, Clocks, Amounts
  <2>3. (eng[d] = "held" /\ ~Paused(d) => still[d] + 2 * SolveTime - age[d] <= SolveBound)'
    <3> SUFFICES ASSUME eng[d] = "held", ~Paused(d)
                 PROVE  still'[d] + 2 * SolveTime - age'[d] <= SolveBound
      BY <1>1
    <3>1. still[d] + 2 * SolveTime - age[d] <= SolveBound /\ age'[d] = age[d] + 1
      BY <2>1, <1>3 DEF InBudget, Busy
    <3> QED BY <3>1, <1>2, Clocks, Amounts
  <2>4. (eng[d] = "idle" /\ job = "usable" => still[d] + SolveTime - age[d] <= IdleBound)'
    <3> SUFFICES ASSUME eng[d] = "idle", job = "usable"
                 PROVE  still'[d] + SolveTime - age'[d] <= IdleBound
      BY <1>1
    <3>1. still[d] + SolveTime - age[d] <= IdleBound /\ age'[d] = age[d] + 1
      BY <2>1, <1>3 DEF InBudget, Busy
    <3> QED BY <3>1, <1>2, Clocks, Amounts
  <2>5. Done(d) => phase # "sleep"
    BY DEF Done
  <2>6. (eng[d] = "held" /\ Paused(d) =>
           IF Done(d) THEN still[d] <= IdleBound + lag ELSE still[d] <= HeldBound + SincePoll)'
    <3> SUFFICES ASSUME eng[d] = "held", Paused(d)
                 PROVE  IF Done(d) THEN still'[d] <= IdleBound + lag'
                        ELSE still'[d] <= HeldBound + SincePoll'
      BY <1>1
    <3>1. IF Done(d) THEN still[d] <= IdleBound + lag ELSE still[d] <= HeldBound + SincePoll
      BY <2>1 DEF InBudget
    <3> QED BY <3>1, <2>5, <1>2, <1>4, Clocks, Amounts
  <2>7. (eng[d] = "idle" /\ job = "none" =>
           IF Done(d) THEN still[d] <= lag ELSE still[d] <= PollTime + SincePoll)'
    <3> SUFFICES ASSUME eng[d] = "idle", job = "none"
                 PROVE  IF Done(d) THEN still'[d] <= lag'
                        ELSE still'[d] <= PollTime + SincePoll'
      BY <1>1
    <3>1. IF Done(d) THEN still[d] <= lag ELSE still[d] <= PollTime + SincePoll
      BY <2>1 DEF InBudget
    <3> QED BY <3>1, <2>5, <1>2, <1>4, Clocks, Amounts
  <2>8. InBudget(d)'
    BY <2>2, <2>3, <2>4, <2>6, <2>7 DEF InBudget
  <2> QED BY <2>8, <1>1, <1>7 DEF Bounded
<1> QED BY <1>5, <1>6, <1>7

LEMMA NextStill == WatchTypeOK /\ QuietInv /\ StillInv /\ [WatchNext]_watchVars => StillInv'
<1> SUFFICES ASSUME WatchTypeOK, QuietInv, StillInv, [WatchNext]_watchVars PROVE StillInv'
  OBVIOUS
<1>1. CASE UNCHANGED watchVars
  BY <1>1, StillUntouched DEF watchVars, workerVars, holdVars, pollVars, stateVars
<1>2. ASSUME NEW d \in Cards, Weather(d) PROVE StillInv'
  BY <1>2, StillUntouched DEF Weather, workerVars, pollVars, stateVars
<1>3. ASSUME NEW kind \in {"usable", "unusable"}, PoolSends(kind) PROVE StillInv'
  BY <1>3, StillPool
<1>4. ASSUME NEW d \in Cards, Resumes(d) \/ Retries(d) \/ GetsStuck(d) PROVE StillInv'
  BY <1>4, StillWorker
<1>5. ASSUME NEW d \in Cards, Completes(d) PROVE StillInv'
  BY <1>5, StillCompletes
<1>6. CASE Poll
  BY <1>6, StillSampled, StillJudges, StillWaits DEF Poll
<1> QED BY <1>1, <1>2, <1>3, <1>4, <1>5, <1>6, StillPauses, StillTicks DEF WatchNext

(* Overdue is beyond every budget. *)
LEMMA NeverOverdue ==
  ASSUME WatchTypeOK, QuietInv, StillInv, ReportsHung
  PROVE  explained[at]
<1> SUFFICES ASSUME ~explained[at] PROVE FALSE
  OBVIOUS
<1>1. at \in Cards /\ at \in Int
  BY Amounts DEF WatchTypeOK
<1>2. StandsStill /\ ~Excused(at) /\ still[at] - lag >= Stall /\ seen[at]
  BY DEF ReportsHung, Overdue, StandsStill
<1>3. Settled(at, still[at]) /\ job # "none" /\ ~Paused(at)
  BY <1>1, <1>2, ActiveSettled DEF StillInv
<1>4. eng[at] \in {"idle", "solve", "held"} /\ job = "usable"
  BY <1>1, <1>3 DEF WatchTypeOK, QuietInv, Innocent
<1>5. still[at] <= SolveBound + SinceSample
  BY <1>1, <1>3, <1>4, Clocks, Amounts DEF Settled
<1>6. SinceSample = PollTime + lag
  BY <1>2 DEF SinceSample, StandsStill
<1>7. still[at] - lag <= SolveBound + PollTime
  BY <1>1, <1>5, <1>6, Clocks, Amounts
<1>8. SolveBound + PollTime = 2 * (Interval + Late) + 7 * PollTime + 3 * SolveTime
  BY <1>1, Clocks, Amounts
<1> QED BY <1>1, <1>2, <1>7, <1>8, Clocks, SupervisionAssumption DEF SupervisionAssumption

\* The watchdog reports no card that is well: not one that was paused, for heat or by the
\* user, not one resumed a moment ago, and not one that waited while another card's
\* script ran.
THEOREM HealthyCardsAreNotReported == WatchSpec => NoHealthyCardReported
<1>1. ASSUME WatchTypeOK, QuietInv, StillInv, [WatchNext]_watchVars,
             NEW d \in Cards, ~hung[d], hung'[d]
      PROVE  explained[d]
  <2>1. ASSUME hung' = hung PROVE FALSE
    BY <2>1, <1>1
  <2>2. ~SeesProgress
    BY <1>1 DEF WatchTypeOK, SeesProgress
  <2>3. ReportsHung
    BY <1>1, <2>1, <2>2
    DEF WatchNext, Poll, watchVars, stateVars, PoolSends, Resumes, Completes, Retries, GetsStuck,
        Weather, PressKey, ThermalCheck, SampleCounts, ReadNow, AskMining, HoldsClock,
        Waits, ScriptEnds, Tick
  <2>4. d = at
    BY <1>1, <2>3 DEF WatchTypeOK, ReportsHung
  <2> QED BY <1>1, <2>3, <2>4, NeverOverdue
<1>2. WatchTypeOK /\ QuietInv /\ StillInv /\ [WatchNext]_watchVars
        => [\A d \in Cards : ~hung[d] /\ hung'[d] => explained[d]]_watchVars
  BY <1>1
<1> QED BY <1>2, InitType, InitStill, NextType, NextQuiet, NextStill, PTL
        DEF WatchSpec, NoHealthyCardReported
=============================================================================
