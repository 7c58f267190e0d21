------------------------ MODULE StratumClientProofs ------------------------
(***************************************************************************)
(* Theorems about StratumClient, for every failover list, every set of     *)
(* prefix-assigning pools, every redial limit and line bound.              *)
(***************************************************************************)
EXTENDS StratumClient, TLAPS

Some == Lines \cup Works

LEMMA NothingIsNoLine == \A x \in Some : x # Nothing
<1> SUFFICES ASSUME NEW x \in Some, x = Nothing PROVE FALSE
  OBVIOUS
<1>1. DOMAIN x = {"kind", "from"} \/ DOMAIN x = {"kind", "from", "prefix"}
  BY DEF Some, Lines, Works
<1>2. DOMAIN Nothing = {"none"}
  BY DEF Nothing
<1> QED BY <1>1, <1>2

-----------------------------------------------------------------------------
(* Types.                                                                  *)

LEMMA InitType == Init => TypeOK
<1> SUFFICES ASSUME Init PROVE TypeOK
  OBVIOUS
<1>1. 1 \in Pools
  BY StratumAssumption DEF StratumAssumption, Pools
<1>2. conn \in Connections
  BY <1>1 DEF Init, Connections, Parity
<1>3. failures \in 0 .. Redials - 1 /\ missed \in 0 .. Redials
  BY StratumAssumption DEF StratumAssumption, Init
<1>4. rx \in Seq(Lines)
  BY DEF Init
<1> QED BY <1>1, <1>2, <1>3, <1>4 DEF Init, TypeOK, PCs

LEMMA FailureType ==
  ASSUME TypeOK, RedialFailed
  PROVE  /\ pool' \in Pools /\ key' \in Pools
         /\ failures' \in 0 .. Redials - 1 /\ missed' \in 0 .. Redials
         /\ pc' \in {"top", "sleep"}
<1> USE StratumAssumption DEF StratumAssumption, TypeOK
<1>1. CASE Booting
  BY <1>1 DEF RedialFailed, Goto, poolVars
<1>2. CASE ~Booting
  <2>1. NextPool \in Pools /\ NextKey \in Pools
    BY DEF NextPool, NextKey, Pools
  <2>2. pool' \in Pools /\ key' \in Pools
    BY <1>2, <2>1 DEF RedialFailed
  <2>3. failures' \in 0 .. Redials - 1 /\ missed' \in 0 .. Redials
    BY <1>2 DEF RedialFailed, Rotates
  <2> QED BY <1>2, <2>2, <2>3 DEF RedialFailed, AfterFailure, Goto
<1> QED BY <1>1, <1>2

LEMMA CloseType ==
  ASSUME TypeOK, Close
  PROVE  /\ open' = FALSE /\ rx' = << >> /\ rx' \in Seq(Lines)
         /\ conn' \in Connections /\ broken' \in BOOLEAN /\ loggedIn' \in BOOLEAN
         /\ replied' \in BOOLEAN
BY DEF Close, LeftOver, TypeOK

\* run() handles a line only after it read one.
HandlingInv == pc = "handle" => line \in Lines

LEMMA NextType == TypeOK /\ HandlingInv /\ [Next]_vars => TypeOK'
<1> SUFFICES ASSUME TypeOK, HandlingInv, [Next]_vars PROVE TypeOK'
  OBVIOUS
<1> USE DEF TypeOK, socketVars, poolVars, solverVars, Goto
<1>1. CASE UNCHANGED vars
  BY <1>1 DEF vars

<1>2. CASE Top \/ HandshakeDone \/ NotifyDrop \/ Wake
  <2>1. CASE Top
    BY <2>1 DEF Top, PCs
  <2>2. CASE HandshakeDone
    BY <2>2 DEF HandshakeDone, PCs
  <2>3. CASE NotifyDrop
    BY <2>3 DEF NotifyDrop, PCs
  <2>4. CASE Wake
    BY <2>4 DEF Wake, PCs
  <2> QED BY <1>2, <2>1, <2>2, <2>3, <2>4
<1>3. CASE DialRefused
  <2>1. open' = FALSE /\ rx' = << >> /\ rx' \in Seq(Lines)
    BY <1>3 DEF DialRefused, LeftOver
  <2>2. CASE Booting
    BY <1>3, <2>1, <2>2 DEF DialRefused, PCs
  <2>3. CASE ~Booting
    <3>1. RedialFailed
      BY <1>3, <2>3 DEF DialRefused
    <3> QED BY <1>3, <2>1, <3>1, FailureType DEF DialRefused, PCs
  <2> QED BY <2>2, <2>3
<1>4. CASE DialOpens
  <2>1. conn' \in Connections
    BY <1>4 DEF DialOpens, Connections, Parity
  <2>2. rx' \in Seq(Lines)
    BY <1>4 DEF DialOpens, LeftOver
  <2> QED BY <1>4, <2>1, <2>2 DEF DialOpens, PCs
<1>5. CASE HandshakeFails
  <2>1. Close
    BY <1>5 DEF HandshakeFails
  <2>2. CASE Booting
    BY <1>5, <2>1, <2>2, CloseType DEF HandshakeFails, Close, PCs
  <2>3. CASE ~Booting
    <3>1. RedialFailed
      BY <1>5, <2>3 DEF HandshakeFails
    <3>2. /\ pool' \in Pools /\ key' \in Pools
          /\ failures' \in 0 .. Redials - 1 /\ missed' \in 0 .. Redials
          /\ pc' \in PCs
      BY <3>1, FailureType DEF PCs
    <3>3. open' \in BOOLEAN /\ conn' \in Connections /\ broken' \in BOOLEAN
          /\ loggedIn' \in BOOLEAN /\ replied' \in BOOLEAN /\ rx' \in Seq(Lines)
      BY <2>1, CloseType
    <3> QED BY <1>5, <3>2, <3>3 DEF HandshakeFails
  <2> QED BY <2>2, <2>3
<1>6. CASE LoginWritten
  BY <1>6 DEF LoginWritten, PCs
<1>7. CASE LoginFails
  <2>1. RedialFailed /\ Close
    BY <1>7 DEF LoginFails
  <2>2. /\ pool' \in Pools /\ key' \in Pools
        /\ failures' \in 0 .. Redials - 1 /\ missed' \in 0 .. Redials
        /\ pc' \in PCs
    BY <2>1, FailureType DEF PCs
  <2>3. open' \in BOOLEAN /\ conn' \in Connections /\ broken' \in BOOLEAN
        /\ loggedIn' \in BOOLEAN /\ replied' \in BOOLEAN /\ rx' \in Seq(Lines)
    BY <2>1, CloseType
  <2> QED BY <1>7, <2>2, <2>3 DEF LoginFails
<1>8. CASE Redialed
  BY <1>8, StratumAssumption DEF StratumAssumption, Redialed, Tally, PCs
<1>9. CASE RedialLost
  BY <1>9, FailureType DEF RedialLost, PCs
<1>10. CASE RecvLine
  <2>1. line' \in Lines /\ rx' \in Seq(Lines)
    BY <1>10 DEF RecvLine
  <2> QED BY <1>10, <2>1 DEF RecvLine, PCs
<1>11. CASE RecvFails
  BY <1>11, CloseType DEF RecvFails, Close, PCs
<1>12. CASE Handle
  <2>1. line \in Lines /\ line.from \in Connections
    BY <1>12 DEF Handle, HandlingInv, Lines
  <2>2. prefix' \in Connections \cup {NoPrefix}
    BY <1>12, <2>1 DEF Handle, Assigned
  <2>3. line.kind \in Jobs =>
          [kind |-> line.kind, from |-> line.from, prefix |-> prefix] \in Works
    BY <2>1 DEF Works
  <2>4. work' \in Works \cup {Nothing}
    BY <1>12, <2>3 DEF Handle
  <2> QED BY <1>12, <2>2, <2>4 DEF Handle, PCs
<1>13. CASE Solver
  <2>1. CASE Find
    BY <2>1 DEF Find
  <2>2. CASE SubmitLost
    BY <2>2 DEF SubmitLost
  <2>3. CASE SubmitWritten
    BY <2>3 DEF SubmitWritten
  <2>4. CASE SubmitFails
    BY <2>4, CloseType DEF SubmitFails, Close
  <2> QED BY <1>13, <2>1, <2>2, <2>3, <2>4 DEF Solver
<1>14. CASE PoolReplies
  <2>1. rx' \in Seq(Lines)
    BY <1>14 DEF PoolReplies, Lines
  <2> QED BY <1>14, <2>1 DEF PoolReplies
<1>15. ASSUME NEW kind \in Jobs \cup {"other"}, PoolSends(kind) PROVE TypeOK'
  <2>1. rx' \in Seq(Lines)
    BY <1>15 DEF PoolSends, Lines, Jobs
  <2> QED BY <1>15, <2>1 DEF PoolSends
<1>16. ASSUME NEW p \in Pools, PoolGoesDown(p) \/ PoolComesUp(p) PROVE TypeOK'
  BY <1>16 DEF PoolGoesDown, PoolComesUp
<1> QED BY <1>1, <1>2, <1>3, <1>4, <1>5, <1>6, <1>7, <1>8, <1>9, <1>10, <1>11, <1>12,
           <1>13, <1>14, <1>15, <1>16 DEF Next, Run, Network

-----------------------------------------------------------------------------
(* Where run() is: a closed socket while it dials, sleeps or reports, a      *)
(* logged-in connection while it reads; a line in hand while it handles one. *)

PlaceInv ==
  /\ pc \in {"bootDial", "dial", "closed", "sleep"} => ~open
  /\ pc \in {"recv", "handle", "closed"} => established
  /\ pc = "top" /\ open => established
  /\ HandlingInv

LEMMA FailurePlace == RedialFailed => pc' = IF Booting THEN "top" ELSE "sleep"
BY DEF RedialFailed, AfterFailure, Goto

LEMMA NextPlace == TypeOK /\ PlaceInv /\ [Next]_vars => PlaceInv'
<1> SUFFICES ASSUME TypeOK, PlaceInv, [Next]_vars PROVE PlaceInv'
  OBVIOUS
<1> USE DEF TypeOK, PlaceInv, HandlingInv, socketVars, poolVars, solverVars, Goto
<1>1. CASE UNCHANGED vars
  BY <1>1 DEF vars
<1>2. CASE Top
  BY <1>2 DEF Top
<1>3. CASE DialRefused
  BY <1>3, FailurePlace DEF DialRefused, LeftOver, Booting
<1>4. CASE DialOpens
  BY <1>4 DEF DialOpens, LeftOver, Booting
<1>5. CASE HandshakeDone
  BY <1>5 DEF HandshakeDone, Booting
<1>6. CASE HandshakeFails
  BY <1>6, FailurePlace DEF HandshakeFails, Close, LeftOver, Booting
<1>7. CASE LoginWritten
  BY <1>7 DEF LoginWritten, Booting
<1>8. CASE LoginFails
  BY <1>8, FailurePlace DEF LoginFails, Close, LeftOver, Booting
<1>9. CASE Redialed
  BY <1>9 DEF Redialed, Tally
<1>10. CASE RedialLost
  BY <1>10, FailurePlace DEF RedialLost, Booting
<1>11. CASE RecvLine
  BY <1>11 DEF RecvLine
<1>12. CASE RecvFails
  BY <1>12 DEF RecvFails, Close, LeftOver
<1>13. CASE Handle
  BY <1>13 DEF Handle, Assigned
<1>14. CASE NotifyDrop
  BY <1>14 DEF NotifyDrop
<1>15. CASE Wake
  BY <1>15 DEF Wake
<1>16. CASE Find \/ SubmitLost \/ SubmitWritten
  BY <1>16 DEF Find, SubmitLost, SubmitWritten
<1>17. CASE SubmitFails
  BY <1>17 DEF SubmitFails, Close, LeftOver
<1>18. CASE PoolReplies
  BY <1>18 DEF PoolReplies
<1>19. ASSUME NEW kind \in Jobs \cup {"other"}, PoolSends(kind) PROVE PlaceInv'
  BY <1>19 DEF PoolSends
<1>20. ASSUME NEW p \in Pools, PoolGoesDown(p) \/ PoolComesUp(p) PROVE PlaceInv'
  BY <1>20 DEF PoolGoesDown, PoolComesUp
<1> QED BY <1>1, <1>2, <1>3, <1>4, <1>5, <1>6, <1>7, <1>8, <1>9, <1>10, <1>11, <1>12,
           <1>13, <1>14, <1>15, <1>16, <1>17, <1>18, <1>19, <1>20
        DEF Next, Run, Solver, Network

LEMMA TypeAndPlace == Spec => [](TypeOK /\ PlaceInv)
<1>1. Init => PlaceInv
  BY DEF Init, PlaceInv, HandlingInv
<1>2. PlaceInv => HandlingInv
  BY DEF PlaceInv
<1> QED BY InitType, NextType, NextPlace, <1>1, <1>2, PTL DEF Spec

\* Type correctness of the client, the transport, the wire and the solver threads.
THEOREM TypeCorrect == Spec => []TypeOK
BY TypeAndPlace, PTL

\* on_disconnect fires only for a connection that logged in and was not reported:
\* at most once per connection, never for a failed redial (Client::run).
THEOREM DropsReportedOnce == Spec => DropReportedOnce
<1>1. PlaceInv /\ [Next]_vars => [pc = "closed" /\ pc' # "closed" => established]_vars
  BY DEF PlaceInv, vars
<1> QED BY <1>1, TypeAndPlace, PTL DEF Spec, DropReportedOnce

-----------------------------------------------------------------------------
(* The pool dialled, the credentials held and the failures counted.          *)

LinkInv ==
  /\ key = pool
  /\ open => conn.pool = pool
  /\ missed = failures

LEMMA FailureLink ==
  TypeOK /\ LinkInv /\ RedialFailed => key' = pool' /\ missed' = failures'
BY StratumAssumption DEF StratumAssumption, TypeOK, LinkInv, RedialFailed, NextKey, poolVars

LEMMA NextLink == TypeOK /\ PlaceInv /\ LinkInv /\ [Next]_vars => LinkInv'
<1> SUFFICES ASSUME TypeOK, PlaceInv, LinkInv, [Next]_vars PROVE LinkInv'
  OBVIOUS
<1> USE DEF LinkInv, socketVars, poolVars, solverVars
<1>1. CASE UNCHANGED vars
  BY <1>1 DEF vars
<1>2. CASE Top
  BY <1>2 DEF Top
<1>3. CASE DialRefused
  BY <1>3, FailureLink DEF DialRefused, LeftOver, Booting
<1>4. CASE DialOpens
  BY <1>4 DEF DialOpens, LeftOver, Booting, TypeOK, Connections
<1>5. CASE HandshakeDone
  BY <1>5 DEF HandshakeDone, Booting
<1>6. CASE HandshakeFails
  BY <1>6, FailureLink DEF HandshakeFails, Close, LeftOver, Booting
<1>7. CASE LoginWritten
  BY <1>7 DEF LoginWritten, Booting
<1>8. CASE LoginFails
  BY <1>8, FailureLink DEF LoginFails, Close, LeftOver, Booting
<1>9. CASE Redialed
  BY <1>9 DEF Redialed, Tally
<1>10. CASE RedialLost
  BY <1>10, FailureLink DEF RedialLost, Booting
<1>11. CASE RecvLine
  BY <1>11 DEF RecvLine
<1>12. CASE RecvFails
  BY <1>12 DEF RecvFails, Close, LeftOver
<1>13. CASE Handle
  BY <1>13 DEF Handle, Assigned
<1>14. CASE NotifyDrop
  BY <1>14 DEF NotifyDrop
<1>15. CASE Wake
  BY <1>15 DEF Wake
<1>16. CASE Find \/ SubmitLost \/ SubmitWritten
  BY <1>16 DEF Find, SubmitLost, SubmitWritten
<1>17. CASE SubmitFails
  BY <1>17 DEF SubmitFails, Close, LeftOver
<1>18. CASE PoolReplies
  BY <1>18 DEF PoolReplies
<1>19. ASSUME NEW kind \in Jobs \cup {"other"}, PoolSends(kind) PROVE LinkInv'
  BY <1>19 DEF PoolSends
<1>20. ASSUME NEW p \in Pools, PoolGoesDown(p) \/ PoolComesUp(p) PROVE LinkInv'
  BY <1>20 DEF PoolGoesDown, PoolComesUp
<1> QED BY <1>1, <1>2, <1>3, <1>4, <1>5, <1>6, <1>7, <1>8, <1>9, <1>10, <1>11, <1>12,
           <1>13, <1>14, <1>15, <1>16, <1>17, <1>18, <1>19, <1>20
        DEF Next, Run, Solver, Network

LEMMA LinkHolds == Spec => []LinkInv
<1>1. Init => LinkInv
  BY DEF Init, LinkInv
<1> QED BY <1>1, NextLink, TypeAndPlace, PTL DEF Spec

\* Every login goes out with the credentials of the pool it goes to (advance_pool).
LEMMA LoginsMatchPools == Spec => []LoginMatchesPool
<1>1. LinkInv => LoginMatchesPool
  BY DEF LinkInv, LoginMatchesPool
<1> QED BY <1>1, LinkHolds, PTL

LEMMA FailoverStep ==
  TypeOK /\ LinkInv /\ [Next]_vars => [pool' # pool => missed + 1 >= Redials]_vars
<1> SUFFICES ASSUME TypeOK, LinkInv, Next, pool' # pool PROVE missed + 1 >= Redials
  BY DEF vars
<1>1. ASSUME RedialFailed PROVE missed + 1 >= Redials
  BY <1>1 DEF RedialFailed, LinkInv, Rotates, poolVars
<1>2. CASE Run
  BY <1>1, <1>2 DEF Run, Top, DialRefused, DialOpens, HandshakeDone, HandshakeFails,
     LoginWritten, LoginFails, Redialed, RedialLost, RecvLine, RecvFails, Handle,
     NotifyDrop, Wake, poolVars
<1>3. CASE Solver
  BY <1>3 DEF Solver, Find, SubmitLost, SubmitWritten, SubmitFails, poolVars
<1>4. CASE Network
  BY <1>4 DEF Network, PoolReplies, PoolSends, PoolGoesDown, PoolComesUp, poolVars
<1> QED BY <1>2, <1>3, <1>4 DEF Next

\* run() leaves a pool only after Redials dials of it failed in a row.
THEOREM FailoverIsNeverHasty == Spec => NoHastyFailover
BY FailoverStep, TypeAndPlace, LinkHolds, PTL DEF Spec, NoHastyFailover

-----------------------------------------------------------------------------
(* The wire: only lines of the connection that is open are on it.            *)

WireInv ==
  /\ \A i \in 1 .. Len(rx) : rx[i].from = conn
  /\ ~open => rx = << >>
  /\ pc = "handle" => line.from = conn

LEMMA NextWire == TypeOK /\ PlaceInv /\ WireInv /\ [Next]_vars => WireInv'
<1> SUFFICES ASSUME TypeOK, PlaceInv, WireInv, [Next]_vars PROVE WireInv'
  OBVIOUS
<1> USE DEF WireInv, TypeOK, socketVars, poolVars, solverVars, Goto
<1>1. CASE UNCHANGED vars
  BY <1>1 DEF vars
<1>2. CASE Top
  BY <1>2 DEF Top
<1>3. CASE DialRefused
  BY <1>3, FailurePlace DEF DialRefused, LeftOver, Booting
<1>4. CASE DialOpens
  BY <1>4 DEF DialOpens, LeftOver, Booting
<1>5. CASE HandshakeDone
  BY <1>5 DEF HandshakeDone, Booting
<1>6. CASE HandshakeFails
  BY <1>6, FailurePlace DEF HandshakeFails, Close, LeftOver, Booting
<1>7. CASE LoginWritten
  BY <1>7 DEF LoginWritten, Booting
<1>8. CASE LoginFails
  BY <1>8, FailurePlace DEF LoginFails, Close, LeftOver, Booting
<1>9. CASE Redialed
  BY <1>9 DEF Redialed, Tally
<1>10. CASE RedialLost
  BY <1>10, FailurePlace DEF RedialLost, Booting
<1>11. CASE RecvLine
  BY <1>11 DEF RecvLine
<1>12. CASE RecvFails
  BY <1>12 DEF RecvFails, Close, LeftOver
<1>13. CASE Handle
  BY <1>13 DEF Handle, Assigned
<1>14. CASE NotifyDrop
  BY <1>14 DEF NotifyDrop
<1>15. CASE Wake
  BY <1>15 DEF Wake
<1>16. CASE Find \/ SubmitLost \/ SubmitWritten
  BY <1>16 DEF Find, SubmitLost, SubmitWritten
<1>17. CASE SubmitFails
  BY <1>17 DEF SubmitFails, Close, LeftOver
<1>18. CASE PoolReplies
  BY <1>18 DEF PoolReplies
<1>19. ASSUME NEW kind \in Jobs \cup {"other"}, PoolSends(kind) PROVE WireInv'
  BY <1>19 DEF PoolSends
<1>20. ASSUME NEW p \in Pools, PoolGoesDown(p) \/ PoolComesUp(p) PROVE WireInv'
  BY <1>20 DEF PoolGoesDown, PoolComesUp
<1> QED BY <1>1, <1>2, <1>3, <1>4, <1>5, <1>6, <1>7, <1>8, <1>9, <1>10, <1>11, <1>12,
           <1>13, <1>14, <1>15, <1>16, <1>17, <1>18, <1>19, <1>20
        DEF Next, Run, Solver, Network

LEMMA WireHolds == Spec => []WireInv
<1>1. Init => WireInv
  BY DEF Init, WireInv
<1> QED BY <1>1, NextWire, TypeAndPlace, PTL DEF Spec

\* No line of an earlier connection is ever handled (Transport::close, connect).
LEMMA LinesAreFresh == Spec => []LinesAreOfThisConnection
<1>1. WireInv => LinesAreOfThisConnection
  BY DEF WireInv, LinesAreOfThisConnection
<1> QED BY <1>1, WireHolds, PTL

\* However often the client drops, redials and rotates, a login is for the pool it is
\* sent to and a line is handled as coming from the connection it came over.
THEOREM ConnectionsAreApart == Spec => []ConnectionsStayApart
<1>1. LoginMatchesPool /\ LinesAreOfThisConnection => ConnectionsStayApart
  BY DEF ConnectionsStayApart
<1> QED BY <1>1, LoginsMatchPools, LinesAreFresh, PTL

-----------------------------------------------------------------------------
(* The prefix: on a connection to an assigning pool the reply is ahead of    *)
(* every job sent after it, or has been handled and its prefix is held.      *)

ReplyAhead(i) ==
  \/ prefix = conn
  \/ pc = "handle" /\ line.kind = "reply"
  \/ \E j \in 1 .. i - 1 : rx[j].kind = "reply"

PrefixInv ==
  /\ JobsCarryTheirPrefix
  /\ conn.pool \in Assigning =>
       \A i \in 1 .. Len(rx) : rx[i].kind = "job" => ReplyAhead(i)
  /\ conn.pool \in Assigning /\ open /\ replied => ReplyAhead(Len(rx) + 1)
  /\ pc = "handle" /\ line.kind = "job" /\ conn.pool \in Assigning => prefix = conn

LEMMA NextPrefix ==
  TypeOK /\ PlaceInv /\ WireInv /\ PrefixInv /\ [Next]_vars => PrefixInv'
<1> SUFFICES ASSUME TypeOK, PlaceInv, WireInv, PrefixInv, [Next]_vars PROVE PrefixInv'
  OBVIOUS
<1> USE DEF PrefixInv, ReplyAhead, JobsCarryTheirPrefix, WireInv, TypeOK, socketVars,
            poolVars, solverVars, Goto
<1>1. CASE UNCHANGED vars
  BY <1>1 DEF vars
<1>2. CASE Top
  BY <1>2 DEF Top
<1>3. CASE DialRefused
  BY <1>3, FailurePlace DEF DialRefused, LeftOver, Booting
<1>4. CASE DialOpens
  BY <1>4 DEF DialOpens, LeftOver, Booting
<1>5. CASE HandshakeDone
  BY <1>5 DEF HandshakeDone, Booting
<1>6. CASE HandshakeFails
  BY <1>6, FailurePlace DEF HandshakeFails, Close, LeftOver, Booting
<1>7. CASE LoginWritten
  BY <1>7 DEF LoginWritten, Booting
<1>8. CASE LoginFails
  BY <1>8, FailurePlace DEF LoginFails, Close, LeftOver, Booting
<1>9. CASE Redialed
  BY <1>9 DEF Redialed, Tally
<1>10. CASE RedialLost
  BY <1>10, FailurePlace DEF RedialLost, Booting
<1>11. CASE RecvLine
  <2>1. rx # << >> /\ line' = rx[1] /\ rx' = Tail(rx) /\ UNCHANGED <<prefix, conn, work>>
    BY <1>11 DEF RecvLine
  <2>2. Len(rx') = Len(rx) - 1 /\ \A i \in 1 .. Len(rx') : rx'[i] = rx[i + 1]
    BY <2>1
  <2>3. Len(rx) \in Nat /\ Len(rx) >= 1 /\ pc = "recv" /\ pc' = "handle"
    BY <1>11, <2>1 DEF RecvLine
  <2>4. ASSUME rx[1].kind # "reply", NEW i \in 1 .. Len(rx) + 1, i > 1, ReplyAhead(i)
        PROVE  ReplyAhead(i - 1)'
    <3>1. CASE prefix = conn
      BY <2>1, <3>1 DEF ReplyAhead
    <3>2. CASE \E j \in 1 .. i - 1 : rx[j].kind = "reply"
      <4>1. PICK j \in 1 .. i - 1 : rx[j].kind = "reply"
        BY <3>2
      <4>2. j - 1 \in 1 .. Len(rx') /\ j - 1 \in 1 .. (i - 1) - 1
        BY <2>2, <2>3, <2>4, <4>1
      <4>3. rx'[j - 1].kind = "reply"
        BY <2>2, <4>1, <4>2
      <4> QED BY <4>2, <4>3 DEF ReplyAhead
    <3>3. prefix = conn \/ \E j \in 1 .. i - 1 : rx[j].kind = "reply"
      BY <2>3, <2>4 DEF ReplyAhead
    <3> QED BY <3>1, <3>2, <3>3
  <2>5. rx[1].kind = "reply" => \A i : ReplyAhead(i)'
    BY <2>1, <2>3 DEF ReplyAhead
  <2>6. conn.pool \in Assigning =>
          \A i \in 1 .. Len(rx') : rx'[i].kind = "job" => ReplyAhead(i)'
    <3> SUFFICES ASSUME conn.pool \in Assigning, NEW i \in 1 .. Len(rx'),
                        rx'[i].kind = "job", rx[1].kind # "reply"
                 PROVE  ReplyAhead(i)'
      BY <2>5
    <3>1. i + 1 \in 1 .. Len(rx) + 1 /\ i + 1 > 1 /\ i + 1 \in 1 .. Len(rx)
      BY <2>2, <2>3
    <3>2. ReplyAhead(i + 1)
      BY <2>2, <3>1 DEF PrefixInv
    <3>3. ReplyAhead((i + 1) - 1)'
      BY <2>4, <3>1, <3>2
    <3> QED BY <3>3
  <2>7. conn.pool \in Assigning /\ open /\ replied => ReplyAhead(Len(rx) + 1)'
    <3> SUFFICES ASSUME conn.pool \in Assigning, open, replied, rx[1].kind # "reply"
                 PROVE  ReplyAhead(Len(rx) + 1)'
      BY <2>5
    <3>1. PICK n \in Nat : n = Len(rx) + 1
      BY <2>3
    <3>2. ReplyAhead(n) /\ n \in 1 .. Len(rx) + 1 /\ n > 1
      BY <2>3, <3>1 DEF PrefixInv
    <3>3. ReplyAhead(n - 1)'
      BY <2>4, <3>2
    <3>4. n - 1 = Len(rx') + 1
      BY <2>2, <2>3, <3>1
    <3> QED BY <3>3, <3>4 DEF ReplyAhead
  <2>8. rx[1].kind = "job" /\ conn.pool \in Assigning => prefix = conn
    BY <2>3 DEF PrefixInv, ReplyAhead
  <2> QED BY <1>11, <2>1, <2>6, <2>7, <2>8 DEF RecvLine, PrefixInv, JobsCarryTheirPrefix
<1>12. CASE RecvFails
  BY <1>12 DEF RecvFails, Close, LeftOver
<1>13. CASE Handle
  BY <1>13 DEF Handle, Assigned, Jobs
<1>14. CASE NotifyDrop
  BY <1>14 DEF NotifyDrop
<1>15. CASE Wake
  BY <1>15 DEF Wake
<1>16. CASE Find \/ SubmitLost \/ SubmitWritten
  BY <1>16 DEF Find, SubmitLost, SubmitWritten
<1>17. CASE SubmitFails
  BY <1>17 DEF SubmitFails, Close, LeftOver
<1>18. CASE PoolReplies
  BY <1>18 DEF PoolReplies
<1>19. ASSUME NEW kind \in Jobs \cup {"other"}, PoolSends(kind) PROVE PrefixInv'
  BY <1>19 DEF PoolSends, Jobs
<1>20. ASSUME NEW p \in Pools, PoolGoesDown(p) \/ PoolComesUp(p) PROVE PrefixInv'
  BY <1>20 DEF PoolGoesDown, PoolComesUp
<1> QED BY <1>1, <1>2, <1>3, <1>4, <1>5, <1>6, <1>7, <1>8, <1>9, <1>10, <1>11, <1>12,
           <1>13, <1>14, <1>15, <1>16, <1>17, <1>18, <1>19, <1>20
        DEF Next, Run, Solver, Network

LEMMA PrefixHolds == Spec => []PrefixInv
<1>1. Init => PrefixInv
  BY DEF Init, PrefixInv, JobsCarryTheirPrefix
<1> QED BY <1>1, NextPrefix, TypeAndPlace, WireHolds, PTL DEF Spec

\* A job that a pool which assigns nonce prefixes sends after its reply to the login is
\* mined under the prefix of the connection it came over, across drops, redials,
\* failovers and jobs that came before a reply (handle_line).
THEOREM PrefixesMatchJobs == Spec => []JobsCarryTheirPrefix
<1>1. PrefixInv => JobsCarryTheirPrefix
  BY DEF PrefixInv
<1> QED BY <1>1, PrefixHolds, PTL
=============================================================================
