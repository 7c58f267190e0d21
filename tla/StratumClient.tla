---------------------------- MODULE StratumClient ----------------------------
(***************************************************************************)
(* A pool connection: src/src/stratum/client.cpp over transport.cpp.       *)
(*                                                                         *)
(* Client::run() dials, logs in, reads lines and redials on a drop; after  *)
(* Redials failed redials in a row it moves to the next pool of the list.  *)
(* Solver threads call submit() on the same transport: write_mutex_ keeps  *)
(* their writes apart from login()'s, but neither dialling nor reading     *)
(* takes it, so a submit may fall between any two steps of run(), and a    *)
(* failed write closes the socket under it.                                *)
(*                                                                         *)
(* A line from the pool is the reply to login (with a nonce prefix, from   *)
(* the pools that assign one), a job, or anything else.  Nothing orders a  *)
(* pool's first job after its reply: a job sent before it is told apart    *)
(* (early), though the client treats all jobs alike.  Connections are told *)
(* apart by a parity that flips with every one that opens, and the prefix  *)
(* a pool assigns is that of the connection.                               *)
(***************************************************************************)
EXTENDS Integers, Sequences

CONSTANTS
  NumPools,   \* length of the failover list
  Assigning,  \* the pools whose login reply carries a nonce prefix
  Redials,    \* kRedialsBeforeFailover
  MaxLines    \* bound: lines on the way from the pool

ASSUME StratumAssumption ==
  /\ NumPools \in Nat \ {0}
  /\ Assigning \subseteq 1 .. NumPools
  /\ Redials \in Nat \ {0}
  /\ MaxLines \in Nat

Pools == 1 .. NumPools
Parity == {0, 1}
Connections == [pool : Pools, parity : Parity]
NoPrefix == [none |-> TRUE]
Nothing == [none |-> TRUE]

\* A job the pool sends after its reply to the login, or before it.
Jobs == {"job", "early"}

Lines == [kind : Jobs \cup {"reply", "other"}, from : Connections]
Works == [kind : Jobs, from : Connections, prefix : Connections \cup {NoPrefix}]

VARIABLES
  up,        \* the pools that answer a dial
  pool,      \* failover_index_, host_, port_, tls_
  key,       \* whose credentials api_key_ holds
  open,      \* fd_ >= 0
  conn,      \* the connection behind fd_, or the last one
  broken,    \* the peer is gone; the next read or write may notice
  loggedIn,  \* login was written to the open connection
  replied,   \* the pool has answered that login
  rx,        \* lines on the way: in the socket and in rxbuf_
  prefix,    \* nonceprefix_
  failures,  \* consecutive_redial_failures_
  pc,        \* where run() is
  line,      \* the line run() is handling
  work,      \* the job the solver threads mine: what on_job handed on last
  found      \* a solution of an earlier or the current job, not yet submitted

\* History.
VARIABLES
  established, \* the last connection logged in, and its drop is not reported yet
  missed       \* dials of the current pool that failed since one succeeded

socketVars == <<open, conn, broken, loggedIn, replied, rx>>
poolVars == <<pool, key, failures>>
solverVars == <<work, found>>
vars == <<up, pool, key, open, conn, broken, loggedIn, replied, rx, prefix, failures,
          pc, line, work, found, established, missed>>

PCs == {"bootDial", "bootHandshake", "bootLogin", "top", "dial", "handshake", "login",
        "check", "recv", "handle", "closed", "sleep"}

TypeOK ==
  /\ up \subseteq Pools
  /\ pool \in Pools
  /\ key \in Pools
  /\ open \in BOOLEAN
  /\ conn \in Connections
  /\ broken \in BOOLEAN
  /\ loggedIn \in BOOLEAN
  /\ replied \in BOOLEAN
  /\ rx \in Seq(Lines)
  /\ prefix \in Connections \cup {NoPrefix}
  /\ failures \in 0 .. Redials - 1
  /\ pc \in PCs
  /\ line \in Lines \cup {Nothing}
  /\ work \in Works \cup {Nothing}
  /\ found \in Works \cup {Nothing}
  /\ established \in BOOLEAN
  /\ missed \in 0 .. Redials

\* main() connects to and logs in at the first pool of the list, then calls run().
Init ==
  /\ up \in SUBSET Pools
  /\ pool = 1
  /\ key = 1
  /\ open = FALSE
  /\ conn = [pool |-> 1, parity |-> 0]
  /\ broken = FALSE
  /\ loggedIn = FALSE
  /\ replied = FALSE
  /\ rx = << >>
  /\ prefix = NoPrefix
  /\ failures = 0
  /\ pc = "bootDial"
  /\ line = Nothing
  /\ work = Nothing
  /\ found = Nothing
  /\ established = FALSE
  /\ missed = 0
-----------------------------------------------------------------------------
(* Pieces of the actions.  An operator whose name ends in _Fault and a word is
   the one below it with a plausible mistake; no action uses it. *)

Goto(next) == pc' = next

Booting == pc \in {"bootDial", "bootHandshake", "bootLogin"}

LeftOver_FaultKept == rx

\* Transport::close() empties the receive buffer, and connect() closes first.
LeftOver == << >>

\* The socket is closed: by run(), or by a failed write of another thread.
Close ==
  /\ open' = FALSE
  /\ rx' = LeftOver
  /\ UNCHANGED <<conn, broken, loggedIn, replied>>

NextPool_FaultNoWrap == IF pool < NumPools THEN pool + 1 ELSE pool

NextPool == IF pool < NumPools THEN pool + 1 ELSE 1

NextKey_FaultKept == key

\* advance_pool() takes the credentials of the pool it moves to.
NextKey == NextPool

Rotates == failures + 1 >= Redials

AfterFailure == "sleep"

\* A redial failed: count it, move on after Redials in a row, sleep a second.
\* The first dial of all, main()'s, is not counted.
RedialFailed ==
  IF Booting
  THEN /\ Goto("top")
       /\ UNCHANGED <<poolVars, missed>>
  ELSE /\ Goto(AfterFailure)
       /\ IF Rotates
          THEN /\ failures' = 0
               /\ missed' = 0
               /\ IF NumPools > 1
                  THEN pool' = NextPool /\ key' = NextKey
                  ELSE UNCHANGED <<pool, key>>
          ELSE /\ failures' = failures + 1
               /\ missed' = IF missed < Redials THEN missed + 1 ELSE missed
               /\ UNCHANGED <<pool, key>>

Tally_FaultKept == failures

\* A redial that got through clears the tally.
Tally == 0
-----------------------------------------------------------------------------
(* Client::run and Transport.                                              *)

\* run()'s loop: redial if the socket is closed, else read.
Top ==
  /\ pc = "top"
  /\ Goto(IF open THEN "recv" ELSE "dial")
  /\ UNCHANGED <<up, socketVars, poolVars, solverVars, prefix, line, established, missed>>

DialRefused ==
  /\ pc \in {"bootDial", "dial"}
  /\ pool \notin up
  /\ IF Booting
     THEN Goto("bootLogin") /\ UNCHANGED <<poolVars, missed>>
     ELSE RedialFailed
  /\ open' = FALSE
  /\ rx' = LeftOver
  /\ UNCHANGED <<up, conn, broken, loggedIn, replied, solverVars, prefix, line, established>>

\* The socket exists from here on; TLS, where used, is still to be agreed.
DialOpens ==
  /\ pc \in {"bootDial", "dial"}
  /\ pool \in up
  /\ open' = TRUE
  /\ conn' = [pool |-> pool, parity |-> 1 - conn.parity]
  /\ broken' = FALSE
  /\ loggedIn' = FALSE
  /\ replied' = FALSE
  /\ rx' = LeftOver
  /\ Goto(IF Booting THEN "bootHandshake" ELSE "handshake")
  /\ UNCHANGED <<up, poolVars, solverVars, prefix, line, established, missed>>

HandshakeDone ==
  /\ pc \in {"bootHandshake", "handshake"}
  /\ open
  /\ Goto(IF Booting THEN "bootLogin" ELSE "login")
  /\ UNCHANGED <<up, socketVars, poolVars, solverVars, prefix, line, established, missed>>

HandshakeFails ==
  /\ pc \in {"bootHandshake", "handshake"}
  /\ broken \/ ~open
  /\ Close
  /\ IF Booting
     THEN Goto("bootLogin") /\ UNCHANGED <<poolVars, missed>>
     ELSE RedialFailed
  /\ UNCHANGED <<up, solverVars, prefix, line, established>>

\* login()'s write reaches the socket; a broken one may still take it.
LoginWritten ==
  /\ pc \in {"bootLogin", "login"}
  /\ open
  /\ loggedIn' = TRUE
  /\ IF Booting THEN Goto("top") /\ established' = TRUE
     ELSE Goto("check") /\ UNCHANGED established
  /\ UNCHANGED <<up, open, conn, broken, replied, rx, poolVars, solverVars, prefix, line,
                 missed>>

LoginFails ==
  /\ pc \in {"bootLogin", "login"}
  /\ broken \/ ~open
  /\ Close
  /\ RedialFailed
  /\ UNCHANGED <<up, solverVars, prefix, line, established>>

\* reconnect_and_login() answers connected().
Redialed ==
  /\ pc = "check"
  /\ open
  /\ failures' = Tally
  /\ missed' = 0
  /\ established' = TRUE
  /\ Goto("top")
  /\ UNCHANGED <<up, socketVars, pool, key, solverVars, prefix, line>>

RedialLost ==
  /\ pc = "check"
  /\ ~open
  /\ RedialFailed
  /\ UNCHANGED <<up, socketVars, solverVars, prefix, line, established>>

RecvLine ==
  /\ pc = "recv"
  /\ open
  /\ rx # << >>
  /\ line' = Head(rx)
  /\ rx' = Tail(rx)
  /\ Goto("handle")
  /\ UNCHANGED <<up, open, conn, broken, loggedIn, replied, poolVars, solverVars, prefix,
                 established, missed>>

RecvFails ==
  /\ pc = "recv"
  /\ broken \/ ~open
  /\ Close
  /\ Goto("closed")
  /\ UNCHANGED <<up, poolVars, solverVars, prefix, line, established, missed>>

Assigned_FaultFirstKept == IF prefix # NoPrefix THEN prefix ELSE line.from

\* handle_line() overwrites nonceprefix_ whenever a reply carries one.
Assigned == line.from

\* handle_line(): a reply may set the prefix; a job goes to the solver threads
\* with the prefix held now; other lines are ignored.
Handle ==
  /\ pc = "handle"
  /\ prefix' = IF line.kind = "reply" /\ line.from.pool \in Assigning
               THEN Assigned ELSE prefix
  /\ work' = IF line.kind \in Jobs
             THEN [kind |-> line.kind, from |-> line.from, prefix |-> prefix] ELSE work
  /\ line' = Nothing
  /\ Goto("top")
  /\ UNCHANGED <<up, socketVars, poolVars, found, established, missed>>

\* A failed read: on_disconnect, then a second's sleep.
NotifyDrop ==
  /\ pc = "closed"
  /\ established' = FALSE
  /\ Goto("sleep")
  /\ UNCHANGED <<up, socketVars, poolVars, solverVars, prefix, line, missed>>

Wake ==
  /\ pc = "sleep"
  /\ Goto("top")
  /\ UNCHANGED <<up, socketVars, poolVars, solverVars, prefix, line, established, missed>>

Run ==
  \/ Top \/ DialRefused \/ DialOpens \/ HandshakeDone \/ HandshakeFails \/ LoginWritten
  \/ LoginFails \/ Redialed \/ RedialLost \/ RecvLine \/ RecvFails \/ Handle
  \/ NotifyDrop \/ Wake
-----------------------------------------------------------------------------
(* The solver threads.                                                     *)

Find ==
  /\ found = Nothing
  /\ work # Nothing
  /\ found' = work
  /\ UNCHANGED <<up, socketVars, poolVars, pc, work, prefix, line, established, missed>>

\* submit() on a closed socket: send_line() returns false, nobody looks.
SubmitLost ==
  /\ found # Nothing
  /\ ~open
  /\ found' = Nothing
  /\ UNCHANGED <<up, socketVars, poolVars, pc, work, prefix, line, established, missed>>

SubmitWritten ==
  /\ found # Nothing
  /\ open
  /\ found' = Nothing
  /\ UNCHANGED <<up, socketVars, poolVars, pc, work, prefix, line, established, missed>>

\* The write fails and closes the transport under run().
SubmitFails ==
  /\ found # Nothing
  /\ open
  /\ broken
  /\ found' = Nothing
  /\ Close
  /\ UNCHANGED <<up, poolVars, pc, work, prefix, line, established, missed>>

Solver == Find \/ SubmitLost \/ SubmitWritten \/ SubmitFails
-----------------------------------------------------------------------------
(* The pools and the network.                                              *)

PoolReplies ==
  /\ open /\ loggedIn /\ ~broken /\ ~replied
  /\ Len(rx) < MaxLines
  /\ rx' = Append(rx, [kind |-> "reply", from |-> conn])
  /\ replied' = TRUE
  /\ UNCHANGED <<up, open, conn, broken, loggedIn, poolVars, pc, solverVars, prefix, line,
                 established, missed>>

\* A pool may send work to a miner that has logged in before it answers the login.
PoolSends(kind) ==
  /\ open /\ loggedIn /\ ~broken
  /\ kind = "job" => replied
  /\ kind = "early" => ~replied
  /\ Len(rx) < MaxLines
  /\ rx' = Append(rx, [kind |-> kind, from |-> conn])
  /\ UNCHANGED <<up, open, conn, broken, loggedIn, replied, poolVars, pc, solverVars,
                 prefix, line, established, missed>>

PoolGoesDown(p) ==
  /\ p \in up
  /\ up' = up \ {p}
  /\ broken' = (broken \/ (open /\ conn.pool = p))
  /\ UNCHANGED <<open, conn, loggedIn, replied, rx, poolVars, pc, solverVars, prefix, line,
                 established, missed>>

PoolComesUp(p) ==
  /\ p \notin up
  /\ up' = up \cup {p}
  /\ UNCHANGED <<socketVars, poolVars, pc, solverVars, prefix, line, established, missed>>

Network ==
  \/ PoolReplies
  \/ \E kind \in Jobs \cup {"other"} : PoolSends(kind)
  \/ \E p \in Pools : PoolGoesDown(p) \/ PoolComesUp(p)

Next == Run \/ Solver \/ Network

Spec == Init /\ [][Next]_vars

\* run()'s thread is not starved, and a connection whose peer is gone fails the
\* read that is parked on it.
FairSpec == Spec /\ WF_vars(Run)
-----------------------------------------------------------------------------
(* Properties.                                                             *)

\* A connection logs in with the credentials of the pool it goes to, whatever
\* rotations came before (advance_pool).
LoginMatchesPool ==
  open /\ pc \in {"bootLogin", "login", "check"} => key = conn.pool

\* run() moves to another pool only after Redials dials of the current one failed
\* with no success between them, however often the connection dropped.
NoHastyFailover == [][pool' # pool => missed + 1 >= Redials]_vars

\* What is handled comes from the connection that is open, never from one before
\* it, unless that connection was closed under the handler by a failed submit.
LinesAreOfThisConnection == pc = "handle" => line.from = conn

\* So no connection is talked to as another: both of these at all times.
ConnectionsStayApart == LoginMatchesPool /\ LinesAreOfThisConnection

\* A job that a pool which assigns prefixes sends after its reply is mined under the
\* prefix of the very connection it came over, across drops and failovers and whatever
\* the prefix was before.  A job sent before the reply is excluded: it is mined under
\* the prefix of the connection before, or none, and is not offered again when the
\* reply comes (handle_line keeps the last prefix, client.cpp:61-63).
JobsCarryTheirPrefix ==
  work # Nothing /\ work.kind = "job" /\ work.from.pool \in Assigning =>
    work.prefix = work.from

\* on_disconnect fires at most once for a connection that logged in, and never for
\* a redial that failed.
DropReportedOnce == [][pc = "closed" /\ pc' # "closed" => established]_vars

\* If from some time on one pool alone answers, the client ends up logged in there.
ReachesTheLivePool ==
  \A p \in Pools :
    <>[](up = {p}) => <>[](open /\ loggedIn /\ conn.pool = p /\ ~broken)

\* client.h: on_disconnect fires "once per established-connection drop": every one
\* is reported before the next dial.
EveryDropReported == pc = "dial" => ~established
=============================================================================
