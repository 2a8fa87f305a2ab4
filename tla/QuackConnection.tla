-------------------------- MODULE QuackConnection --------------------------
(***************************************************************************)
(* One ADBC connection (connectionImpl), the statements executed on it and *)
(* the Quack server session behind it.                                     *)
(*                                                                         *)
(* The driver keeps two booleans, autoCommit and txOpen, and never asks    *)
(* the server what state its transaction is in.  Every call of the         *)
(* application is a short program of SQL requests, sent one at a time and  *)
(* each answered before the next: pc says where in that program the call   *)
(* stands, net holds the one request being sent.  The server is external   *)
(* to the repository and is modelled from the way the driver uses it.      *)
(*                                                                         *)
(* What a statement does is one element of Writes, used once; a bulk       *)
(* ingest or a bound update is a set of them, one request each.            *)
(***************************************************************************)
EXTENDS FiniteSets, Naturals

CONSTANTS
  Writes,     \* the effects statements may have
  NoWrite,    \* placeholder in a request that is not a statement
  Faults,     \* the faults this instance allows, a subset of AllFaults
  MaxBatch,   \* bound: most statements one call may run
  MaxLost     \* bound: most requests on the loose at a time

(***************************************************************************)
(* refused      the server answers ERROR_RESPONSE to what it could do      *)
(* unreachable  Send fails and the server never sees the request           *)
(* lost         Send fails (client timeout, cancelled context, unreadable  *)
(*              reply), but the server may still run the request, any time *)
(* commitEnds   a refused COMMIT ends the server's transaction             *)
(* crash        the server forgets the session                             *)
(***************************************************************************)
AllFaults == {"refused", "unreachable", "lost", "commitEnds", "crash"}

ASSUME ConstantsAssumption ==
  /\ NoWrite \notin Writes
  /\ Faults \subseteq AllFaults
  /\ MaxBatch \in Nat
  /\ MaxLost \in Nat

VARIABLES
  \* the driver
  conn,         \* the connection: "new", "open", "failed" or "closed"
  autoCommit,   \* connectionImpl.autoCommit
  txOpen,       \* connectionImpl.txOpen
  pc,           \* the step of the call in progress, "idle" between calls
  todo,         \* statements the call in progress has not sent yet
  \* the wire
  net,          \* the request being sent and what has become of it
  lost,         \* requests given up on that the server may still run
  \* the server
  srvSession,   \* "none", "live" or "gone"
  srvTx,        \* its transaction: "none", "open" or "aborted"
  pending,      \* effects inside that transaction
  durable,      \* effects committed
  \* history
  fate          \* what the driver has learnt about each statement

client == <<conn, autoCommit, txOpen, pc, todo>>
wire   == <<net, lost>>
server == <<srvSession, srvTx, pending, durable>>
vars   == <<client, wire, server, fate>>

Sql == {"CONNECT", "BEGIN", "STMT", "COMMIT", "ROLLBACK", "DISCONNECT"}
Request == {r \in [sql : Sql, w : Writes \union {NoWrite}] :
              r.sql = "STMT" <=> r.w \in Writes}
Quiet == [at |-> "quiet", sql |-> "CONNECT", w |-> NoWrite]

Fates == {"unused", "issued", "auto", "acked", "failed",
          "committed", "rolledBack"}
Pcs == {"idle", "open", "begin", "stmt", "commit", "rollback", "enable",
        "closeRollback", "disconnect"}

TypeOK ==
  /\ conn \in {"new", "open", "failed", "closed"}
  /\ autoCommit \in BOOLEAN
  /\ txOpen \in BOOLEAN
  /\ pc \in Pcs
  /\ todo \subseteq Writes
  /\ net \in [at : {"quiet", "request", "ok", "error"}, sql : Sql,
              w : Writes \union {NoWrite}]
  /\ net.sql = "STMT" <=> net.w \in Writes
  /\ lost \subseteq Request
  /\ srvSession \in {"none", "live", "gone"}
  /\ srvTx \in {"none", "open", "aborted"}
  /\ pending \subseteq Writes
  /\ durable \subseteq Writes
  /\ fate \in [Writes -> Fates]

Init ==
  /\ conn = "new"
  /\ autoCommit = TRUE
  /\ txOpen = FALSE
  /\ pc = "idle"
  /\ todo = {}
  /\ net = Quiet
  /\ lost = {}
  /\ srvSession = "none"
  /\ srvTx = "none"
  /\ pending = {}
  /\ durable = {}
  /\ fate = [w \in Writes |-> "unused"]
----------------------------------------------------------------------------
(***************************************************************************)
(* The server.  ServerRuns is what a request does when it succeeds,        *)
(* ServerRefuses what it leaves behind when it does not.                   *)
(***************************************************************************)
InTx == srvTx # "none"

CanRun(sql) ==
  CASE sql = "CONNECT"    -> srvSession = "none"
    [] sql = "BEGIN"      -> srvSession = "live" /\ ~InTx
    [] sql = "STMT"       -> srvSession = "live" /\ srvTx # "aborted"
    [] sql = "COMMIT"     -> srvSession = "live" /\ srvTx = "open"
    [] sql = "ROLLBACK"   -> srvSession = "live" /\ InTx
    [] sql = "DISCONNECT" -> srvSession = "live"

ServerRuns(r) ==
  /\ CanRun(r.sql)
  /\ srvSession' = CASE r.sql = "CONNECT"    -> "live"
                     [] r.sql = "DISCONNECT" -> "gone"
                     [] OTHER                -> srvSession
  /\ srvTx' = CASE r.sql = "BEGIN" -> "open"
                [] r.sql \in {"COMMIT", "ROLLBACK", "DISCONNECT"} -> "none"
                [] OTHER -> srvTx
  /\ pending' = CASE r.sql \in {"COMMIT", "ROLLBACK", "DISCONNECT"} -> {}
                  [] r.sql = "STMT" /\ InTx -> pending \union {r.w}
                  [] OTHER -> pending
  /\ durable' = CASE r.sql = "COMMIT" -> durable \union pending
                  [] r.sql = "STMT" /\ ~InTx -> durable \union {r.w}
                  [] OTHER -> durable

ServerRefuses(r) ==
  /\ CanRun(r.sql) => "refused" \in Faults
  /\ UNCHANGED <<srvSession, durable>>
  /\ \/ UNCHANGED <<srvTx, pending>>
     \/ /\ r.sql = "STMT" /\ srvTx = "open"
        /\ srvTx' = "aborted"
        /\ UNCHANGED pending
     \/ /\ r.sql = "COMMIT" /\ InTx /\ "commitEnds" \in Faults
        /\ srvTx' = "none"
        /\ pending' = {}

\* The server takes the request being sent and its reply reaches the driver.
Answer ==
  /\ net.at = "request"
  /\ \/ ServerRuns(net) /\ net' = [net EXCEPT !.at = "ok"]
     \/ ServerRefuses(net) /\ net' = [net EXCEPT !.at = "error"]
  /\ UNCHANGED <<client, lost, fate>>

\* Send fails before the request reaches the server.
Unreachable ==
  /\ "unreachable" \in Faults
  /\ net.at = "request"
  /\ net' = [net EXCEPT !.at = "error"]
  /\ UNCHANGED <<client, lost, server, fate>>

\* Send gives up on a request that is still under way.
Lose ==
  /\ "lost" \in Faults
  /\ net.at = "request"
  /\ Cardinality(lost) < MaxLost
  /\ [sql |-> net.sql, w |-> net.w] \notin lost
  /\ lost' = lost \union {[sql |-> net.sql, w |-> net.w]}
  /\ net' = [net EXCEPT !.at = "error"]
  /\ UNCHANGED <<client, server, fate>>

\* The server runs, or refuses, a request nobody waits for any more.
LateRun ==
  \E r \in lost :
    /\ lost' = lost \ {r}
    /\ ServerRuns(r) \/ ServerRefuses(r)
    /\ UNCHANGED <<client, net, fate>>

\* The server restarts: no session, no open transaction.
Crash ==
  /\ "crash" \in Faults
  /\ srvSession = "live"
  /\ srvSession' = "gone"
  /\ srvTx' = "none"
  /\ pending' = {}
  /\ UNCHANGED <<client, wire, durable, fate>>
----------------------------------------------------------------------------
(***************************************************************************)
(* The driver.                                                             *)
(***************************************************************************)
Idle == pc = "idle" /\ net.at = "quiet"
Replied(at) == pc = at /\ net.at \in {"ok", "error"}
Ok == net.at = "ok"

Send(sql, w) ==
  /\ net' = [at |-> "request", sql |-> sql, w |-> w]
  /\ UNCHANGED lost

Return ==
  /\ pc' = "idle"
  /\ net' = Quiet
  /\ UNCHANGED lost

\* The transaction is over: what was acknowledged in it is settled.
Settled(outcome) ==
  fate' = [w \in Writes |-> IF fate[w] = "acked" THEN outcome ELSE fate[w]]

(***************************************************************************)
(* Slips.  Forms of the operations below with a mistake in them, to see    *)
(* that the properties notice; no specification uses them.                 *)
(***************************************************************************)
SlipSendBlank ==                 \* the request loses its SQL text
  /\ pc = "stmt" /\ net.at = "quiet"
  /\ \E w \in todo : todo' = todo \ {w}
  /\ Send("STMT", NoWrite)
  /\ UNCHANGED <<conn, autoCommit, txOpen, pc, server, fate>>

SlipCommitReply ==               \* txOpen is reset before the error check
  /\ Replied("commit")
  /\ txOpen' = FALSE
  /\ IF Ok THEN Settled("committed") ELSE UNCHANGED fate
  /\ Return
  /\ UNCHANGED <<conn, autoCommit, todo, server>>

SlipBeginForgotten ==            \* txOpen = true is missing
  /\ Replied("begin") /\ Ok
  /\ pc' = "stmt"
  /\ net' = Quiet
  /\ UNCHANGED <<conn, autoCommit, txOpen, todo, lost, server, fate>>

SlipBeginErrorIgnored ==         \* the error of BEGIN is not returned
  /\ Replied("begin")
  /\ txOpen' = Ok
  /\ pc' = "stmt"
  /\ net' = Quiet
  /\ UNCHANGED <<conn, autoCommit, todo, lost, server, fate>>

SlipBeginRetried ==              \* a failed BEGIN is sent again, for ever
  /\ Replied("begin")
  /\ IF Ok
       THEN /\ txOpen' = TRUE
            /\ pc' = "stmt"
            /\ net' = Quiet
            /\ UNCHANGED lost
       ELSE /\ Send("BEGIN", NoWrite)
            /\ UNCHANGED <<txOpen, pc>>
  /\ UNCHANGED <<conn, autoCommit, todo, server, fate>>

SlipEnableKeepsTx ==             \* the pending transaction is not committed
  /\ conn = "open" /\ Idle
  /\ ~autoCommit
  /\ autoCommit' = TRUE
  /\ txOpen' = FALSE
  /\ Settled("committed")
  /\ UNCHANGED <<conn, pc, todo, wire, server>>

SlipEnableErrorIgnored ==        \* autocommit goes on though COMMIT failed
  /\ Replied("enable")
  /\ autoCommit' = TRUE
  /\ txOpen' = FALSE
  /\ IF Ok THEN Settled("committed") ELSE UNCHANGED fate
  /\ Return
  /\ UNCHANGED <<conn, todo, server>>

SlipCloseCommits ==              \* Close commits what is open
  /\ conn \in {"open", "closed"} /\ Idle
  /\ txOpen
  /\ pc' = "closeRollback"
  /\ Send("COMMIT", NoWrite)
  /\ UNCHANGED <<conn, autoCommit, txOpen, todo, server, fate>>

SlipDisconnectAgain ==           \* session.close without its closed flag
  /\ pc' = "disconnect"
  /\ Send("DISCONNECT", NoWrite)
----------------------------------------------------------------------------
\* Database.Open: the session handshake.
Open ==
  /\ conn = "new" /\ Idle
  /\ pc' = "open"
  /\ Send("CONNECT", NoWrite)
  /\ UNCHANGED <<conn, autoCommit, txOpen, todo, server, fate>>

OpenReply ==
  /\ Replied("open")
  /\ conn' = IF Ok THEN "open" ELSE "failed"
  /\ Return
  /\ UNCHANGED <<autoCommit, txOpen, todo, server, fate>>

\* SetOption(autocommit, disabled) runs no SQL.
DisableAutoCommit ==
  /\ conn = "open" /\ Idle
  /\ autoCommit
  /\ autoCommit' = FALSE
  /\ UNCHANGED <<conn, txOpen, pc, todo, wire, server, fate>>

\* SetOption(autocommit, enabled) commits an open transaction first.
EnableAutoCommit ==
  /\ conn = "open" /\ Idle
  /\ ~autoCommit
  /\ IF txOpen
       THEN /\ pc' = "enable"
            /\ Send("COMMIT", NoWrite)
            /\ UNCHANGED <<autoCommit, fate>>
       ELSE /\ autoCommit' = TRUE
            /\ Settled("committed")
            /\ UNCHANGED <<pc, wire>>
  /\ UNCHANGED <<conn, txOpen, todo, server>>

EnableReply ==
  /\ Replied("enable")
  /\ IF Ok
       THEN /\ txOpen' = FALSE
            /\ autoCommit' = TRUE
            /\ Settled("committed")
       ELSE UNCHANGED <<txOpen, autoCommit, fate>>
  /\ Return
  /\ UNCHANGED <<conn, todo, server>>

Commit ==
  /\ conn = "open" /\ Idle
  /\ ~autoCommit
  /\ IF txOpen
       THEN /\ pc' = "commit"
            /\ Send("COMMIT", NoWrite)
            /\ UNCHANGED fate
       ELSE /\ Settled("committed")
            /\ UNCHANGED <<pc, wire>>
  /\ UNCHANGED <<conn, autoCommit, txOpen, todo, server>>

CommitReply ==
  /\ Replied("commit")
  /\ IF Ok
       THEN /\ txOpen' = FALSE
            /\ Settled("committed")
       ELSE UNCHANGED <<txOpen, fate>>
  /\ Return
  /\ UNCHANGED <<conn, autoCommit, todo, server>>

Rollback ==
  /\ conn = "open" /\ Idle
  /\ ~autoCommit
  /\ IF txOpen
       THEN /\ pc' = "rollback"
            /\ Send("ROLLBACK", NoWrite)
            /\ UNCHANGED fate
       ELSE /\ Settled("rolledBack")
            /\ UNCHANGED <<pc, wire>>
  /\ UNCHANGED <<conn, autoCommit, txOpen, todo, server>>

RollbackReply ==
  /\ Replied("rollback")
  /\ IF Ok
       THEN /\ txOpen' = FALSE
            /\ Settled("rolledBack")
       ELSE UNCHANGED <<txOpen, fate>>
  /\ Return
  /\ UNCHANGED <<conn, autoCommit, todo, server>>

(***************************************************************************)
(* ExecuteUpdate, ExecuteQuery, a bound update, a bulk ingest: open a      *)
(* transaction if one is needed, then send the statements one by one.      *)
(* The set is empty when ExecuteUpdate was given no SQL, when no parameter *)
(* row was bound, and when the rows or the table cannot be rendered as     *)
(* SQL: all of that is only found out after beginTxIfNeeded has run.       *)
(***************************************************************************)
Execute(batch) ==
  /\ conn = "open" /\ Idle
  /\ Cardinality(batch) <= MaxBatch
  /\ \A w \in batch : fate[w] = "unused"
  /\ todo' = batch
  /\ fate' = [w \in Writes |-> IF w \in batch THEN "issued" ELSE fate[w]]
  /\ IF autoCommit \/ txOpen
       THEN /\ pc' = "stmt"
            /\ UNCHANGED wire
       ELSE /\ pc' = "begin"
            /\ Send("BEGIN", NoWrite)
  /\ UNCHANGED <<conn, autoCommit, txOpen, server>>

\* The statements of the call that were never sent have failed with it.
FailRest ==
  /\ fate' = [w \in Writes |-> IF w \in todo THEN "failed" ELSE fate[w]]
  /\ todo' = {}

BeginReply ==
  /\ Replied("begin")
  /\ IF Ok
       THEN /\ txOpen' = TRUE
            /\ pc' = "stmt"
            /\ net' = Quiet
            /\ UNCHANGED <<lost, todo, fate>>
       ELSE /\ FailRest
            /\ Return
            /\ UNCHANGED txOpen
  /\ UNCHANGED <<conn, autoCommit, server>>

SendStatement ==
  /\ pc = "stmt" /\ net.at = "quiet"
  /\ \E w \in todo :
       /\ todo' = todo \ {w}
       /\ Send("STMT", w)
  /\ UNCHANGED <<conn, autoCommit, txOpen, pc, server, fate>>

\* A row that took effect is remembered as such even if a later row fails
\* the call: nothing undoes it.
StatementReply ==
  /\ Replied("stmt")
  /\ IF Ok
       THEN /\ fate' = [fate EXCEPT ![net.w] =
                          IF autoCommit THEN "auto" ELSE "acked"]
            /\ net' = Quiet
            /\ UNCHANGED <<pc, lost, todo>>
       ELSE /\ fate' = [w \in Writes |-> IF w \in todo \union {net.w}
                                           THEN "failed" ELSE fate[w]]
            /\ todo' = {}
            /\ Return
  /\ UNCHANGED <<conn, autoCommit, txOpen, server>>

\* The call ends: every statement was sent, or the stream of rows failed.
FinishExecute ==
  /\ pc = "stmt" /\ net.at = "quiet"
  /\ pc' = "idle"
  /\ FailRest
  /\ UNCHANGED <<conn, autoCommit, txOpen, wire, server>>

(***************************************************************************)
(* Connection.Close: roll back what is open, whatever the server answers,  *)
(* then session.close, which disconnects once.                             *)
(***************************************************************************)
Disconnect ==
  IF conn = "closed"
    THEN Return
    ELSE /\ pc' = "disconnect"
         /\ Send("DISCONNECT", NoWrite)

Close ==
  /\ conn \in {"open", "closed"} /\ Idle
  /\ IF txOpen
       THEN /\ pc' = "closeRollback"
            /\ Send("ROLLBACK", NoWrite)
            /\ UNCHANGED conn
       ELSE /\ Disconnect
            /\ conn' = "closed"
  /\ UNCHANGED <<autoCommit, txOpen, todo, server, fate>>

CloseRollbackReply ==
  /\ Replied("closeRollback")
  /\ txOpen' = FALSE
  /\ Settled("rolledBack")
  /\ Disconnect
  /\ conn' = "closed"
  /\ UNCHANGED <<autoCommit, todo, server>>

DisconnectReply ==
  /\ Replied("disconnect")
  /\ Return
  /\ UNCHANGED <<conn, autoCommit, txOpen, todo, server, fate>>
----------------------------------------------------------------------------
Call ==
  \/ Open
  \/ DisableAutoCommit
  \/ EnableAutoCommit
  \/ Commit
  \/ Rollback
  \/ \E batch \in SUBSET Writes : Execute(batch)
  \/ Close

Progress ==
  \/ OpenReply
  \/ EnableReply
  \/ CommitReply
  \/ RollbackReply
  \/ BeginReply
  \/ SendStatement
  \/ StatementReply
  \/ FinishExecute
  \/ CloseRollbackReply
  \/ DisconnectReply

Settle == Answer \/ Unreachable \/ Lose

Next == Call \/ Progress \/ Settle \/ LateRun \/ Crash

Spec == Init /\ [][Next]_vars

(***************************************************************************)
(* Fairness.  A call that has started runs on (it is straight-line code in *)
(* the application's goroutine), and Send always returns: http.Client      *)
(* carries a Timeout.  Nothing makes the application call, the server      *)
(* crash, or a request given up on run at all.                             *)
(***************************************************************************)
Fairness == WF_vars(Progress) /\ WF_vars(Settle)
FairSpec == Spec /\ Fairness
----------------------------------------------------------------------------
(***************************************************************************)
(* Properties.                                                             *)
(***************************************************************************)

\* Faults under which a failed Send means the server did nothing.
Reliable == "lost" \notin Faults /\ "commitEnds" \notin Faults

\* Between calls and between the statements of a call, the driver's txOpen
\* flag and the server's transaction agree as long as the session lives:
\* begin, commit, rollback and their failures each move both or neither.
TxAgreement ==
  conn = "open" /\ net.at = "quiet" /\ srvSession = "live"
    => (txOpen <=> InTx)

\* The driver never sends transaction SQL the server has to reject: no BEGIN
\* inside a transaction, no COMMIT or ROLLBACK without one ("cannot commit -
\* no transaction is active").
NoPointlessTxSql ==
  net.at = "request" /\ srvSession = "live"
    => /\ net.sql = "BEGIN" => ~InTx
       /\ net.sql \in {"COMMIT", "ROLLBACK"} => InTx

\* What the driver told the application is what the database holds.  An
\* autocommit statement that succeeded and one whose transaction was
\* committed are durable; one that failed or was rolled back is not; and
\* one acknowledged in a manual transaction is not until a COMMIT is on
\* its way.
FateIsTrue ==
  \A w \in Writes :
    /\ fate[w] \in {"auto", "committed"} => w \in durable
    /\ fate[w] \in {"failed", "rolledBack", "unused"} => w \notin durable
    /\ fate[w] = "acked" /\ pc \notin {"commit", "enable"} => w \notin durable

\* A commit takes the whole transaction: what is acknowledged and still open
\* is all inside the server's transaction or, once it ran a COMMIT, all
\* durable; or the session is gone and none of it is.
AllOrNothing ==
  LET open == {w \in Writes : fate[w] = "acked"}
  IN  \/ open \subseteq pending
      \/ open \subseteq durable
      \/ open \intersect (pending \union durable) = {}

\* From the moment Close starts nothing more becomes durable: Close discards
\* the open transaction, it does not commit it.
CloseDiscards ==
  [][conn = "closed" \/ pc = "closeRollback" => durable' = durable]_vars

\* Once disconnected the driver sends nothing: a second Close is silent.
SilentAfterDisconnect ==
  [][conn = "closed" /\ pc = "idle" => UNCHANGED net]_vars

\* Every call returns.
CallsReturn == pc # "idle" ~> pc = "idle"

(***************************************************************************)
(* The connection as seen from outside: the mode, what the server keeps    *)
(* aside and what it has committed.                                        *)
(***************************************************************************)
Adbc == INSTANCE AdbcTransaction
          WITH Writes <- Writes, autoCommit <- autoCommit,
               pending <- pending, durable <- durable
AdbcSpec == Adbc!Spec

\* Said of txOpen in driver.go:110: "true when we have issued BEGIN
\* TRANSACTION but not yet COMMIT/ROLLBACK".
TxFlagMeansOpen ==
  conn = "open" /\ net.at = "quiet" /\ srvSession = "live" /\ txOpen => InTx
============================================================================
