----------------------- MODULE QuackConnection_proofs -----------------------
(***************************************************************************)
(* For any set of statements, any batches and any number of calls: the     *)
(* connection's variables stay in their types and a closed connection      *)
(* sends nothing, under every fault; and when a Send that fails has had no *)
(* effect (Reliable) the driver's two flags, the server's transaction and  *)
(* what the application was told never disagree.                           *)
(*                                                                         *)
(* The invariants of QuackConnection speak of quiet moments and are not    *)
(* inductive: IInv says what holds while a request or its reply is on the  *)
(* wire, which is when the two sides legitimately differ.                  *)
(***************************************************************************)
EXTENDS QuackConnection, TLAPS

\* The call in progress and the request it has on the wire.
ControlInv ==
  /\ pc = "idle" => net.at = "quiet"
  /\ pc \notin {"idle", "stmt"} => net.at # "quiet"
  /\ pc \notin {"begin", "stmt"} => todo = {}
  /\ pc = "open" => conn = "new" /\ net.sql = "CONNECT"
  /\ pc = "begin" => /\ conn = "open" /\ net.sql = "BEGIN"
                     /\ ~autoCommit /\ ~txOpen
  /\ pc = "stmt" => /\ conn = "open"
                    /\ autoCommit \/ txOpen
                    /\ net.at # "quiet" => /\ net.sql = "STMT"
                                           /\ net.w \notin todo
  /\ pc \in {"commit", "enable"} => /\ conn = "open" /\ net.sql = "COMMIT"
                                    /\ ~autoCommit /\ txOpen
  /\ pc \in {"rollback", "closeRollback"} => /\ conn = "open" /\ txOpen
                                             /\ net.sql = "ROLLBACK"
  /\ pc = "disconnect" => conn = "closed" /\ net.sql = "DISCONNECT"
  /\ conn # "open" => ~txOpen
  /\ conn = "new" => pc \in {"idle", "open"}
  /\ conn = "closed" => pc \in {"idle", "disconnect"}
  /\ conn = "failed" => pc = "idle"
  /\ autoCommit => ~txOpen

\* txOpen as it will be once the reply on the wire has been read.
Believed ==
  CASE net.at = "ok" /\ net.sql = "BEGIN" -> TRUE
    [] net.at = "ok" /\ net.sql \in {"COMMIT", "ROLLBACK"} -> FALSE
    [] OTHER -> txOpen

\* The server's transaction is the one the driver believes in.
SyncInv ==
  /\ lost = {}
  /\ InTx => srvSession = "live"
  /\ ~InTx => pending = {}
  /\ conn \in {"new", "failed"} => ~InTx
  /\ conn = "open" /\ InTx => Believed
  /\ conn = "open" /\ srvSession = "live" /\ Believed => InTx

\* Where the effect of a statement is, given what is known of it.
FateInv ==
  \A w \in Writes :
    /\ fate[w] \in {"auto", "committed"} => w \in durable
    /\ fate[w] \in {"unused", "failed"} => w \notin durable \union pending
    /\ fate[w] = "rolledBack" => /\ w \notin durable
                                 /\ w \in pending => conn = "closed"
    /\ fate[w] = "acked" =>
         /\ txOpen
         /\ w \in durable <=> net.at = "ok" /\ net.sql = "COMMIT"
         /\ InTx => w \in pending
    /\ w \in todo => fate[w] = "issued" /\ w \notin durable \union pending
    /\ fate[w] = "issued" =>
         w \in todo \/ (pc = "stmt" /\ net.at # "quiet" /\ w = net.w)
    /\ pc = "stmt" /\ net.at # "quiet" /\ w = net.w =>
         /\ fate[w] = "issued"
         /\ net.at # "ok" => w \notin durable \union pending
         /\ net.at = "ok" /\ autoCommit => w \in durable
         /\ net.at = "ok" /\ ~autoCommit => w \notin durable
         /\ net.at = "ok" /\ InTx => w \in pending

IInv == TypeOK /\ ControlInv /\ SyncInv /\ FateInv
----------------------------------------------------------------------------
(***************************************************************************)
(* Type correctness, under every fault.                                    *)
(***************************************************************************)

\* The actions of Next, grouped by what their proofs have in common.
DriverStep == Call \/ Progress

LEMMA ServerType ==
  ASSUME TypeOK, NEW r, r.sql \in Sql, r.sql = "STMT" => r.w \in Writes,
         ServerRuns(r) \/ ServerRefuses(r)
  PROVE  /\ srvSession' \in {"none", "live", "gone"}
         /\ srvTx' \in {"none", "open", "aborted"}
         /\ pending' \subseteq Writes
         /\ durable' \subseteq Writes
<1>1. CASE ServerRuns(r)
  BY <1>1 DEF ServerRuns, TypeOK, Sql
<1>2. CASE ServerRefuses(r)
  BY <1>2 DEF ServerRefuses, TypeOK
<1> QED
  BY <1>1, <1>2

LEMMA DriverType == TypeOK /\ DriverStep => TypeOK'
<1> SUFFICES ASSUME TypeOK, DriverStep
             PROVE  TypeOK'
  OBVIOUS
<1> USE ConstantsAssumption DEF TypeOK, server, wire, Send, Return
<1>1. CASE Open
  BY <1>1 DEF Open, Sql, Pcs
<1>2. CASE OpenReply
  BY <1>2 DEF OpenReply, Quiet, Sql, Pcs
<1>3. CASE DisableAutoCommit
  BY <1>3 DEF DisableAutoCommit
<1>4. CASE EnableAutoCommit
  <2>1. fate' \in [Writes -> Fates] /\ pc' \in Pcs
    BY <1>4 DEF EnableAutoCommit, Settled, Fates, Pcs
  <2>2. /\ net' \in [at : {"quiet", "request", "ok", "error"}, sql : Sql,
                    w : Writes \union {NoWrite}]
        /\ net'.sql = "STMT" <=> net'.w \in Writes
    BY <1>4 DEF EnableAutoCommit, Sql
  <2> QED
    BY <1>4, <2>1, <2>2 DEF EnableAutoCommit
<1>5. CASE EnableReply
  BY <1>5 DEF EnableReply, Settled, Quiet, Sql, Pcs, Fates
<1>6. CASE Commit
  BY <1>6 DEF Commit, Settled, Sql, Pcs, Fates
<1>7. CASE CommitReply
  BY <1>7, ZenonT(40) DEF CommitReply, Settled, Quiet, Sql, Pcs, Fates
<1>8. CASE Rollback
  BY <1>8 DEF Rollback, Settled, Sql, Pcs, Fates
<1>9. CASE RollbackReply
  BY <1>9 DEF RollbackReply, Settled, Quiet, Sql, Pcs, Fates
<1>10. ASSUME NEW batch \in SUBSET Writes, Execute(batch)
       PROVE  TypeOK'
  <2>1. fate' \in [Writes -> Fates] /\ pc' \in Pcs
    BY <1>10 DEF Execute, Fates, Pcs
  <2>2. /\ net' \in [at : {"quiet", "request", "ok", "error"}, sql : Sql,
                    w : Writes \union {NoWrite}]
        /\ net'.sql = "STMT" <=> net'.w \in Writes
    BY <1>10 DEF Execute, Sql
  <2> QED
    BY <1>10, <2>1, <2>2 DEF Execute
<1>11. CASE BeginReply
  <2>1. fate' \in [Writes -> Fates] /\ pc' \in Pcs
    BY <1>11 DEF BeginReply, FailRest, Fates, Pcs
  <2>2. /\ net' \in [at : {"quiet", "request", "ok", "error"}, sql : Sql,
                    w : Writes \union {NoWrite}]
        /\ net'.sql = "STMT" <=> net'.w \in Writes
    BY <1>11 DEF BeginReply, Quiet, Sql
  <2> QED
    BY <1>11, <2>1, <2>2 DEF BeginReply, FailRest
<1>12. CASE SendStatement
  BY <1>12 DEF SendStatement, Sql
<1>13. CASE StatementReply
  BY <1>13 DEF StatementReply, Quiet, Sql, Pcs, Fates
<1>14. CASE FinishExecute
  BY <1>14 DEF FinishExecute, FailRest, Pcs, Fates
<1>15. CASE Close
  BY <1>15 DEF Close, Disconnect, Quiet, Sql, Pcs
<1>16. CASE CloseRollbackReply
  <2>1. fate' \in [Writes -> Fates] /\ pc' \in Pcs
    BY <1>16 DEF CloseRollbackReply, Disconnect, Settled, Fates, Pcs
  <2>2. /\ net' \in [at : {"quiet", "request", "ok", "error"}, sql : Sql,
                    w : Writes \union {NoWrite}]
        /\ net'.sql = "STMT" <=> net'.w \in Writes
    BY <1>16 DEF CloseRollbackReply, Disconnect, Quiet, Sql
  <2> QED
    BY <1>16, <2>1, <2>2 DEF CloseRollbackReply, Disconnect
<1>17. CASE DisconnectReply
  BY <1>17 DEF DisconnectReply, Quiet, Sql, Pcs
<1> QED
  BY <1>1, <1>2, <1>3, <1>4, <1>5, <1>6, <1>7, <1>8, <1>9, <1>10, <1>11,
     <1>12, <1>13, <1>14, <1>15, <1>16, <1>17
  DEF DriverStep, Call, Progress

LEMMA TypeStep == TypeOK /\ [Next]_vars => TypeOK'
<1> SUFFICES ASSUME TypeOK, [Next]_vars
             PROVE  TypeOK'
  OBVIOUS
<1>1. CASE DriverStep
  BY <1>1, DriverType
<1>2. CASE Answer
  <2>1. ServerRuns(net) \/ ServerRefuses(net)
    BY <1>2 DEF Answer
  <2>2. /\ srvSession' \in {"none", "live", "gone"}
        /\ srvTx' \in {"none", "open", "aborted"}
        /\ pending' \subseteq Writes
        /\ durable' \subseteq Writes
    BY <2>1, ServerType DEF TypeOK
  <2> QED
    BY <1>2, <2>2 DEF Answer, TypeOK, client
<1>3. CASE Unreachable
  BY <1>3 DEF Unreachable, TypeOK, client, server
<1>4. CASE Lose
  BY <1>4 DEF Lose, TypeOK, client, server, Request
<1>5. CASE LateRun
  <2>1. PICK r \in lost : /\ lost' = lost \ {r}
                          /\ ServerRuns(r) \/ ServerRefuses(r)
                          /\ UNCHANGED <<client, net, fate>>
    BY <1>5 DEF LateRun
  <2>2. r.sql \in Sql /\ (r.sql = "STMT" => r.w \in Writes)
    BY DEF TypeOK, Request
  <2>3. /\ srvSession' \in {"none", "live", "gone"}
        /\ srvTx' \in {"none", "open", "aborted"}
        /\ pending' \subseteq Writes
        /\ durable' \subseteq Writes
    BY <2>1, <2>2, ServerType
  <2> QED
    BY <2>1, <2>3 DEF TypeOK, client
<1>6. CASE Crash
  BY <1>6 DEF Crash, TypeOK, client, wire
<1>7. CASE UNCHANGED vars
  BY <1>7 DEF TypeOK, vars, client, wire, server
<1> QED
  BY <1>1, <1>2, <1>3, <1>4, <1>5, <1>6, <1>7 DEF Next, Settle, DriverStep

LEMMA InitType == Init => TypeOK
<1> SUFFICES ASSUME Init
             PROVE  TypeOK
  OBVIOUS
<1>1. /\ net \in [at : {"quiet", "request", "ok", "error"}, sql : Sql,
                 w : Writes \union {NoWrite}]
      /\ net.sql = "STMT" <=> net.w \in Writes
  BY ConstantsAssumption DEF Init, Quiet, Sql
<1>2. fate \in [Writes -> Fates] /\ pc \in Pcs
  BY DEF Init, Fates, Pcs
<1> QED
  BY <1>1, <1>2 DEF Init, TypeOK

\* Whatever faults strike, every variable keeps its type: in particular the
\* driver never sends a statement that is not one, and learns of each
\* statement one of the outcomes it can report.
THEOREM TypeCorrect == Spec => []TypeOK
<1>1. Init => TypeOK
  BY InitType
<1>2. TypeOK /\ [Next]_vars => TypeOK'
  BY TypeStep
<1> QED
  BY <1>1, <1>2, PTL DEF Spec
----------------------------------------------------------------------------
(***************************************************************************)
(* Control, under every fault: what the driver does next never depends on  *)
(* more than the reply it was given.                                       *)
(***************************************************************************)
LEMMA DriverControl ==
  ASSUME TypeOK, ControlInv, DriverStep
  PROVE  ControlInv'
<1> USE DEF TypeOK, ControlInv, server, wire, Idle
<1>1. CASE Open
  BY <1>1 DEF Open, Send
<1>2. CASE OpenReply
  BY <1>2 DEF OpenReply, Replied, Ok, Return, Quiet
<1>3. CASE DisableAutoCommit
  BY <1>3 DEF DisableAutoCommit
<1>4. CASE EnableAutoCommit
  BY <1>4 DEF EnableAutoCommit, Send, Settled
<1>5. CASE EnableReply
  BY <1>5 DEF EnableReply, Replied, Ok, Return, Quiet, Settled
<1>6. CASE Commit
  BY <1>6 DEF Commit, Send, Settled
<1>7. CASE CommitReply
  BY <1>7 DEF CommitReply, Replied, Ok, Return, Quiet, Settled
<1>8. CASE Rollback
  BY <1>8 DEF Rollback, Send, Settled
<1>9. CASE RollbackReply
  BY <1>9 DEF RollbackReply, Replied, Ok, Return, Quiet, Settled
<1>10. ASSUME NEW batch \in SUBSET Writes, Execute(batch)
       PROVE  ControlInv'
  BY <1>10 DEF Execute, Send
<1>11. CASE BeginReply
  BY <1>11 DEF BeginReply, Replied, Ok, Return, Quiet, FailRest
<1>12. CASE SendStatement
  BY <1>12 DEF SendStatement, Send
<1>13. CASE StatementReply
  BY <1>13 DEF StatementReply, Replied, Ok, Return, Quiet
<1>14. CASE FinishExecute
  BY <1>14 DEF FinishExecute, FailRest
<1>15. CASE Close
  BY <1>15 DEF Close, Disconnect, Send, Return, Quiet
<1>16. CASE CloseRollbackReply
  BY <1>16 DEF CloseRollbackReply, Replied, Disconnect, Send, Return, Quiet, Settled
<1>17. CASE DisconnectReply
  BY <1>17 DEF DisconnectReply, Replied, Return, Quiet
<1> QED
  BY <1>1, <1>2, <1>3, <1>4, <1>5, <1>6, <1>7, <1>8, <1>9, <1>10, <1>11, <1>12, <1>13, <1>14, <1>15, <1>16, <1>17
  DEF DriverStep, Call, Progress

LEMMA ControlStep == TypeOK /\ ControlInv /\ [Next]_vars => ControlInv'
<1> SUFFICES ASSUME TypeOK, ControlInv, [Next]_vars
             PROVE  ControlInv'
  OBVIOUS
<1>1. CASE DriverStep
  BY <1>1, DriverControl
<1>2. CASE Answer \/ Unreachable \/ Lose
  <2>1. pc # "idle" /\ UNCHANGED client
    BY <1>2 DEF Answer, Unreachable, Lose, ControlInv
  <2>2. PICK at \in {"ok", "error"} : net' = [net EXCEPT !.at = at]
    BY <1>2 DEF Answer, Unreachable, Lose
  <2>3. net'.at # "quiet" /\ net'.sql = net.sql /\ net'.w = net.w
    BY <2>2 DEF TypeOK
  <2>4. net.at # "quiet"
    BY <1>2 DEF Answer, Unreachable, Lose
  <2> QED
    BY <2>1, <2>3, <2>4 DEF ControlInv, client
<1>3. CASE LateRun
  BY <1>3 DEF LateRun, ControlInv, client
<1>4. CASE Crash
  BY <1>4 DEF Crash, ControlInv, client, wire
<1>5. CASE UNCHANGED vars
  BY <1>5 DEF vars, ControlInv, client, wire
<1> QED
  BY <1>1, <1>2, <1>3, <1>4, <1>5 DEF Next, Settle, DriverStep

\* A request is forgotten with its reply: nothing of it is left on a quiet wire.
QuietInv == net.at = "quiet" => net = Quiet

LEMMA QuietStep == TypeOK /\ QuietInv /\ [Next]_vars => QuietInv'
<1> SUFFICES ASSUME TypeOK, QuietInv, [Next]_vars
             PROVE  QuietInv'
  OBVIOUS
<1>1. \/ UNCHANGED net
      \/ net' = Quiet
      \/ \E sql \in Sql, w \in Writes \union {NoWrite} :
           net' = [at |-> "request", sql |-> sql, w |-> w]
      \/ \E at \in {"ok", "error"} : net' = [net EXCEPT !.at = at]
  <2> USE DEF Send, Return, wire, Sql
  <2>1. CASE Call
    BY <2>1
    DEF Call, Open, DisableAutoCommit, EnableAutoCommit, Commit, Rollback,
        Execute, Close, Disconnect
  <2>2. CASE Progress
    BY <2>2
    DEF Progress, OpenReply, EnableReply, CommitReply, RollbackReply,
        BeginReply, SendStatement, StatementReply, FinishExecute,
        CloseRollbackReply, DisconnectReply, Disconnect, TypeOK
  <2>3. CASE Settle
    BY <2>3 DEF Settle, Answer, Unreachable, Lose
  <2>4. CASE LateRun \/ Crash \/ UNCHANGED vars
    BY <2>4 DEF LateRun, Crash, vars
  <2> QED
    BY <2>1, <2>2, <2>3, <2>4 DEF Next
<1> QED
  BY <1>1 DEF QuietInv, TypeOK

LEMMA Controlled == Spec => [](TypeOK /\ ControlInv /\ QuietInv)
<1>1. Init => TypeOK /\ ControlInv /\ QuietInv
  BY InitType DEF Init, Quiet, ControlInv, QuietInv
<1>2. TypeOK /\ ControlInv /\ QuietInv /\ [Next]_vars
        => (TypeOK /\ ControlInv /\ QuietInv)'
  BY TypeStep, ControlStep, QuietStep
<1> QED
  BY <1>1, <1>2, PTL DEF Spec

\* Once closed and between calls the wire stays quiet, whatever is called and
\* whatever the server still runs: no second DISCONNECT, no ROLLBACK.
THEOREM Silent == Spec => SilentAfterDisconnect
<1> DEFINE Done == conn = "closed" /\ pc = "idle"
<1>1. TypeOK /\ ControlInv /\ QuietInv /\ [Next]_vars
        => [Done => UNCHANGED net]_vars
  <2> SUFFICES ASSUME TypeOK, ControlInv, QuietInv, Next, Done
               PROVE  UNCHANGED net
    OBVIOUS
  <2>1. net = Quiet /\ net.at = "quiet" /\ ~txOpen
    BY DEF ControlInv, QuietInv
  <2>2. CASE Call
    BY <2>1, <2>2
    DEF Call, Open, DisableAutoCommit, EnableAutoCommit, Commit, Rollback,
        Execute, Close, Disconnect, Return
  <2>3. CASE Progress
    BY <2>3
    DEF Progress, Replied, OpenReply, EnableReply, CommitReply, RollbackReply,
        BeginReply, SendStatement, StatementReply, FinishExecute,
        CloseRollbackReply, DisconnectReply
  <2>4. CASE Settle
    BY <2>1, <2>4 DEF Settle, Answer, Unreachable, Lose
  <2>5. CASE LateRun \/ Crash
    BY <2>5 DEF LateRun, Crash, wire
  <2> QED
    BY <2>2, <2>3, <2>4, <2>5 DEF Next
<1> QED
  BY <1>1, Controlled, PTL DEF Spec, SilentAfterDisconnect
----------------------------------------------------------------------------
(***************************************************************************)
(* Agreement of driver, server and application, when a Send that fails has *)
(* had no effect.                                                          *)
(***************************************************************************)
LEMMA DriverKeeps ==
  ASSUME IInv, DriverStep
  PROVE  SyncInv' /\ FateInv'
<1> USE DEF IInv, server, wire, Idle
<1>1. CASE Open
  <2>1. SyncInv'
    BY <1>1
    DEF Open, Send,
        ControlInv, SyncInv, Believed, InTx, TypeOK
  <2>2. FateInv'
    BY <1>1
    DEF Open, Send,
        ControlInv, SyncInv, Believed, FateInv, InTx,
           TypeOK
  <2> QED
    BY <2>1, <2>2
<1>2. CASE OpenReply
  <2>1. SyncInv'
    BY <1>2
    DEF OpenReply, Replied, Ok, Return, Quiet,
        ControlInv, SyncInv, Believed, InTx, TypeOK
  <2>2. FateInv'
    BY <1>2
    DEF OpenReply, Replied, Ok, Return, Quiet,
        ControlInv, SyncInv, Believed, FateInv, InTx,
           TypeOK
  <2> QED
    BY <2>1, <2>2
<1>3. CASE DisableAutoCommit
  <2>1. SyncInv'
    BY <1>3
    DEF DisableAutoCommit,
        ControlInv, SyncInv, Believed, InTx, TypeOK
  <2>2. FateInv'
    BY <1>3
    DEF DisableAutoCommit,
        ControlInv, SyncInv, Believed, FateInv, InTx,
           TypeOK
  <2> QED
    BY <2>1, <2>2
<1>4. CASE EnableAutoCommit
  <2>1. SyncInv'
    BY <1>4
    DEF EnableAutoCommit, Send, Settled,
        ControlInv, SyncInv, Believed, InTx, TypeOK
  <2>2. FateInv'
    BY <1>4
    DEF EnableAutoCommit, Send, Settled,
        ControlInv, SyncInv, Believed, FateInv, InTx,
           TypeOK
  <2> QED
    BY <2>1, <2>2
<1>5. CASE EnableReply
  <2>1. SyncInv'
    BY <1>5
    DEF EnableReply, Replied, Ok, Return, Quiet, Settled,
        ControlInv, SyncInv, Believed, InTx, TypeOK
  <2>2. FateInv'
    BY <1>5, ZenonT(120)
    DEF EnableReply, Replied, Ok, Return, Quiet, Settled,
        ControlInv, SyncInv, Believed, FateInv, InTx,
           TypeOK
  <2> QED
    BY <2>1, <2>2
<1>6. CASE Commit
  <2>1. SyncInv'
    BY <1>6
    DEF Commit, Send, Settled,
        ControlInv, SyncInv, Believed, InTx, TypeOK
  <2>2. FateInv'
    BY <1>6
    DEF Commit, Send, Settled,
        ControlInv, SyncInv, Believed, FateInv, InTx,
           TypeOK
  <2> QED
    BY <2>1, <2>2
<1>7. CASE CommitReply
  <2>1. SyncInv'
    BY <1>7
    DEF CommitReply, Replied, Ok, Return, Quiet, Settled,
        ControlInv, SyncInv, Believed, InTx, TypeOK
  <2>2. FateInv'
    BY <1>7, ZenonT(120)
    DEF CommitReply, Replied, Ok, Return, Quiet, Settled,
        ControlInv, SyncInv, Believed, FateInv, InTx,
           TypeOK
  <2> QED
    BY <2>1, <2>2
<1>8. CASE Rollback
  <2>1. SyncInv'
    BY <1>8
    DEF Rollback, Send, Settled,
        ControlInv, SyncInv, Believed, InTx, TypeOK
  <2>2. FateInv'
    BY <1>8
    DEF Rollback, Send, Settled,
        ControlInv, SyncInv, Believed, FateInv, InTx,
           TypeOK
  <2> QED
    BY <2>1, <2>2
<1>9. CASE RollbackReply
  <2>1. SyncInv'
    BY <1>9
    DEF RollbackReply, Replied, Ok, Return, Quiet, Settled,
        ControlInv, SyncInv, Believed, InTx, TypeOK
  <2>2. FateInv'
    BY <1>9, ZenonT(40)
    DEF RollbackReply, Replied, Ok, Return, Quiet, Settled,
        ControlInv, SyncInv, Believed, FateInv, InTx,
           TypeOK
  <2> QED
    BY <2>1, <2>2
<1>10. ASSUME NEW batch \in SUBSET Writes, Execute(batch)
       PROVE  SyncInv' /\ FateInv'
  <2>1. SyncInv'
    BY <1>10
    DEF Execute, Send,
        ControlInv, SyncInv, Believed, InTx, TypeOK
  <2>2. FateInv'
    BY <1>10
    DEF Execute, Send,
        ControlInv, SyncInv, Believed, FateInv, InTx,
           TypeOK
  <2> QED
    BY <2>1, <2>2
<1>11. CASE BeginReply
  <2>1. SyncInv'
    BY <1>11
    DEF BeginReply, Replied, Ok, Return, Quiet, FailRest,
        ControlInv, SyncInv, Believed, InTx, TypeOK
  <2>2. FateInv'
    BY <1>11
    DEF BeginReply, Replied, Ok, Return, Quiet, FailRest,
        ControlInv, SyncInv, Believed, FateInv, InTx,
           TypeOK
  <2> QED
    BY <2>1, <2>2
<1>12. CASE SendStatement
  <2>1. SyncInv'
    BY <1>12
    DEF SendStatement, Send,
        ControlInv, SyncInv, Believed, InTx, TypeOK
  <2>2. FateInv'
    BY <1>12
    DEF SendStatement, Send,
        ControlInv, SyncInv, Believed, FateInv, InTx,
           TypeOK
  <2> QED
    BY <2>1, <2>2
<1>13. CASE StatementReply
  <2>1. SyncInv'
    BY <1>13
    DEF StatementReply, Replied, Ok, Return, Quiet,
        ControlInv, SyncInv, Believed, InTx, TypeOK
  <2>2. FateInv'
    BY <1>13
    DEF StatementReply, Replied, Ok, Return, Quiet,
        ControlInv, SyncInv, Believed, FateInv, InTx,
           TypeOK
  <2> QED
    BY <2>1, <2>2
<1>14. CASE FinishExecute
  <2>1. SyncInv'
    BY <1>14
    DEF FinishExecute, FailRest,
        ControlInv, SyncInv, Believed, InTx, TypeOK
  <2>2. FateInv'
    BY <1>14
    DEF FinishExecute, FailRest,
        ControlInv, SyncInv, Believed, FateInv, InTx,
           TypeOK
  <2> QED
    BY <2>1, <2>2
<1>15. CASE Close
  <2>1. SyncInv'
    BY <1>15
    DEF Close, Disconnect, Send, Return, Quiet,
        ControlInv, SyncInv, Believed, InTx, TypeOK
  <2>2. FateInv'
    BY <1>15
    DEF Close, Disconnect, Send, Return, Quiet,
        ControlInv, SyncInv, Believed, FateInv, InTx,
           TypeOK
  <2> QED
    BY <2>1, <2>2
<1>16. CASE CloseRollbackReply
  <2>1. SyncInv'
    BY <1>16
    DEF CloseRollbackReply, Replied, Disconnect, Send, Return, Quiet, Settled,
        ControlInv, SyncInv, Believed, InTx, TypeOK
  <2>2. FateInv'
    BY <1>16
    DEF CloseRollbackReply, Replied, Disconnect, Send, Return, Quiet, Settled,
        ControlInv, SyncInv, Believed, FateInv, InTx,
           TypeOK
  <2> QED
    BY <2>1, <2>2
<1>17. CASE DisconnectReply
  <2>1. SyncInv'
    BY <1>17
    DEF DisconnectReply, Replied, Return, Quiet,
        ControlInv, SyncInv, Believed, InTx, TypeOK
  <2>2. FateInv'
    BY <1>17
    DEF DisconnectReply, Replied, Return, Quiet,
        ControlInv, SyncInv, Believed, FateInv, InTx,
           TypeOK
  <2> QED
    BY <2>1, <2>2
<1> QED
  BY <1>1, <1>2, <1>3, <1>4, <1>5, <1>6, <1>7, <1>8, <1>9, <1>10, <1>11, <1>12, <1>13, <1>14, <1>15, <1>16, <1>17
  DEF DriverStep, Call, Progress

\* What each request does to the server, one lemma per kind.
LEMMA Connects ==
  ASSUME NEW r, r.sql = "CONNECT", ServerRuns(r)
  PROVE  /\ srvSession = "none" /\ srvSession' = "live"
         /\ UNCHANGED <<srvTx, pending, durable>>
BY DEF ServerRuns, CanRun

LEMMA Begins ==
  ASSUME NEW r, r.sql = "BEGIN", ServerRuns(r)
  PROVE  /\ srvSession = "live" /\ srvTx = "none" /\ srvTx' = "open"
         /\ UNCHANGED <<srvSession, pending, durable>>
BY DEF ServerRuns, CanRun, InTx

LEMMA RunsStatement ==
  ASSUME NEW r, r.sql = "STMT", ServerRuns(r)
  PROVE  /\ srvSession = "live"
         /\ pending' = IF InTx THEN pending \union {r.w} ELSE pending
         /\ durable' = IF InTx THEN durable ELSE durable \union {r.w}
         /\ UNCHANGED <<srvSession, srvTx>>
BY DEF ServerRuns, CanRun

LEMMA Commits ==
  ASSUME NEW r, r.sql = "COMMIT", ServerRuns(r)
  PROVE  /\ srvSession = "live" /\ srvTx = "open" /\ srvTx' = "none"
         /\ pending' = {} /\ durable' = durable \union pending
         /\ UNCHANGED srvSession
BY DEF ServerRuns, CanRun

LEMMA Discards ==
  ASSUME NEW r, r.sql \in {"ROLLBACK", "DISCONNECT"}, ServerRuns(r)
  PROVE  /\ srvSession = "live" /\ srvTx' = "none" /\ pending' = {}
         /\ srvSession' = IF r.sql = "ROLLBACK" THEN "live" ELSE "gone"
         /\ UNCHANGED durable
BY DEF ServerRuns, CanRun

LEMMA ServerKeeps ==
  ASSUME Reliable, IInv, Answer
  PROVE  SyncInv' /\ FateInv'
<1> USE DEF IInv, Answer, client
<1>1. CASE ServerRuns(net) /\ net' = [net EXCEPT !.at = "ok"]
  <2>1. net.sql \in Sql /\ net.at = "request" /\ pc # "idle"
    BY DEF TypeOK, ControlInv
  <2>2. SyncInv' /\ FateInv'
    <3> USE <1>1, <2>1
        DEF TypeOK, ControlInv, SyncInv, Believed, FateInv, InTx
    <3>1. CASE net.sql = "CONNECT"
      <4>1. pc = "open" /\ conn = "new"
        BY <3>1 DEF Pcs
      <4> QED
        BY <3>1, <4>1, Connects
    <3>2. CASE net.sql = "BEGIN"
      BY <3>2, Begins
    <3>3. CASE net.sql = "STMT"
      <4>1. pc = "stmt" /\ conn = "open" /\ net.w \in Writes
        BY <3>3 DEF Pcs
      <4>2. SyncInv'
        BY <3>3, <4>1, RunsStatement
      <4>3. FateInv'
        BY <3>3, <4>1, RunsStatement
      <4> QED
        BY <4>2, <4>3
    <3>4. CASE net.sql = "COMMIT"
      BY <3>4, Commits
    <3>5. CASE net.sql = "ROLLBACK"
      BY <3>5, Discards
    <3>6. CASE net.sql = "DISCONNECT"
      BY <3>6, Discards
    <3> QED
      BY <3>1, <3>2, <3>3, <3>4, <3>5, <3>6 DEF Sql
  <2> QED
    BY <2>2
<1>2. CASE ServerRefuses(net) /\ net' = [net EXCEPT !.at = "error"]
  <2>1. SyncInv'
    BY <1>2
    DEF Reliable, ServerRefuses, ControlInv, SyncInv, Believed, InTx, TypeOK
  <2>2. FateInv'
    BY <1>2
    DEF Reliable, ServerRefuses, ControlInv, SyncInv, Believed, FateInv, InTx,
        TypeOK
  <2> QED
    BY <2>1, <2>2
<1> QED
  BY <1>1, <1>2

LEMMA IInvStep == Reliable /\ IInv /\ [Next]_vars => IInv'
<1> SUFFICES ASSUME Reliable, IInv, [Next]_vars
             PROVE  SyncInv' /\ FateInv'
  BY TypeStep, ControlStep DEF IInv
<1>1. CASE DriverStep
  BY <1>1, DriverKeeps
<1>2. CASE Answer
  BY <1>2, ServerKeeps
<1>3. CASE Unreachable
  BY <1>3
  DEF Unreachable, client, server, IInv, TypeOK, ControlInv, SyncInv, Believed,
      FateInv, InTx
<1>4. CASE Lose
  BY <1>4 DEF Lose, Reliable
<1>5. CASE LateRun
  BY <1>5 DEF LateRun, IInv, SyncInv
<1>6. CASE Crash
  BY <1>6
  DEF Crash, client, wire, IInv, ControlInv, SyncInv, Believed, FateInv, InTx
<1>7. CASE UNCHANGED vars
  BY <1>7
  DEF vars, client, wire, server, IInv, ControlInv, SyncInv, Believed, FateInv,
      InTx
<1> QED
  BY <1>1, <1>2, <1>3, <1>4, <1>5, <1>6, <1>7 DEF Next, Settle, DriverStep

LEMMA Inductive == ASSUME Reliable PROVE Spec => []IInv
<1>1. Init => IInv
  <2>1. Init => TypeOK
    BY InitType
  <2>2. Init => ControlInv /\ SyncInv /\ FateInv
    BY DEF Init, Quiet, ControlInv, SyncInv, Believed, FateInv, InTx
  <2> QED
    BY <2>1, <2>2 DEF IInv
<1>2. IInv /\ [Next]_vars => IInv'
  BY IInvStep
<1> QED
  BY <1>1, <1>2, PTL DEF Spec
----------------------------------------------------------------------------
(***************************************************************************)
(* The theorems.                                                           *)
(***************************************************************************)

\* Begin, Commit, Rollback and the switch to autocommit move txOpen and the
\* server's transaction together, also when the server refuses, the request
\* does not get there or the session is lost.
THEOREM Agreement == ASSUME Reliable PROVE Spec => []TxAgreement
<1>1. IInv => TxAgreement
  BY DEF IInv, SyncInv, Believed, TxAgreement
<1> QED
  BY <1>1, Inductive, PTL

\* The server is never asked to begin a transaction inside another, nor to
\* end one that does not exist.
THEOREM PointedTxSql == ASSUME Reliable PROVE Spec => []NoPointlessTxSql
<1>1. IInv => NoPointlessTxSql
  BY DEF IInv, TypeOK, Pcs, ControlInv, SyncInv, Believed, NoPointlessTxSql
<1> QED
  BY <1>1, Inductive, PTL

\* What the driver reported of every statement is what the database holds.
THEOREM Truthful == ASSUME Reliable PROVE Spec => []FateIsTrue
<1>1. IInv => FateIsTrue
  <2> SUFFICES ASSUME IInv PROVE FateIsTrue
    OBVIOUS
  <2>1. net.at = "ok" /\ net.sql = "COMMIT" => pc \in {"commit", "enable"}
    BY DEF IInv, TypeOK, Pcs, ControlInv
  <2> QED
    BY <2>1 DEF IInv, FateInv, FateIsTrue
<1> QED
  BY <1>1, Inductive, PTL

\* A transaction commits as a whole or not at all.
THEOREM Atomic == ASSUME Reliable PROVE Spec => []AllOrNothing
<1>1. IInv => AllOrNothing
  <2> SUFFICES ASSUME IInv PROVE AllOrNothing
    OBVIOUS
  <2> DEFINE open == {w \in Writes : fate[w] = "acked"}
  <2>1. CASE InTx
    <3>1. open \subseteq pending
      BY <2>1 DEF IInv, FateInv
    <3> QED
      BY <3>1 DEF AllOrNothing
  <2>2. CASE net.at = "ok" /\ net.sql = "COMMIT"
    <3>1. open \subseteq durable
      BY <2>2 DEF IInv, FateInv
    <3> QED
      BY <3>1 DEF AllOrNothing
  <2>3. CASE ~InTx /\ ~(net.at = "ok" /\ net.sql = "COMMIT")
    <3>1. pending = {}
      BY <2>3 DEF IInv, SyncInv
    <3>2. open \intersect durable = {}
      BY <2>3 DEF IInv, FateInv
    <3> QED
      BY <3>1, <3>2 DEF AllOrNothing
  <2> QED
    BY <2>1, <2>2, <2>3
<1> QED
  BY <1>1, Inductive, PTL

\* Close never makes a transaction durable: not the ROLLBACK it sends, not
\* the DISCONNECT, not the server that finds out later.
THEOREM ClosingDiscards == ASSUME Reliable PROVE Spec => CloseDiscards
<1> DEFINE Closing == conn = "closed" \/ pc = "closeRollback"
<1>1. IInv /\ [Next]_vars => [Closing => durable' = durable]_vars
  <2> SUFFICES ASSUME IInv, Next, Closing
               PROVE  durable' = durable
    OBVIOUS
  <2>1. net.at = "request" => net.sql \in {"ROLLBACK", "DISCONNECT"}
    BY DEF IInv, ControlInv
  <2>2. lost = {}
    BY DEF IInv, SyncInv
  <2>3. CASE Answer
    BY <2>1, <2>3, Discards DEF Answer, ServerRefuses
  <2>4. CASE LateRun
    BY <2>2, <2>4 DEF LateRun
  <2>5. CASE Unreachable \/ Lose \/ Crash
    BY <2>5 DEF Unreachable, Lose, Crash, server
  <2>6. CASE Call \/ Progress
    BY <2>6
    DEF Call, Progress, Open, DisableAutoCommit, EnableAutoCommit, Commit,
        Rollback, Execute, Close, OpenReply, EnableReply, CommitReply,
        RollbackReply, BeginReply, SendStatement, StatementReply,
        FinishExecute, CloseRollbackReply, DisconnectReply, server
  <2> QED
    BY <2>3, <2>4, <2>5, <2>6 DEF Next, Settle
<1> QED
  BY <1>1, Inductive, PTL DEF Spec, CloseDiscards

(***************************************************************************)
(* Refinement.  The server's answer is where a statement, a commit or a    *)
(* rollback happens in the abstract; the reply that reaches the driver     *)
(* later changes nothing but, for SetOption, the mode.                     *)
(***************************************************************************)
LEMMA AnswerRefines ==
  ASSUME Reliable, IInv, Answer
  PROVE  Adbc!Next \/ UNCHANGED Adbc!vars
<1> USE DEF Answer, client, Adbc!Next, Adbc!vars
<1>1. CASE ServerRefuses(net)
  BY <1>1 DEF ServerRefuses, Adbc!Discard
<1>2. CASE ServerRuns(net)
  <2>1. net.sql \in Sql /\ net.at = "request"
    BY DEF IInv, TypeOK
  <2>2. CASE net.sql \in {"CONNECT", "BEGIN"}
    BY <1>2, <2>2, Connects, Begins
  <2>3. CASE net.sql = "STMT"
    <3>1. /\ pc = "stmt" /\ conn = "open" /\ net.w \in Writes
          /\ net.w \notin durable \union pending
      BY <2>1, <2>3 DEF IInv, TypeOK, Pcs, ControlInv, FateInv
    <3>2. srvSession = "live" /\ (autoCommit <=> ~InTx)
      BY <1>2, <2>1, <2>3, <3>1, RunsStatement
      DEF IInv, ControlInv, SyncInv, Believed
    <3>3. CASE autoCommit
      BY <1>2, <2>3, <3>1, <3>2, <3>3, RunsStatement DEF Adbc!AutoWrite
    <3>4. CASE ~autoCommit
      BY <1>2, <2>3, <3>1, <3>2, <3>4, RunsStatement DEF Adbc!TxWrite
    <3> QED
      BY <3>3, <3>4
  <2>4. CASE net.sql = "COMMIT"
    <3>1. ~autoCommit
      BY <2>1, <2>4 DEF IInv, TypeOK, Pcs, ControlInv
    <3> QED
      BY <1>2, <2>4, <3>1, Commits DEF Adbc!Commit
  <2>5. CASE net.sql \in {"ROLLBACK", "DISCONNECT"}
    BY <1>2, <2>5, Discards DEF Adbc!Discard
  <2> QED
    BY <2>1, <2>2, <2>3, <2>4, <2>5 DEF Sql
<1> QED
  BY <1>1, <1>2

LEMMA DriverRefines ==
  ASSUME IInv, DriverStep
  PROVE  Adbc!Next \/ UNCHANGED Adbc!vars
<1> USE DEF server, Adbc!Next, Adbc!vars
<1>1. CASE DisableAutoCommit
  <2>1. conn = "open" /\ ~Believed
    BY <1>1 DEF DisableAutoCommit, Idle, IInv, ControlInv, Believed
  <2>2. pending = {}
    BY <2>1 DEF IInv, SyncInv
  <2> QED
    BY <1>1, <2>2 DEF DisableAutoCommit, Adbc!SetAutoCommit
<1>2. CASE EnableAutoCommit
  <2>1. CASE txOpen
    BY <1>2, <2>1 DEF EnableAutoCommit
  <2>2. CASE ~txOpen
    <3>1. conn = "open" /\ ~Believed
      BY <1>2, <2>2 DEF EnableAutoCommit, Idle, IInv, ControlInv, Believed
    <3>2. pending = {}
      BY <3>1 DEF IInv, SyncInv
    <3> QED
      BY <1>2, <2>2, <3>2 DEF EnableAutoCommit, Adbc!SetAutoCommit
  <2> QED
    BY <2>1, <2>2
<1>3. CASE EnableReply
  <2>1. CASE Ok
    <3>1. conn = "open" /\ ~Believed /\ ~autoCommit
      BY <1>3, <2>1 DEF EnableReply, Replied, Ok, IInv, ControlInv, Believed
    <3>2. pending = {}
      BY <3>1 DEF IInv, SyncInv
    <3> QED
      BY <1>3, <2>1, <3>1, <3>2 DEF EnableReply, Adbc!SetAutoCommit
  <2>2. CASE ~Ok
    BY <1>3, <2>2 DEF EnableReply
  <2> QED
    BY <2>1, <2>2
<1>4. CASE ~(DisableAutoCommit \/ EnableAutoCommit \/ EnableReply)
  BY <1>4
  DEF DriverStep, Call, Progress, Open, Commit, Rollback, Execute, Close,
      OpenReply, CommitReply, RollbackReply, BeginReply, SendStatement,
      StatementReply, FinishExecute, CloseRollbackReply, DisconnectReply
<1> QED
  BY <1>1, <1>2, <1>3, <1>4

\* The connection keeps the promise of AdbcTransaction: manual transactions
\* are atomic, autocommit statements durable at once, and the mode changes
\* only between transactions.
THEOREM Refinement == ASSUME Reliable PROVE Spec => AdbcSpec
<1>1. Init => Adbc!Init
  BY DEF Init, Adbc!Init
<1>2. IInv /\ [Next]_vars => [Adbc!Next]_Adbc!vars
  <2> SUFFICES ASSUME IInv, [Next]_vars
               PROVE  Adbc!Next \/ UNCHANGED Adbc!vars
    OBVIOUS
  <2>1. CASE DriverStep
    BY <2>1, DriverRefines
  <2>2. CASE Answer
    BY <2>2, AnswerRefines
  <2>3. CASE LateRun
    BY <2>3 DEF LateRun, IInv, SyncInv
  <2>4. CASE Unreachable \/ Lose \/ UNCHANGED vars
    BY <2>4 DEF Unreachable, Lose, vars, client, server, Adbc!vars
  <2>5. CASE Crash
    BY <2>5 DEF Crash, client, Adbc!Next, Adbc!Discard
  <2> QED
    BY <2>1, <2>2, <2>3, <2>4, <2>5 DEF Next, Settle, DriverStep
<1> QED
  BY <1>1, <1>2, Inductive, PTL DEF Spec, AdbcSpec, Adbc!Spec
============================================================================
