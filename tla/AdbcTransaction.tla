-------------------------- MODULE AdbcTransaction --------------------------
(***************************************************************************)
(* What an ADBC connection promises about transactions, with every call    *)
(* atomic and no server, no wire and no faults in sight.  QuackConnection  *)
(* is the protocol the driver runs to keep this promise.                   *)
(*                                                                         *)
(*  - in autocommit mode a statement that takes effect is durable at once; *)
(*  - in manual mode its effect is kept aside until the transaction ends,  *)
(*    and then all of it becomes durable or none of it does;               *)
(*  - the mode can only change while nothing is kept aside.                *)
(***************************************************************************)
CONSTANT Writes         \* the effects statements may have, each used once

VARIABLES
  autoCommit,           \* the mode the application has chosen
  pending,              \* effects of the open manual transaction
  durable               \* effects every other connection can see for good

vars == <<autoCommit, pending, durable>>

TypeOK ==
  /\ autoCommit \in BOOLEAN
  /\ pending \subseteq Writes
  /\ durable \subseteq Writes

Init ==
  /\ autoCommit = TRUE
  /\ pending = {}
  /\ durable = {}

AutoWrite(w) ==
  /\ autoCommit
  /\ w \notin durable
  /\ durable' = durable \union {w}
  /\ UNCHANGED <<autoCommit, pending>>

TxWrite(w) ==
  /\ ~autoCommit
  /\ w \notin durable \union pending
  /\ pending' = pending \union {w}
  /\ UNCHANGED <<autoCommit, durable>>

Commit ==
  /\ ~autoCommit
  /\ durable' = durable \union pending
  /\ pending' = {}
  /\ UNCHANGED autoCommit

\* Rollback, Close, and a server that loses the session: nothing survives.
Discard ==
  /\ pending' = {}
  /\ UNCHANGED <<autoCommit, durable>>

SetAutoCommit ==
  /\ pending = {}
  /\ autoCommit' = ~autoCommit
  /\ UNCHANGED <<pending, durable>>

Next ==
  \/ \E w \in Writes : AutoWrite(w) \/ TxWrite(w)
  \/ Commit
  \/ Discard
  \/ SetAutoCommit

Spec == Init /\ [][Next]_vars
============================================================================
