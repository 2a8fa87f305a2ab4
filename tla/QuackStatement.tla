--------------------------- MODULE QuackStatement ---------------------------
(***************************************************************************)
(* One ADBC statement (statementImpl): its options, the record batch and   *)
(* the stream bound to it, and the three ways an execute uses them: bulk   *)
(* ingest (DDL, then one APPEND per batch), a bound update and a bound     *)
(* query (one request per row).  Between any two of its requests other     *)
(* clients of the server may create, replace or drop the target table.     *)
(*                                                                         *)
(* A binding is a list of batches of one schema, a batch a number of rows. *)
(* A row has an identity: its binding and its place in it.  The transaction*)
(* an execute opens first is QuackConnection's; here it may only fail.     *)
(***************************************************************************)
EXTENDS Naturals, SequencesExt

CONSTANTS
  Shapes,     \* what the application binds: see ShapeType
  Faults,     \* the faults of this instance, a subset of AllFaults
  MaxBinds,   \* bound: bindings made
  MaxTables   \* bound: times the target table is created

(***************************************************************************)
(* refused   the server answers ERROR_RESPONSE to what it could do         *)
(* lost      Send fails; the server may have run the request               *)
(* others    other clients create, replace and drop the table              *)
(***************************************************************************)
AllFaults == {"refused", "lost", "others"}

(***************************************************************************)
(* How far the driver gets with a schema: a "plain" one can be created and *)
(* encoded; a "bare" one has a type duckDBTypeForArrow prints and          *)
(* decodedVectorForArrow does not read (Date32, Timestamp, LargeString,    *)
(* LargeBinary); a "nested" one has neither DDL nor literals.              *)
(***************************************************************************)
Types == {"plain", "bare", "nested"}

\* cut[k] rows have been seen when batch k is; breaks: the stream ends with
\* an error.
ShapeType(shape) ==
  /\ shape.kind \in {"batch", "stream"}
  /\ shape.type \in Types
  /\ shape.cut \in Seq(Nat)
  /\ \A i, j \in DOMAIN shape.cut : i <= j => shape.cut[i] <= shape.cut[j]
  /\ shape.breaks \in BOOLEAN
  /\ shape.kind = "batch" => Len(shape.cut) = 1 /\ ~shape.breaks

ASSUME ConstantsAssumption ==
  /\ \A shape \in Shapes : ShapeType(shape)
  /\ Faults \subseteq AllFaults
  /\ MaxBinds \in Nat
  /\ MaxTables \in Nat

Modes == {"create", "append", "replace", "create_append"}

VARIABLES
  \* statementImpl
  sql,         \* "none", "good", or "bad": markers do not match the columns
  target,      \* a target table is set
  ingestMode,  \* "" or one of Modes
  bound,       \* the bound batch: an index into bindings, 0 if none
  boundStream, \* the bound stream: likewise
  closed,      \* Close was called
  pc,          \* where the execute in progress stands
  todo,        \* batches, or single rows, still to be sent
  total,       \* rows counted so far
  \* the server
  table,       \* the target table: 0 if absent, else a number of its own
  effects,     \* the rows that took effect, in order
  \* history
  bindings,    \* what was bound, in order
  held,        \* references the driver holds on each binding
  started,     \* length of effects when the call began
  given,       \* the rows the call was given, in order
  created,     \* what the call's DDL did: "nothing", "created", "replaced"
  tables,      \* tables created so far
  outcome      \* what the last execute returned

binding == <<bound, boundStream, bindings, held>>
options == <<sql, target, ingestMode>>
call    == <<todo, total, started, given, created>>
server  == <<table, effects, tables>>
vars    == <<options, binding, closed, pc, call, server, outcome>>

Slots == {bound, boundStream}
Failures == {"error", "exists", "unsupported"}

TypeOK ==
  /\ sql \in {"none", "good", "bad"}
  /\ target \in BOOLEAN
  /\ ingestMode \in Modes \union {""}
  /\ Len(bindings) <= MaxBinds /\ \A b \in DOMAIN bindings : bindings[b] \in Shapes
  /\ bound # 0 => bindings[bound].kind = "batch"
  /\ boundStream # 0 => bindings[boundStream].kind = "stream"
  /\ closed \in BOOLEAN
  /\ pc \in {"idle", "ddl", "append", "update", "query"}
  /\ held \in [1..MaxBinds -> Nat]
  /\ table \in 0..tables
  /\ tables \in 0..MaxTables
  /\ created \in {"nothing", "created", "replaced"}
  /\ outcome \in {"none", "ok"} \union Failures
  /\ total \in Nat
  /\ started \in 0..Len(effects)

Init ==
  /\ sql = "none"
  /\ target = FALSE
  /\ ingestMode = ""
  /\ bound = 0
  /\ boundStream = 0
  /\ closed = FALSE
  /\ pc = "idle"
  /\ todo = <<>>
  /\ total = 0
  /\ table = 0
  /\ effects = <<>>
  /\ bindings = <<>>
  /\ held = [b \in 1..MaxBinds |-> 0]
  /\ started = 0
  /\ given = <<>>
  /\ created = "nothing"
  /\ tables = 0
  /\ outcome = "none"
----------------------------------------------------------------------------
(***************************************************************************)
(* Rows and batches of the bindings in place: the bound batch comes first, *)
(* then those of the stream.                                               *)
(***************************************************************************)
RowsUpTo(b, k) == IF b = 0 \/ k = 0 THEN 0 ELSE bindings[b].cut[k]

BatchCount(b) == IF b = 0 THEN 0 ELSE Len(bindings[b].cut)

Batch(b, k) ==
  [type |-> bindings[b].type,
   rows |-> [j \in 1..(RowsUpTo(b, k) - RowsUpTo(b, k - 1)) |-> <<b, RowsUpTo(b, k - 1) + j>>]]

BatchesOf(b) == [k \in 1..BatchCount(b) |-> Batch(b, k)]

RowsOf(b) == [j \in 1..RowsUpTo(b, BatchCount(b)) |-> <<b, j>>]

BoundBatches == BatchesOf(bound) \o BatchesOf(boundStream)
BoundRows == RowsOf(bound) \o RowsOf(boundStream)
HasBinding == bound # 0 \/ boundStream # 0
StreamBreaks == boundStream # 0 /\ bindings[boundStream].breaks

\* prepareIngestTarget is given the schema of the batch if there is one.
DdlType == bindings[IF bound # 0 THEN bound ELSE boundStream].type

\* Slip (see Slips below): the default mode is append.
SlipMode == IF ingestMode = "" THEN "append" ELSE ingestMode

Mode == IF ingestMode = "" THEN "create" ELSE ingestMode

\* boundRows fails on a value it has no literal for, or on a broken stream.
Unreadable ==
  \/ StreamBreaks
  \/ \E k \in DOMAIN BoundBatches :
       BoundBatches[k].type = "nested" /\ BoundBatches[k].rows # <<>>

\* The server applies the request at the head of todo.
Apply ==
  /\ effects' = effects \o Head(todo).rows
  /\ UNCHANGED <<table, tables>>

\* A request comes back with an error; if only its reply was lost, it may
\* have been applied.
NotAnswered(applied) ==
  \/ "refused" \in Faults /\ UNCHANGED server
  \/ "lost" \in Faults /\ (applied \/ UNCHANGED server)

NewTable ==
  /\ table' = tables + 1
  /\ tables' = tables + 1

\* The call takes its rows from the bindings in place.  A stream that breaks
\* has at least one more row, which nobody will see.
Begins(requests) ==
  /\ todo' = requests
  /\ total' = 0
  /\ started' = Len(effects)
  /\ given' = BoundRows \o (IF StreamBreaks THEN <<<<boundStream, 0>>>> ELSE <<>>)
  /\ created' = "nothing"

Returns(how) ==
  /\ pc' = "idle"
  /\ outcome' = how

Idle == pc = "idle" /\ ~closed
----------------------------------------------------------------------------
(***************************************************************************)
(* Slips: operations with a mistake in them, to see that the properties    *)
(* notice; no specification uses them.                                     *)
(***************************************************************************)
SlipClearBound ==                \* the batch is left in place
  /\ held' = [b \in DOMAIN held |->
                IF b # 0 /\ b = boundStream THEN held[b] - 1 ELSE held[b]]
  /\ boundStream' = 0
  /\ UNCHANGED <<bound, bindings>>

SlipClose ==                     \* Close forgets the bindings
  /\ Idle
  /\ closed' = TRUE
  /\ UNCHANGED <<options, binding, pc, call, server, outcome>>

SlipFinishIngest ==              \* the stream's error is not looked at
  /\ pc = "append" /\ todo = <<>>
  /\ Returns("ok")
  /\ held' = [b \in DOMAIN held |-> IF b \in Slots THEN held[b] - 1 ELSE held[b]]
  /\ bound' = 0
  /\ boundStream' = 0
  /\ UNCHANGED <<options, bindings, closed, call, server>>

SlipRunRow ==                    \* a row that failed is skipped
  /\ pc \in {"update", "query"} /\ todo # <<>>
  /\ todo' = Tail(todo)
  /\ sql = "good"
  /\ Apply \/ NotAnswered(Apply)
  /\ total' = total + 1
  /\ UNCHANGED <<options, binding, closed, pc, started, given, created, outcome>>

SlipRowAgain ==                  \* a row that does not fit is tried for ever
  /\ pc \in {"update", "query"} /\ todo # <<>>
  /\ IF sql = "good"
       THEN Apply /\ todo' = Tail(todo) /\ total' = total + 1
       ELSE UNCHANGED <<todo, total, server>>
  /\ UNCHANGED <<options, binding, closed, pc, started, given, created, outcome>>
----------------------------------------------------------------------------
\* clearBound.
ClearBound ==
  /\ held' = [b \in DOMAIN held |-> IF b \in Slots THEN held[b] - 1 ELSE held[b]]
  /\ bound' = 0
  /\ boundStream' = 0
  /\ UNCHANGED bindings

SetSqlQuery(q) ==
  /\ Idle
  /\ sql' = q
  /\ UNCHANGED <<target, ingestMode, binding, closed, pc, call, server, outcome>>

SetTarget(on) ==
  /\ Idle
  /\ target' = on
  /\ UNCHANGED <<sql, ingestMode, binding, closed, pc, call, server, outcome>>

SetIngestMode(mode) ==
  /\ Idle
  /\ ingestMode' = mode
  /\ UNCHANGED <<sql, target, binding, closed, pc, call, server, outcome>>

\* Bind and BindStream each replace the binding of their own kind.
Bind(shape) ==
  /\ Idle
  /\ Len(bindings) < MaxBinds
  /\ bindings' = Append(bindings, shape)
  /\ LET new == Len(bindings) + 1
         old == IF shape.kind = "batch" THEN bound ELSE boundStream
     IN  /\ held' = [b \in DOMAIN held |->
                       CASE b = new -> 1 [] b = old -> held[b] - 1 [] OTHER -> held[b]]
         /\ IF shape.kind = "batch"
              THEN bound' = new /\ UNCHANGED boundStream
              ELSE boundStream' = new /\ UNCHANGED bound
  /\ UNCHANGED <<options, closed, pc, call, server, outcome>>

Close ==
  /\ Idle
  /\ closed' = TRUE
  /\ ClearBound
  /\ UNCHANGED <<options, pc, call, server, outcome>>

\* beginTxIfNeeded failed: nothing was looked at, the binding stays.
BeginFails ==
  /\ {"refused", "lost"} \intersect Faults # {}
  /\ Returns("error")
  /\ UNCHANGED <<binding, call, server>>

\* A statement without bindings: one request, read through a cursor.
Plain ==
  /\ sql # "none" /\ ~HasBinding
  /\ Begins(<<>>)
  /\ \E how \in {"ok", "error"} : Returns(how)
  /\ UNCHANGED <<binding, server>>

\* executeIngest up to its first request.
StartIngest ==
  /\ target /\ HasBinding
  /\ tables < MaxTables
  /\ IF Mode # "append" /\ DdlType = "nested"
       THEN /\ Begins(<<>>)
            /\ ClearBound
            /\ Returns("error")
       ELSE /\ Begins(BoundBatches)
            /\ pc' = IF Mode = "append" THEN "append" ELSE "ddl"
            /\ UNCHANGED <<binding, outcome>>
  /\ UNCHANGED server

\* executeBoundUpdate and executeBoundQuery up to their first request.
StartRows(at) ==
  /\ sql # "none" /\ HasBinding
  /\ IF Unreadable \/ (at = "query" /\ BoundRows = <<>>)
       THEN Begins(<<>>) /\ Returns("error")
       ELSE /\ Begins([j \in DOMAIN BoundRows |->
                         [type |-> "literal", rows |-> <<BoundRows[j]>>]])
            /\ pc' = at
            /\ UNCHANGED outcome
  /\ ClearBound
  /\ UNCHANGED server

ExecuteUpdate ==
  /\ Idle
  /\ \/ BeginFails
     \/ StartIngest
     \/ Plain
     \/ ~target /\ StartRows("update")
     \/ /\ sql = "none" /\ ~(target /\ HasBinding)
        /\ Returns("error")
        /\ UNCHANGED <<binding, call, server>>
  /\ UNCHANGED <<options, closed>>

ExecuteQuery ==
  /\ Idle
  /\ \/ /\ sql # "none" /\ BeginFails
     \/ Plain
     \/ StartRows("query")
     \/ /\ sql = "none"
        /\ Returns("error")
        /\ UNCHANGED <<binding, call, server>>
  /\ UNCHANGED <<options, closed>>

\* The table exists and CREATE TABLE was asked for.
Exists == Mode = "create" /\ table # 0

\* What a CREATE statement of this mode does to the table.
RunsDdl ==
  /\ ~Exists
  /\ IF Mode = "create_append" /\ table # 0
       THEN UNCHANGED <<table, tables, created>>
       ELSE /\ NewTable
            /\ created' = IF table = 0 THEN "created" ELSE "replaced"
  /\ UNCHANGED effects

\* prepareIngestTarget.
Ddl ==
  /\ pc = "ddl"
  /\ \/ /\ RunsDdl
        /\ pc' = "append"
        /\ UNCHANGED <<binding, outcome, todo>>
     \/ /\ \/ NotAnswered(FALSE) /\ UNCHANGED created
           \/ "lost" \in Faults /\ RunsDdl
        /\ ClearBound
        /\ Returns("error")
        /\ todo' = <<>>
     \/ /\ Exists
        /\ ClearBound
        /\ Returns("exists")
        /\ todo' = <<>>
        /\ UNCHANGED <<server, created>>
  /\ UNCHANGED <<options, closed, total, started, given>>

\* One turn of the pump: encode a batch, post it, count its rows.
AppendBatch ==
  /\ pc = "append" /\ todo # <<>>
  /\ \/ /\ Head(todo).type = "plain" /\ table # 0
        /\ Apply
        /\ todo' = Tail(todo)
        /\ total' = total + Len(Head(todo).rows)
        /\ UNCHANGED <<binding, pc, outcome>>
     \/ /\ IF Head(todo).type = "plain"
             THEN /\ \/ NotAnswered(table # 0 /\ Apply)
                     \/ table = 0 /\ UNCHANGED server
                  /\ Returns("error")
             ELSE Returns("unsupported") /\ UNCHANGED server
        /\ ClearBound
        /\ todo' = <<>>
        /\ UNCHANGED total
  /\ UNCHANGED <<options, closed, started, given, created>>

\* The stream is at its end, or at the error it ends with.
FinishIngest ==
  /\ pc = "append" /\ todo = <<>>
  /\ Returns(IF StreamBreaks THEN "error" ELSE "ok")
  /\ ClearBound
  /\ UNCHANGED <<options, closed, call, server>>

\* One row of a bound statement: substitute, send, drain.
RunRow ==
  /\ pc \in {"update", "query"} /\ todo # <<>>
  /\ \/ /\ sql = "good"
        /\ Apply
        /\ todo' = Tail(todo)
        /\ total' = total + 1
        /\ UNCHANGED <<pc, outcome>>
     \/ /\ IF sql = "good" THEN NotAnswered(Apply) ELSE UNCHANGED server
        /\ Returns("error")
        /\ todo' = <<>>
        /\ UNCHANGED total
  /\ UNCHANGED <<options, binding, closed, started, given, created>>

FinishRows ==
  /\ pc \in {"update", "query"} /\ todo = <<>>
  /\ Returns("ok")
  /\ UNCHANGED <<options, binding, closed, call, server>>

\* Other clients create or replace the table, or drop it.
Others ==
  /\ "others" \in Faults
  /\ \/ tables + (IF pc = "ddl" THEN 1 ELSE 0) < MaxTables /\ NewTable
     \/ table # 0 /\ table' = 0 /\ UNCHANGED tables
  /\ UNCHANGED <<options, binding, closed, pc, call, effects, outcome>>

Call ==
  \/ \E q \in {"good", "bad"} : SetSqlQuery(q)
  \/ \E on \in BOOLEAN : SetTarget(on)
  \/ \E mode \in Modes : SetIngestMode(mode)
  \/ \E shape \in Shapes : Bind(shape)
  \/ Close
  \/ ExecuteUpdate
  \/ ExecuteQuery

Progress == Ddl \/ AppendBatch \/ FinishIngest \/ RunRow \/ FinishRows

Next == Call \/ Progress \/ Others

Spec == Init /\ [][Next]_vars

\* A call that has started runs on: each request is answered or times out.
FairSpec == Spec /\ WF_vars(Progress)
----------------------------------------------------------------------------
(***************************************************************************)
(* Properties.                                                             *)
(***************************************************************************)

\* What the call in progress, or the last one, has done so far.
Applied == SubSeq(effects, started + 1, Len(effects))

\* Rows take effect in the order they were bound and without a gap: a call
\* that fails has applied a first part of what it was given and no more.
FirstPart == IsPrefix(Applied, given)

\* A call that returns without an error has applied every row it was given,
\* and the count it returns is theirs; a stream that broke off is an error.
OkMeansAll ==
  pc = "idle" /\ outcome = "ok" => Applied = given /\ total = Len(given)

\* No row takes effect twice, whatever fails and however often the
\* application executes the statement again: an execution that has sent
\* anything has used its bindings up.
NothingTwice == IsInjective(effects)

\* The table of bulk_ingest.go:112-118.  While batches are appended the call
\* has created the table ("create", the default), left it alone ("append"),
\* made a new one ("replace") or created it only if it was missing
\* ("create_append"); and "create" against a table that is there does
\* nothing to it at all.
ModeKept ==
  /\ pc = "append" =>
       \/ ingestMode \in {"", "create"} /\ created = "created"
       \/ ingestMode = "append" /\ created = "nothing"
       \/ ingestMode = "replace" /\ created \in {"created", "replaced"}
       \/ ingestMode = "create_append" /\ created \in {"created", "nothing"}
  /\ pc = "idle" /\ outcome = "exists" => Applied = <<>> /\ created = "nothing"

\* The driver holds one reference on what is bound and none on what it has
\* replaced, used up or, with the statement closed, ever been given.
BindingsReleased ==
  /\ \A b \in DOMAIN held : held[b] = IF b \in Slots THEN 1 ELSE 0
  /\ closed => Slots = {0}

\* The slots are well formed, and hold what the driver holds.
BindingsOK == TypeOK /\ BindingsReleased

\* Every execute returns.
ExecuteReturns == pc # "idle" ~> pc = "idle"

\* Said of duckDBTypeForArrow in bulk_ingest.go:200-202: "a creatable schema
\* is always an ingestable one".
CreatableIsIngestable ==
  pc = "idle" /\ outcome = "unsupported" => created = "nothing"
============================================================================
