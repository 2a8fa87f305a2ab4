# A specification of adbc-driver-quack

`adbc-driver-quack` is an Arrow ADBC driver for DuckDB's Quack protocol: binary
messages over HTTP, one request and one reply at a time, with the transaction,
the results and the tables on the server and very little state in the driver.
These TLA+ modules say what the driver does with that little state, check it on
small instances with TLC and prove the transactions and the transport for every
instance with TLAPS.  Paths below are relative to the repository's `driver/quack/` unless they
start with another directory.

## The system

| component | code | state | operations | model |
|---|---|---|---|---|
| connection | `driver.go` 82-244 | `autoCommit`, `txOpen` | Open, SetOption(autocommit), Commit, Rollback, beginTxIfNeeded, Close | `QuackConnection` |
| session | `session.go` 16-61, 237-257 | connection id, `closed`, query id counter | handshake, disconnect | `QuackConnection` (the handshake and the close) |
| cursor | `session.go` 63-213 | `buffered`, `needsMore`, `closed` | prepare, nextChunk, drainAll, fetchMore, close | `QuackCursor` |
| record reader | `record_reader.go` | `refs`, `current`, `err`, `done` | Next, Retain, Release | `QuackCursor` |
| statement | `driver.go` 246-373 | `sql`, target, mode, `bound`, `boundStream` | options, Bind, BindStream, ExecuteUpdate, ExecuteQuery, Close | `QuackStatement` |
| bulk ingest | `bulk_ingest.go` | none of its own | DDL by mode, one append per batch | `QuackStatement` |
| bound parameters | `params.go` | none of its own | one request per bound row | `QuackParams` (markers and literals), `QuackStatement` (the rows) |
| HTTP transport | `internal/transport/http.go` | none between messages | Send, address candidates, fall-through | `QuackTransport` |
| URI and options | `internal/transport/uri.go` | none | parse, token precedence, header checks | not modelled |
| binary codec | `internal/codec` | position, sticky error | LEB128, hugeint, fields | `QuackCodec`; the halves of 128-bit integers in `QuackVector` |
| messages, vectors, types | `internal/message`, `internal/quacktype` | none | encode, decode, validity | `QuackMessages` (every field), `QuackVector` (what values mean) |
| Arrow conversion | `arrow_conv.go`, `bulk_ingest.go` 251-452 | none | chunk to record, record to chunk | `QuackColumn`; one step that may fail in `QuackCursor` |
| metadata | `metadata*.go`, `get_objects_types.go` | none | GetObjects, GetTableSchema: read-only queries, drained | `QuackMetadata`; GetInfo and GetTableTypes return constants and are left out |
| C API shell | `pkg/quack` (generated from the arrow-adbc template) | handles, contexts, the poison | the C functions | `QuackHandles` |
| Python package | `python` | none | finds the library, passes options | not modelled: no logic |

How they interact: the application calls a statement or the connection; an
execute first asks the connection for a transaction (`beginTxIfNeeded`), then
sends its requests through the session; every request is one `Send` of the
transport.  Nothing is called back.  The server is shared with other clients.
Above all this the C shell keeps the application's structs and lets a second
thread cancel a call.

What is hard here:

- **the driver's flags against the server's transaction.**  The driver never
  asks; it infers from replies.  A reply can be missing while the request ran.
- **several requests in one call.**  A call can fail between any two of them.
- **results pulled lazily**, several at a time, each fetch without a position.
- **requests that are not idempotent over a transport that may repeat them.**
- **bindings with a life of their own**, kept on some failures and used up on others.
- **a table other clients change** between the DDL and the appends.
- **metadata read by many queries** that no transaction holds together.
- **SQL rewritten by a scanner** that knows a part of SQL's lexical rules.
- **replies that are cut, continued or damaged**, read by a decoder whose checks
  are spread over every function.
- **Cancel from another thread**, against contexts and handles without a lock.
- **values that pass through four representations** (wire, vector, Go object,
  Arrow), each with its widths, units and ways to say NULL, in four encodings.

Correct means, for the connection: the mode and the fate the application was
told are those of the database, a transaction is all or nothing, Close discards;
for the cursor: every chunk once, in order, or an error; for the statement:
every bound row at most once, in order, and all of them when no error is
returned; for the transport: no repetition of what a server may have run; for a
column: the value on one side is the value on the other, or there is an error;
for the parameters: a literal for each marker and nowhere else, meaning the value
bound; for messages: what was written is what is read, and nothing else is
accepted; for the metadata: what was there all the time is listed, what never was
is not; for the shell: a Cancel stops what is running and nothing else, and every
session has an owner who can close it.
`PROJECT.json` lists the hazards line by line with the properties that watch them.

## Modules

| module | what it is |
|---|---|
| `AdbcTransaction` | what a connection promises: writes, commit, discard, change of mode, all atomic |
| `QuackConnection` | the driver's transaction protocol and the server session, request by request |
| `QuackConnection_proofs`, `QuackTransport_proofs`, `QuackCursor_proofs`, `QuackStatement_proofs`, `QuackHandles_proofs`, `QuackParams_proofs`, `QuackMetadata_proofs` | the theorems about these seven |
| `Facts` | what the proofs of the parameters and the metadata share: induction, functions defined by steps, sequences, sets of numbers listed in order |
| `QuackCursor` | results read by cursors and record readers |
| `QuackStatement` | options, bindings, ingest, bound updates and queries |
| `QuackTransport` | one message sent to the addresses of a host |
| `QuackVector` | types, validity masks, the decoding and encoding of vectors |
| `QuackColumn` | a column read into Arrow and ingested again |
| `QuackParams` | the `?` markers of a statement replaced by literals |
| `QuackCodec` | integers, strings and fields as bytes; the reader and its sticky error |
| `QuackMessages` | every message, type, chunk and vector of the protocol, written and read |
| `QuackMetadata` | GetObjects and GetTableSchema while others change the catalog |
| `QuackHandles` | the structs of the C shell, their contexts, Cancel, the poison |
| `MCQuack...` | instances of these for TLC |

The modules meet at `Send`.  `QuackTransport` shows how a Send may end;
`QuackConnection`, `QuackCursor` and `QuackStatement` take those endings as the
`Faults` they are instantiated with: an answer, an error without an effect
(`unreachable`, `refused`), an error after an effect (`lost`), and for the
cursor a request the server saw twice (`resent`).  `Execute` in
`QuackConnection` is the outside of what `QuackStatement` shows from the inside.
`QuackParams` is what happens to the SQL between `QuackStatement` and a Send;
`QuackMessages` is what happens to a message on either side of one, and
`QuackVector` what the bytes it carries mean; each query of `QuackMetadata` is a
cursor drained.  `QuackHandles` sits on top: its `Run` is any call of the others.
Operators whose name starts with `Slip` are forms of an operation with a mistake
in them; no specification uses them, they show that each property can fail.

### QuackConnection

The driver's part of the state is `conn`, `autoCommit`, `txOpen`, the program
counter of the call in progress (`pc`) and the statements it has yet to send
(`todo`).  `net` is the one request under way (the driver is synchronous),
`lost` the requests it gave up on which the server may still run.  The server's
part is `srvSession`, `srvTx`, `pending`, `durable`, modelled from how the driver
uses DuckDB: BEGIN in a transaction and COMMIT without one are errors, a failed
statement may abort the transaction, DISCONNECT and a restart drop it.  `fate`
is what the application has been told about each statement, a history.

Each public call is an action that ends at its first request, and each reply an
action that runs to the next one: `Commit`/`CommitReply`, `Execute`/`BeginReply`/
`SendStatement`/`StatementReply`/`FinishExecute`, `Close`/`CloseRollbackReply`/
`DisconnectReply`.  `Execute` takes any set of statements: one for plain SQL,
several for a bound update or an ingest, none where the driver finds out after
beginTxIfNeeded that there is nothing to run.  A request and its fetches
(`drainPrepared`) are one exchange; a fetch that fails after the statement ran is
the fault `lost`.  Calls on one connection do not overlap: the fields have no
lock and the code nowhere shares a connection between goroutines.  Calls after
Close other than Close are not modelled, as the code gives them no meaning of
their own.

### QuackCursor

A result is chunks 1, 2, ... cut into batches; `hollow` chunks have no rows.
`UpTo` and `Batch` are the server; `Received` is what a PREPARE or FETCH reply
does to the cursor.  A call to `Next` is `NextRecord`, then any number of
`NextChunk` / `FetchMore` / `TakeChunk`, until a record, the end (`TakeNone`) or
an error.  The requests of different readers interleave at every step.  Draining
keeps its chunks in `buffered` until `DrainDone` hands them over at once.

`nextChunk` fetches once only (`session.go:130`): a FETCH_RESPONSE without chunks
that says there are more ends a streaming reader as if the result were exhausted,
where `drainAll` goes on.  `EndMeansAll` names this exception and allows no other.

### QuackStatement

`bindings` numbers what was bound, `held` counts the driver's references on it,
`bound` and `boundStream` are the two slots.  `ExecuteUpdate` and `ExecuteQuery`
dispatch as in `driver.go`; then `Ddl`, `AppendBatch`, `RunRow` and the two
`Finish` actions are one request each, with `Others` in between.  `effects` is
every row that took effect, in order.  Types matter only in how far the driver
gets with them: DDL and encoding, DDL only, neither.  The temporary flag and the
schema name change the text of the DDL and nothing else, and are left out.

### QuackTransport

An attempt ends at dialling, or after the connection was accepted; what
`isFallthroughErr` sees is the kind of error only.  The fault `reset` stands for
every `*net.OpError` on an accepted connection.  `https` has one candidate.

### QuackParams

The scan of `substituteParams` is one step per character (two where it skips
two), its four booleans one `mode`.  Beside it run two readings of DuckDB's
lexer, an external machine of two dozen states: `here` of what the application
wrote, `there` of what is sent.  `OnlyMarkers` compares the scan with `here`,
`ReadsTheSame` compares `here` with `there`, and `ExactOrScaled` says what each
literal means.  What the scanner does not know of SQL ends the comparison
(`beyond`): nested comments, `/*/`, strings in dollars, a quote behind a backslash
in an E string, `?1`.  Where a literal touches its neighbours (`glued`), as in `-?` with
a negative value, nothing is promised either.  Decimals of a negative scale are
written without their zeros (`params.go:144`); `ExactOrScaled` is an equivalence
that names them.  A lone carriage return as a line end and Unicode escapes are
left out; types that cannot be bound are refused before the scan starts
(`QuackStatement`).

### QuackCodec and QuackMessages

A number is written in groups of `Group` bits, the width is `Width`; both are to
scale (64 = 9 x 7 + 1, 9 = 2 x 4 + 1), so that the last group is cut as it is in
Go.  `QuackCodec` is the writer and the reader; `After` is the sticky error.
`QuackMessages` describes each object once, as a list of fields that may depend
on those before (`Fields`), and reads any of them with `ReadFields`; the vectors
of every kind follow, with Go's zero values where a read has failed, because the
code goes on to use them.  A message goes out (`Written`: what the driver
encodes; `Served`: vectors only servers write, and bytes no value stands for), is
cut, continued or changed in one place, and is received.

Two kinds of exception are part of the properties.  A list or dictionary that is
cut can panic instead of being refused, for its child is a nil interface by then
(`vector_codec.go:180`).  A column of strings may have another length than its
chunk has rows: nothing compares the two (`vector_codec.go:134`).  An index
beyond the rows of a vector is a panic here as in Go; the values of a sequence
are not cut to 32 bits.

### QuackMetadata

`todo` is the stack of queries the nested loops of `metadata_objects.go` have
still to send, each answered from `world` as it is at that moment, with others
creating and dropping in between.  `past` is every world there was during the
call: what is listed was in one of them, what was in all of them is listed.
Names are numbers because the server sorts by them.  Named by the properties or
visible in the actions: when the foreign keys cannot be read they are left out
without an error (`metadata_constraints.go:127-131`); `GetTableSchema` without a
catalog or a schema mixes the columns of tables of one name (`metadata.go:45`);
an empty filter is IS NULL in GetObjects and no filter in `GetTableSchema`; key
columns come in the order of the table.  Not modelled, and met on the way:
foreign keys of one name are merged (names are taken to be distinct here), the
comment at `metadata_objects.go:18-20` still says that constraints are empty
lists, and `DECIMAL(10,2)[]` is mapped to a decimal.

### QuackHandles

Each struct has one thread that makes its calls and, if it is in `Cancelers`, one
that calls Cancel at any time.  A call that takes a context goes through
`cancelContext` and `newContext` word by word (`ReadCancel`, `InvokeCancel`,
`ClearContext`, `StoreContext`, `LoadContext`), and so does a Cancel; a word that
is read twice in the source without a lock may have changed in between, so a step
takes either value.  `Run` is the driver's part: it succeeds, fails or panics.  A
Release deletes the handle, closes the driver's object and cancels, in this
order.  `raced` names the handles on which a Cancel overlapped the making of a
context or a Release: there, the properties promise nothing, although `adbc.h`
(1480, 2133) wants Cancel to be thread-safe without exception.  Two more
differences from `adbc.h` are visible in the actions: a Cancel with nothing to
cancel does not answer INVALID_STATE (2142), and a call that was cancelled does
not answer CANCELLED (2128-2131).

### QuackVector and QuackColumn

`QuackVector` is operators only: `Physical`, the mask operators, `DecodeVector`
and `EncodeVector` stand for the functions of those names.  A wire vector is the
content of a well-formed message, without its tags and lengths.  Integers keep
their width at a scale: the constant `Bits` gives an n-bit integer of the code
its width here, `WordBits` the rows of a mask word, `Digits` and `Ten` the limits
of decimals, `Nanos` the units of time; the assumptions state what the real
values have in common with the small ones.

`QuackColumn` follows one column: the server encodes it (`ServerSends`: every
combination of flat, constant, dictionary and sequence that means the rows, with
and without a mask where none is needed), the driver decodes it (`Decode`), makes
an Arrow array (`BuildColumn`), the application binds the array
(`ChunkFromRecord`), and it is encoded and stored (`Encode`, `ServerStores`).
`Image` says which Arrow value means which value; `Lost` names the values that
arrive as others, and `ReadExact` is an equivalence, so that the list can be
neither too short nor too long:

| value | arrives as | line |
|---|---|---|
| a DATE more than 292 years from 1970 | the last day a Duration reaches | `arrow_conv.go:278` |
| the TIME 24:00 | 00:00 | `arrow_conv.go:289` |
| a TIME_NS but midnight | a thousandth of it: microseconds in a column of nanoseconds | `arrow_conv.go:289` |
| a UUID with a digit other than 0 behind its first | other bytes | `arrow_conv.go:589` |
| a date, time, timestamp, UUID, interval or map inside another value | null | `arrow_conv.go:565` |

The smallest HUGEINT and a UHUGEINT from 2^127 on panic (`HugeOrNothing`), and
an INTERVAL column is refused.  On the way back a decimal with a fraction is
scaled twice and stored 10^scale times as large (`bulk_ingest.go:431` and
`vector_encoder.go:284`; `StoredExact` names it), and the types of
`StatementTypes` are refused; every other array is stored as it is.

## Runs

Every run but the two of kind "violation" passes with all its properties.

| run | instance | states | shows |
|---|---|---|---|
| `ConnReliable` | 3 effects, 2 statements a call; refusals, unreachable server, restart | 13 820 | flags and transaction agree, no SQL the server must reject, fates true, all or nothing, Close discards, implements `AdbcTransaction` |
| `ConnLossy` | 2 effects, every fault, one request on the loose | 33 686 | calls return; silence after Close |
| `CursorReads` | 2 readers, 4 results of up to 3 batches, every fault | 380 192 | order, completeness, one batch in memory, sticky errors, calls return |
| `SendAll` | 3 addresses, 2 messages, http and https, every fault | 1 612 | repeats only after a reset; every address tried; returns |
| `StatementRuns` | 2 bindings out of 6 shapes, 2 tables, every fault | 437 802 | first part in order, success means all, nothing twice, modes, references, returns |
| `ColumnCopied` | 35 plain types, 12 nested ones; up to 3 rows, every encoding | 2 414 239 | what is read means what the server holds, what is stored is what was bound, but for the values named above |
| `ParamsSubstituted` | every statement of up to 4 of 11 characters, of up to 7 of 4; every kind of value | 1 251 383 | markers where DuckDB sees them, the rest read as written, literals mean the values |
| `MessagesRead` | 56 messages, 3 formats of numbers, 15 chunks only servers write; cut and changed everywhere | 65 612 | read as written; cuts, trailing bytes refused; counts agree; numbers fit |
| `MetadataWalked` | 3 schemas, 2 names, 3 kinds of table, 2 changes by others, failures | 774 391 | only what was, all that stayed, in tree order, with its own columns and keys |
| `HandlesUsed` | a connection, a statement, 2 contexts, Cancel at any time, failures and panics | 1 058 301 | Cancel reaches its call, one live context, panics and sessions accounted for |
| `ConnLostCommit` | `lost` | violation | `txOpen` stays set after a COMMIT that ran (`driver.go:159`) |
| `StatementTypes` | no fault | violation | a table created that cannot be filled (`bulk_ingest.go:438`) |

Some properties are conjunctions of named parts, because the parts are one
question: `ReaderOK`, `BindingsOK`, `ReadOK`, `ScanOK`, `ContextsOK`,
`ObjectsOK`, `WholeOrRefused`, `WalkOK` and `TablesOK`.  The parts are stated and
commented one by one in the modules.

Three more things the models do and no run singles out.  When the reply of a
BEGIN is lost, the server is in a transaction the driver does not know of: the
next BEGIN is refused, a switch to autocommit commits nothing, and later
successes in autocommit mode are not durable (`driver.go:232`; why
`ConnReliable` leaves `lost` out).  A message can be posted to a second server
after the first accepted it and reset the connection (`http.go:173`, against the
comment at `http.go:30`; `RepeatsNeedReset` names it).  And a Cancel that meets
another call of its handle can miss it, cancel the wrong one, or poison the
library (`CancelReaches`, `PoisonHasCause`).

**Bounds.**  Two or three effects: a property of a transaction needs one effect
inside it, one that fails and one outside it; the effects are interchangeable
otherwise.  `MaxBatch = 2`: a call can succeed with its first statement and fail
with its second.  `MaxLost = 1`: one stray request is enough to part driver and
server; with it the call sequences are unbounded (effects are used once, but
transactions, commits and mode changes go on forever).  Cursor: batches of none,
one and two chunks, hollow ones first, last and in the middle, two readers so
that their fetches interleave, two references.  Statement: two bindings give a
batch with a stream, a replacement of the one by another, and a second execution
after a failed first; three shapes of stream (broken, empty, with an empty batch
in the middle); two tables, so that one can replace another.  Transport: three
addresses give a first, a middle and a last.  Columns: two rows to a mask word,
so that three rows fill a word and start another; every value at a boundary of
its width, and every size of an ENUM and width of a DECIMAL around the limits of
the physical types; nested columns have one row less, their children lists of up
to two.  Parameters: four characters open and close any of the scanner's modes
around a marker, seven hold two comments or strings with a marker between them.
Messages: numbers of 9 bits take three groups, as many to spare as 64 bits in
ten; every place of a message is cut and changed, by each bit of a group and by
the byte that makes it negative.  Metadata: two catalogs and two schemas of one
catalog tell nesting from order; two changes drop a table and create another
under its name.  Handles: two contexts, for a call that supersedes another; one
thread of calls and one of Cancels, as `adbc.h` allows no more.

`MetadataWalked` checks for deadlock.  Every other `cfg` disables that check
because the system may rightly stop: when the connection is closed, the effects,
bindings, messages or contexts are used up, a reader is done, a column or a
message has come through, a statement is scanned, or the library is poisoned.

**Fairness.**  Weak fairness on the steps of a call that has started (it is
straight-line code of the caller's goroutine) and on the end of an exchange:
`http.Client.Timeout` and the dialer's timeout are always set
(`internal/transport/http.go` 46-69), so a Send returns.  Nothing obliges the
application to call, a request given up on to run, or a server to restart.

## Proofs

`QuackConnection_proofs` proves, for any set of effects, any bounds and any
faults but `lost` and `commitEnds` (the assumption `Reliable`: a Send that fails
has had no effect, and a refused COMMIT leaves the transaction open):

- `TypeCorrect`, `Agreement`, `PointedTxSql`, `Truthful`, `Atomic`: the five
  invariants of `ConnReliable` (the first under every fault);
- `ClosingDiscards`: nothing becomes durable from the moment Close starts;
- `Refinement`: the specification implements `AdbcTransaction`.

Without that assumption, under every fault, it proves `TypeCorrect` and `Silent`
(`SilentAfterDisconnect`): from `ControlInv` below and `QuietInv`, that nothing of
a request is left on the wire when its reply has been taken.

None of the invariants is inductive: `TxAgreement` is silent while a request is
under way, which is when the two sides part.  The inductive invariant `IInv` is
`TypeOK` and three parts.  `ControlInv` says which request may be under way at
each `pc`, and which flags that step relies on (a COMMIT only with `txOpen`, a
BEGIN only without, no statement in manual mode without a transaction).
`SyncInv` says, for a live session, what the server's transaction is as a
function of the flags and of the request and whether it has been answered: it
equals `txOpen` but for a BEGIN, COMMIT or ROLLBACK that succeeded and whose
reply has not been taken yet.  `FateInv` ties each statement's fate to where its
effect is.  The step is proved separately for the server's answers (one lemma
for each kind of request, from which the invariant follows) and for the driver's
actions.  TLC checked `IInv` before it was proved.  The assumption cannot be
dropped: with `lost`, `ConnLostCommit` is what happens.

`QuackTransport_proofs` proves, for any finite set of addresses, any number of
messages and any faults, without a further assumption: `TypeCorrect`,
`RepeatsAreResets` (`RepeatsNeedReset`), `GivesUpLast` (`EveryAddressTried`) and
`RepliesAreOfRuns` (`RepliesAreReal`: a reply is of a run, and of one run for each
connection at most).  The invariants only speak of a Send that has ended, so the
inductive one says what holds on the way: `CountInv`, that a message being tried
has been accepted as often as connections were reset, and one that is posted once
more; `RunInv`, that it was run at most once for each of these; `TriedInv`, that
the addresses before the current one have been tried.  Over https the list of
candidates has one element (`CandidatesAreLists`), which is why nothing is
repeated there.

`QuackCursor_proofs` proves, for any number of readers, any results that satisfy
`ResultsAssumption` and any faults, every safety property of `CursorReads`:
`ReadersAgree` (`ReaderOK`), `ChunksInOrder` (`InOrder`), `NothingMissing`
(`EndMeansAll`), `BoundedBuffer` (`OneBatchBuffered`) and `StoppedForGood`
(`StopsForGood`).  `InOrder` looks at what was delivered only; that the next
chunk fits depends on what is buffered, and that on which batch the server sent
last.  The inductive invariant is one formula for each reader: `CallInv`, which
fields go with each place of a call (an open call has no error, no end and no
record); `PlaceInv`, that `needsMore` says whether the server has more after batch
`sent`, and that an empty buffer behind a fetch means an empty batch; `OrderInv`,
that what was delivered and then what is buffered go up and end at that batch, and
that the buffer of a streaming reader is of that batch; `CompleteInv`, that
everything due up to that batch is delivered or buffered while no error was met.
A step moves one reader (`OneMoves`), so there is one lemma for each action, and
`KeptInv` for all the other readers.  The lemmas about rising sequences
(`BatchIs`, `ConcatRises`, `TailRises`, `AppendRises`) say what a fetch, a taken
chunk and a delivered one do to them.  TLC checked the invariant on every state of
`CursorReads` before it was proved.

`QuackStatement_proofs` proves, for any shapes that satisfy `ConstantsAssumption`,
any faults and any number of bindings and tables, every safety property of
`StatementRuns`: `AlwaysFirstPart`, `AlwaysOkMeansAll`, `AlwaysNothingTwice`,
`AlwaysModeKept`, `AlwaysBindingsOK`.  Four of them look at a call that has ended;
what makes them true lies in the requests still to be sent, so the inductive
invariant says, besides types, what each call in progress still owes:

- `TodoInv`: `todo` is the rest of the rows, cut into requests (`LaidOut`): request
  `k` ends at row `e[k]` of what the call was given, they follow one another without
  a gap, the first begins after the `total` rows counted so far, and the last ends
  at the last row, or before the row a breaking stream never shows (`Marker`).  An
  ingest's requests are batches of any length, a bound statement's have one row;
- `AppliedInv`: what took effect since the call began is the first part of what it
  was given, and while it runs exactly the rows counted;
- `OnceInv`: the rows that took effect are distinct, and so are those given; while a
  call runs the given ones are new, and while none does no row of what is bound has
  taken effect.  That is the reason `NothingTwice` holds: an execution that sends
  anything clears the slots first or when it ends, whatever happens in between;
- `SlotsInv`: the slots hold bindings of their own kind, and `held` is 1 for these
  and 0 for the rest; while rows are run one by one nothing is bound;
- `ModeInv`, `OutcomeInv`: what the DDL did where the batches begin, and what an
  outcome says about the counts.

Its lemmas are about lists of requests: the batches of a binding are laid out along
its rows (`BatchesOfLaid`), two such lists one behind the other are (`JoinLaid`),
a list is when its first request is taken off (`TailLaid`), and the rows one by one
are (`RowsLaid`).  `RequestApplies` draws from them what applying the next request
does to the rows that took effect, once for ingest and bound statements and for the
requests whose reply is lost.

`QuackHandles_proofs` proves, for any connections, statements, cancelers, options,
faults and any number of contexts, the four safety properties of `HandlesUsed`:
`CancelAlwaysReaches` (`CancelReaches`), `ContextsAlwaysOK` (`ContextsOK`),
`PoisonAlwaysHasCause` (`PoisonHasCause`) and `ObjectsAlwaysOK` (`ObjectsOK`).  They
speak of the handles nobody has raced for, and a race is noticed where it is decided,
so the inductive invariant follows every thread up to that place: `CallInv`, what a
call in progress has read and made; `Owned` and `Blank`, what is behind a handle that
is open or is not; and, for a handle not in `raced`, `Calm`: that the other threads
are apart from it (`Apart`), the cell holds its one live context (`CellInv`) and a
Cancel under way holds the context it means to cancel (`CancelInv`).  A step moves one
handle (`OneMoves`), and what it leaves alone keeps its invariant
(`UntouchedKeeps`).  TLC checked both invariants on every state of `StatementRuns`
and `HandlesUsed` before they were proved.

`QuackParams_proofs` proves, for statements of any length and any values bound,
`MarkersOnly` (`OnlyMarkers`), `SentAsWritten` (`ScanOK`) and `LiteralsExact`
(`ExactOrScaled`), from nothing but the types of the values (`StatementsAssumption`).
The scanner looks one
character ahead, DuckDB's reading goes one character at a time, so that the two are
apart where a comment opens and closes and agree only behind it.  The inductive
invariant `Together` says how far: which readings each mode of the scanner allows,
and that a dash, a slash or a star that DuckDB has just read opens or closes a
comment exactly where the scanner says so.  For `SentAsWritten` the reading of what
is sent is compared with that of the statement, character by character (`SentOne`,
`SentTwo`, `SentMarker`); at a marker it needs that the whole literal reads as one
value (`LiteralReads`).  That, and what a literal means (`LiteralMeans`), are
inductions over the literal: a numeral goes on as it began and its digits add up to
the number (`NumeralGood`, `NumeralSays`), zeros before it and a point within it
change only where the fraction begins (`Padded`, `PointSays`), and a text comes out
of its doubled quotes as it went in (`DoubledStays`, `UnquotedDoubled`).
`ScanOK` and `OnlyMarkers` hold only while DuckDB reads what the scanner knows:
`beyond` is where it does not, an escape in an `E''` string, a dollar quote or a
nested comment.

The library's induction theorems take an operator, which no installed prover can
instantiate.  `Facts` goes around that: a set of the numbers for which a statement
holds stands for the statement, and its induction (`Induction`, `StrongInduction`)
comes from the library's theorem that a well-founded relation has minimal elements.
With it a function that is defined by what it is at `0` and at `k` from what it is
below exists (`Recursion`) and is what its definition says (`Unrolled`), which the
provers do not know of a recursive function.

`QuackMetadata_proofs` proves, for any catalogs, filters and definitions that satisfy
`ServerAssumption` and `CallsAssumption`, any faults and any number of changes by
others, `WalkAlwaysOK` (`WalkOK`), `NothingIsMissed` (`NothingMissed`) and
`TablesAlwaysOK` (`TablesOK`).

The first two speak of what has been listed, and what makes them true are the
queries still to come.
Each of these covers a part of the tree (`Cover`): what lies below its path, with the
path itself where an entry is still to be made, and nothing for the queries for keys.
The inductive invariant `WalkInv` says that what was listed and then the parts
covered go along the tree (`Ordered`), that each query stands at its level, was
wanted, and enters only what was there (`AskOK`), and that what is due is listed or
covered (`Complete`).  A query makes way for the asks its rows call for (`Takes`):
these and the entries made cover no more than it did, in order, and leave out nothing
that is due.  `TakenKeeps` draws the step from that, and each query has a lemma that
it does so: for the listings from their rows being in order, each name once
(`ListsAll` of `Facts`), for the rest directly.  A change by others only takes away what is due
and adds to what was there (`CallGoesOn`), whatever it changes.  When the call
returns no query is left, so that all that is due is listed.

Only model-checked: liveness (out of the prover's reach), and everything about the
columns and the messages, whose models use recursive operators or `Bitwise`, which the
prover does not take.

## What is left out

- The Python package: glue.  Of the C shell, conversions between C and Go, calls
  refused for their arguments, and panics inside a stream.
- URI and options: string parsing without state.  The precedence of token
  sources and the header checks would be a function of one call's arguments,
  which unit tests reach.
- GetInfo and GetTableTypes, which return constants, and the JSON round trip of
  GetObjects into Arrow.
- Types the driver shows as text (TIMETZ, BIT, BIGNUM, GEOMETRY): their rendering.
- That an ExecuteUpdate with nothing to run opens a transaction (`driver.go:328`),
  against the comment at `driver.go:148`: the model does it, no property forbids it.
- Several servers behind one name: the host is looked up for every message, so
  the requests of a session may reach a server that does not know it.
- Two goroutines on one connection, one statement or one reader, but for Cancel.
- In `QuackStatement` a request whose reply is lost runs at once or never; that
  it may run late is shown where it does most harm, in `QuackConnection`.

## Plan

1. Done: every component with state or an algorithm of its own; proofs for the
   connection, the transport, the cursor, the statement, the handles, the
   parameters and the metadata.
2. Several servers behind one name, so that the requests of a session may reach
   one that does not know it (`http.go:143`, the one hazard without a property).
