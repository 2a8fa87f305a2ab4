---------------------------- MODULE QuackCursor ----------------------------
(***************************************************************************)
(* Results of one session being read: the cursor of session.go, drained at *)
(* once (ExecuteUpdate, metadata, BEGIN/COMMIT/ROLLBACK) or chunk by chunk *)
(* through the reference-counted streamingRecordReader of ExecuteQuery.    *)
(* Several results are open at a time, each with its result UUID, and      *)
(* their calls interleave.                                                 *)
(*                                                                         *)
(* A result is the chunks 1, 2, ... in the order the server produced them, *)
(* cut into batches: PREPARE_RESPONSE carries the first, every FETCH the   *)
(* next.  A chunk without rows is hollow.  The server is external.         *)
(***************************************************************************)
EXTENDS Naturals, Sequences

CONSTANTS
  Readers,    \* the results opened, one reader each
  Results,    \* what a query may return: see ResultsAssumption
  Faults,     \* the faults of this instance, a subset of AllFaults
  MaxRefs     \* bound: most references held on a reader

(***************************************************************************)
(* refused   the server answers ERROR_RESPONSE and keeps its place         *)
(* lost      the server advances but its reply does not arrive             *)
(* resent    Send falls through to a second address after the server has   *)
(*           served a FETCH: served twice, the second reply is read        *)
(* convert   RecordFromChunk fails on a chunk                              *)
(* cancel    the context of the query is cancelled                         *)
(* close     the session is closed while readers are open                  *)
(***************************************************************************)
AllFaults == {"refused", "lost", "resent", "convert", "cancel", "close"}

\* cut[i] chunks have been produced when batch i is complete.
ResultType(res) ==
  /\ res.cut \in Seq(Nat)
  /\ Len(res.cut) > 0
  /\ \A i \in 1..(Len(res.cut) - 1) : res.cut[i] <= res.cut[i + 1]
  /\ res.hollow \subseteq Nat

ASSUME ResultsAssumption ==
  /\ \A res \in Results : ResultType(res)
  /\ Faults \subseteq AllFaults
  /\ MaxRefs \in Nat \ {0}

VARIABLES
  \* the server
  result,     \* the result each query has
  sent,       \* how many batches of it were sent
  session,    \* the session is open
  \* cursor
  buffered,   \* chunks received and not yet handed out
  needsMore,  \* the server has said there are more
  closed,     \* close was called
  \* streamingRecordReader, or drainAll
  pc,         \* where the call on this result stands
  refs,       \* reference count
  current,    \* the chunk behind RecordBatch(), 0 if none
  done,       \* the end was reached
  err,        \* an error was met
  canceled,   \* the query's context is cancelled
  \* what the application received
  delivered,  \* chunks, in order
  \* history
  skipped     \* batches the server served twice over: the first was lost

cursor == <<buffered, needsMore, closed>>
reader == <<pc, refs, current, done, err>>
srv    == <<result, sent, session>>
app    == <<delivered, skipped>>
vars   == <<srv, cursor, reader, canceled, app>>

Pcs == {"new", "ready", "next", "fetch", "take", "drain", "over"}

Batches(r) == Len(result[r].cut)
Total(r) == result[r].cut[Batches(r)]

\* Chunks produced when batch i is complete; past the end there are no more.
UpTo(r, i) ==
  IF i = 0 THEN 0 ELSE IF i > Batches(r) THEN Total(r) ELSE result[r].cut[i]

Batch(r, i) ==
  [k \in 1..(UpTo(r, i) - UpTo(r, i - 1)) |-> UpTo(r, i - 1) + k]

TypeOK ==
  /\ result \in [Readers -> Results]
  /\ sent \in [Readers -> Nat]
  /\ session \in BOOLEAN
  /\ buffered \in [Readers -> Seq(Nat)]
  /\ needsMore \in [Readers -> BOOLEAN]
  /\ closed \in [Readers -> BOOLEAN]
  /\ pc \in [Readers -> Pcs]
  /\ refs \in [Readers -> 0..MaxRefs]
  /\ current \in [Readers -> Nat]
  /\ done \in [Readers -> BOOLEAN]
  /\ err \in [Readers -> BOOLEAN]
  /\ canceled \in [Readers -> BOOLEAN]
  /\ delivered \in [Readers -> Seq(Nat)]
  /\ skipped \in [Readers -> SUBSET Nat]

Init ==
  /\ result \in [Readers -> Results]
  /\ sent = [r \in Readers |-> 0]
  /\ session = TRUE
  /\ buffered = [r \in Readers |-> <<>>]
  /\ needsMore = [r \in Readers |-> FALSE]
  /\ closed = [r \in Readers |-> FALSE]
  /\ pc = [r \in Readers |-> "new"]
  /\ refs = [r \in Readers |-> 0]
  /\ current = [r \in Readers |-> 0]
  /\ done = [r \in Readers |-> FALSE]
  /\ err = [r \in Readers |-> FALSE]
  /\ canceled = [r \in Readers |-> FALSE]
  /\ delivered = [r \in Readers |-> <<>>]
  /\ skipped = [r \in Readers |-> {}]
----------------------------------------------------------------------------
(***************************************************************************)
(* One exchange with the server.  Nothing of this result changes while its *)
(* call is blocked in Send, so request and reply are one step.             *)
(***************************************************************************)

(***************************************************************************)
(* Slips: operations with a mistake in them, to see that the properties    *)
(* notice; no specification uses them.                                     *)
(***************************************************************************)
SlipReceivedFront(r, i) ==       \* new chunks go before the ones held
  /\ sent' = [sent EXCEPT ![r] = i]
  /\ buffered' = [buffered EXCEPT ![r] = Batch(r, i) \o @]
  /\ needsMore' = [needsMore EXCEPT ![r] = i < Batches(r)]

\* The server serves batch i and its reply is read.
Received(r, i) ==
  /\ sent' = [sent EXCEPT ![r] = i]
  /\ buffered' = [buffered EXCEPT ![r] = @ \o Batch(r, i)]
  /\ needsMore' = [needsMore EXCEPT ![r] = i < Batches(r)]

Prepared(r) ==
  /\ session /\ ~canceled[r]
  /\ Received(r, 1)
  /\ UNCHANGED <<result, session, closed, skipped>>

Fetched(r) ==
  /\ session /\ ~canceled[r]
  /\ \/ Received(r, sent[r] + 1) /\ UNCHANGED skipped
     \/ /\ "resent" \in Faults
        /\ Received(r, sent[r] + 2)
        /\ skipped' = [skipped EXCEPT ![r] = @ \union {sent[r] + 1}]
  /\ UNCHANGED <<result, session, closed>>

ExchangeFails(r) ==
  /\ \/ /\ ~session \/ canceled[r] \/ "refused" \in Faults
        /\ UNCHANGED sent
     \/ /\ session /\ "lost" \in Faults
        /\ sent' = [sent EXCEPT ![r] = @ + 1]
  /\ UNCHANGED <<result, session, needsMore, skipped>>

CloseCursor(r) ==
  /\ closed' = [closed EXCEPT ![r] = TRUE]
  /\ buffered' = [buffered EXCEPT ![r] = <<>>]

Goto(r, to) == pc' = [pc EXCEPT ![r] = to]

SlipNextKeepsRecord(r) ==        \* the previous record is not dropped
  /\ pc[r] = "ready" /\ refs[r] > 0
  /\ ~err[r] /\ ~done[r]
  /\ Goto(r, "next")
  /\ UNCHANGED <<srv, cursor, refs, current, done, err, canceled, app>>

SlipNextAfterError(r) ==         \* the sticky error is not looked at
  /\ pc[r] = "ready" /\ refs[r] > 0
  /\ ~done[r]
  /\ Goto(r, "next")
  /\ current' = [current EXCEPT ![r] = 0]
  /\ UNCHANGED <<srv, cursor, refs, done, err, canceled, app>>

SlipPrefetch(r) ==               \* fetches although chunks are left
  /\ pc[r] = "next"
  /\ IF needsMore[r] THEN Goto(r, "fetch") ELSE Goto(r, "take")
  /\ UNCHANGED <<srv, cursor, refs, current, done, err, canceled, app>>

SlipFetchErrorEnds(r) ==         \* a failed fetch looks like the end
  /\ pc[r] = "fetch"
  /\ \/ Fetched(r)
     \/ ExchangeFails(r) /\ UNCHANGED <<buffered, closed>>
  /\ Goto(r, "take")
  /\ UNCHANGED <<refs, current, done, err, canceled, delivered>>

SlipFetchRetries(r) ==           \* a failed fetch is tried again for ever
  /\ pc[r] = "fetch"
  /\ \/ Fetched(r) /\ Goto(r, "take")
     \/ ExchangeFails(r) /\ UNCHANGED <<buffered, closed, pc>>
  /\ UNCHANGED <<refs, current, done, err, canceled, delivered>>

----------------------------------------------------------------------------
\* session.cursor: PREPARE.  The cursor goes to a reader or to drainAll; a
\* prepare that fails leaves nothing behind.
Prepare(r) ==
  /\ pc[r] = "new"
  /\ \/ /\ Prepared(r)
        /\ \/ Goto(r, "ready") /\ refs' = [refs EXCEPT ![r] = 1]
           \/ Goto(r, "drain") /\ UNCHANGED refs
        /\ UNCHANGED err
     \/ /\ ExchangeFails(r)
        /\ Goto(r, "over")
        /\ err' = [err EXCEPT ![r] = TRUE]
        /\ UNCHANGED <<buffered, closed, refs>>
  /\ UNCHANGED <<current, done, canceled, delivered>>

\* Next: false for good after an error or the end; else drop the current
\* record and go looking for the next chunk.
NextRecord(r) ==
  /\ pc[r] = "ready" /\ refs[r] > 0
  /\ ~err[r] /\ ~done[r]
  /\ Goto(r, "next")
  /\ current' = [current EXCEPT ![r] = 0]
  /\ UNCHANGED <<srv, cursor, refs, done, err, canceled, app>>

\* nextChunk, first half: fetch once if the buffer is empty.
NextChunk(r) ==
  /\ pc[r] = "next"
  /\ IF buffered[r] = <<>> /\ needsMore[r]
       THEN Goto(r, "fetch")
       ELSE Goto(r, "take")
  /\ UNCHANGED <<srv, cursor, refs, current, done, err, canceled, app>>

FetchMore(r) ==
  /\ pc[r] = "fetch"
  /\ \/ Fetched(r) /\ Goto(r, "take") /\ UNCHANGED err
     \/ /\ ExchangeFails(r)
        /\ Goto(r, "ready")
        /\ err' = [err EXCEPT ![r] = TRUE]
        /\ UNCHANGED <<buffered, closed>>
  /\ UNCHANGED <<refs, current, done, canceled, delivered>>

\* nextChunk, second half, and what Next does with the answer: no chunk is
\* the end, a hollow chunk is skipped, any other becomes the record.
TakeNone(r) ==
  /\ pc[r] = "take"
  /\ buffered[r] = <<>>
  /\ Goto(r, "ready")
  /\ done' = [done EXCEPT ![r] = TRUE]
  /\ UNCHANGED <<srv, cursor, refs, current, err, canceled, app>>

TakeChunk(r) ==
  /\ pc[r] = "take"
  /\ buffered[r] # <<>>
  /\ buffered' = [buffered EXCEPT ![r] = Tail(@)]
  /\ LET chunk == Head(buffered[r])
     IN  \/ /\ chunk \in result[r].hollow
            /\ Goto(r, "next")
            /\ UNCHANGED <<current, delivered, err>>
         \/ /\ chunk \notin result[r].hollow
            /\ Goto(r, "ready")
            /\ current' = [current EXCEPT ![r] = chunk]
            /\ delivered' = [delivered EXCEPT ![r] = Append(@, chunk)]
            /\ UNCHANGED err
         \/ /\ chunk \notin result[r].hollow
            /\ "convert" \in Faults
            /\ Goto(r, "ready")
            /\ err' = [err EXCEPT ![r] = TRUE]
            /\ UNCHANGED <<current, delivered>>
  /\ UNCHANGED <<srv, needsMore, closed, refs, done, canceled, skipped>>

Retain(r) ==
  /\ pc[r] = "ready" /\ refs[r] \in 1..(MaxRefs - 1)
  /\ refs' = [refs EXCEPT ![r] = @ + 1]
  /\ UNCHANGED <<srv, cursor, pc, current, done, err, canceled, app>>

\* Release: the last one drops the record and closes the cursor.
Release(r) ==
  /\ pc[r] = "ready" /\ refs[r] > 0
  /\ refs' = [refs EXCEPT ![r] = @ - 1]
  /\ IF refs[r] = 1
       THEN /\ CloseCursor(r)
            /\ current' = [current EXCEPT ![r] = 0]
            /\ Goto(r, "over")
       ELSE UNCHANGED <<buffered, closed, current, pc>>
  /\ UNCHANGED <<srv, needsMore, done, err, canceled, app>>

\* drainPrepared: fetch as long as there is more, then hand over every
\* chunk; on an error hand over none.
DrainFetch(r) ==
  /\ pc[r] = "drain" /\ needsMore[r]
  /\ \/ Fetched(r) /\ UNCHANGED <<pc, err>>
     \/ /\ ExchangeFails(r)
        /\ CloseCursor(r)
        /\ Goto(r, "over")
        /\ err' = [err EXCEPT ![r] = TRUE]
  /\ UNCHANGED <<refs, current, done, canceled, delivered>>

DrainDone(r) ==
  /\ pc[r] = "drain" /\ ~needsMore[r]
  /\ delivered' = [delivered EXCEPT ![r] = buffered[r]]
  /\ done' = [done EXCEPT ![r] = TRUE]
  /\ CloseCursor(r)
  /\ Goto(r, "over")
  /\ UNCHANGED <<srv, needsMore, refs, current, err, canceled, skipped>>

Cancel(r) ==
  /\ "cancel" \in Faults
  /\ ~canceled[r]
  /\ canceled' = [canceled EXCEPT ![r] = TRUE]
  /\ UNCHANGED <<srv, cursor, reader, app>>

SessionClose ==
  /\ "close" \in Faults
  /\ session
  /\ session' = FALSE
  /\ UNCHANGED <<result, sent, cursor, reader, canceled, app>>

\* Steps a call takes once it has started.
Step(r) ==
  \/ NextChunk(r) \/ FetchMore(r) \/ TakeNone(r) \/ TakeChunk(r)
  \/ DrainFetch(r) \/ DrainDone(r)

Next ==
  \/ \E r \in Readers :
       Prepare(r) \/ NextRecord(r) \/ Step(r) \/ Retain(r) \/ Release(r) \/ Cancel(r)
  \/ SessionClose

Spec == Init /\ [][Next]_vars

\* A call that has started runs on: its Sends return by their timeout, the
\* rest is straight-line code of the calling goroutine.
FairSpec == Spec /\ \A r \in Readers : WF_vars(Step(r))
----------------------------------------------------------------------------
(***************************************************************************)
(* Properties.                                                             *)
(***************************************************************************)
Given(r) == {delivered[r][i] : i \in DOMAIN delivered[r]}

\* The chunks with rows, but for those of a batch the server has served and
\* the transport thrown away: the cursor cannot know of these.
Due(r) ==
  (1..Total(r)) \ (result[r].hollow \union
     UNION {(UpTo(r, i - 1) + 1)..UpTo(r, i) : i \in skipped[r]})

\* The application receives a result's chunks in the server's order, none
\* twice and none left out, whatever happens to the fetches and whichever
\* other results are read in between.
InOrder ==
  \A r \in Readers : \A i \in DOMAIN delivered[r] :
    LET before == {delivered[r][j] : j \in 1..(i - 1)}
    IN  /\ \A c \in before : c < delivered[r][i]
        /\ \A c \in Due(r) : c < delivered[r][i] => c \in before

\* Said of nextChunk in session.go:125, "Returns (nil, nil) when the result
\* set is exhausted", which Next turns into the end of the stream: a reader
\* that has ended without an error has delivered every chunk with rows, and
\* so has drainAll.  There is one exception: nextChunk fetches once only, so
\* a FETCH_RESPONSE that has no chunk and says there are more is taken for
\* the end (drainAll goes on); what came before it has been delivered.
EndMeansAll ==
  \A r \in Readers :
    done[r] /\ ~err[r] =>
      \/ Due(r) \subseteq Given(r)
      \/ /\ needsMore[r] /\ Batch(r, sent[r]) = <<>>
         /\ \A c \in Due(r) : c <= UpTo(r, sent[r]) => c \in Given(r)

\* Said of cursor in session.go:66-69: peak memory "is bounded by the
\* server's batch size": a streaming reader never holds chunks of two
\* batches.
OneBatchBuffered ==
  \A r \in Readers :
    refs[r] > 0 =>
      \E i \in 1..(Batches(r) + 1) :
        {buffered[r][k] : k \in DOMAIN buffered[r]}
          \subseteq (UpTo(r, i - 1) + 1)..UpTo(r, i)

\* The record a reader exposes is the last one it delivered, and only while
\* it is still open: never the one of an earlier Next after an error, the
\* end or the last Release.
CurrentIsLast ==
  \A r \in Readers :
    current[r] # 0 =>
      /\ refs[r] > 0 /\ ~done[r] /\ ~err[r]
      /\ delivered[r] # <<>> /\ current[r] = delivered[r][Len(delivered[r])]

\* The reader's fields agree with one another and with what was delivered.
ReaderOK == TypeOK /\ CurrentIsLast

\* After an error or the end a reader delivers nothing more and asks the
\* server for nothing more: an error is not retried into a gap.
StopsForGood ==
  [][\A r \in Readers :
       err[r] \/ done[r] => UNCHANGED <<delivered[r], sent[r]>>]_vars

\* Every Next and every drain returns.
NextReturns ==
  \A r \in Readers :
    pc[r] \in {"next", "fetch", "take", "drain"} ~> pc[r] \in {"ready", "over"}
============================================================================
