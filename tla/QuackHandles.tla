---------------------------- MODULE QuackHandles ----------------------------
(***************************************************************************)
(* The C shell (pkg/quack): the functions an ADBC driver manager calls on  *)
(* database, connection and statement structs.  A struct holds a handle on *)
(* a Go object; connections and statements carry a cancellableContext, the *)
(* cell a Cancel from another thread reads and clears without a lock; a    *)
(* panic in any function poisons the whole library.                        *)
(*                                                                         *)
(* Each connection and statement has one thread that makes its calls and   *)
(* one that may call Cancel at any time: adbc.h asks that Cancel be thread *)
(* safe and nothing else.  What a call does is a step that succeeds, fails *)
(* or panics.  A struct lives once: releasing it and allocating it again   *)
(* gives another handle.                                                   *)
(***************************************************************************)
EXTENDS FiniteSets, Naturals

CONSTANTS
  Connections,   \* AdbcConnection structs
  Statements,    \* AdbcStatement structs
  Cancelers,     \* those another thread calls Cancel on
  Options,       \* keys of connection options
  Faults,        \* the faults of this instance, a subset of AllFaults
  MaxContexts    \* bound: calls that take a context

(***************************************************************************)
(* fail    a call of the driver returns an error                           *)
(* panic   a call of the driver panics                                     *)
(***************************************************************************)
AllFaults == {"fail", "panic"}

ASSUME ConstantsAssumption ==
  /\ Connections \intersect Statements = {}
  /\ Cancelers \subseteq Connections \union Statements
  /\ Faults \subseteq AllFaults
  /\ MaxContexts \in Nat

VARIABLES
  poisoned,   \* globalPoison
  db,         \* the one database struct
  handle,     \* what became of each struct
  owner,      \* the connection a statement belongs to
  initArgs,   \* options set before Init and not yet cleared
  applied,    \* options the connection has taken
  open,       \* connections whose driver object has its session open
  cell,       \* cancellableContext: ctx and cancel, 0 is nil
  made,       \* calls that took a context; each context is named by its call's number
  contexts,   \* the contexts made for each handle
  canceled,   \* those that are cancelled
  streams,    \* contexts whose result is an open ArrowArrayStream
  call,       \* the call in progress, and where it stands
  cancel,     \* the Cancel in progress
  \* history
  culprit,    \* what panicked first
  raced,      \* handles on which a Cancel met a new context or a Release
  missed      \* handles on which a Cancel returned and its call ran on

objects == <<db, handle, owner, initArgs, applied, open>>
context == <<cell, made, contexts, canceled>>
history == <<culprit, raced, missed>>
vars == <<poisoned, objects, context, streams, call, cancel, history>>

Handles == Connections \union Statements
None == "none"
Contexts == 0..MaxContexts       \* 0 is nil

Lives == {"fresh", "allocated", "ready", "released"}
Ops == {"none", "query", "remote", "local", "ok", "panic"}
Steps == {"idle", "options", "close", "read", "invoke", "clear", "store", "load", "run"}
CancelSteps == {"idle", "resolve", "read", "invoke", "clear"}

NoCall == [at |-> "idle", op |-> "none", own |-> 0, seen |-> 0, ctx |-> 0]
NoCancel == [at |-> "idle", seen |-> 0, target |-> 0]
NoContext == [ctx |-> 0, cancel |-> 0]

TypeOK ==
  /\ poisoned \in BOOLEAN
  /\ db \in Lives
  /\ handle \in [Handles -> Lives]
  /\ owner \in [Statements -> Connections \union {None}]
  /\ initArgs \in [Connections -> SUBSET Options]
  /\ applied \in [Connections -> SUBSET Options]
  /\ open \subseteq Connections
  /\ cell \in [Handles -> [ctx : Contexts, cancel : Contexts]]
  /\ made \in Contexts
  /\ contexts \in [Handles -> SUBSET Contexts]
  /\ canceled \subseteq Contexts
  /\ streams \in [Statements -> SUBSET Contexts]
  /\ call \in [Handles -> [at : Steps, op : Ops, own : Contexts,
                         seen : Contexts, ctx : Contexts]]
  /\ cancel \in [Handles -> [at : CancelSteps, seen : Contexts, target : Contexts]]
  /\ culprit \in {"none", "call", "cancel"}
  /\ raced \subseteq Handles /\ missed \subseteq Handles
  /\ \A h \in Handles : handle[h] \in {"fresh", "allocated"} => cell[h] = NoContext

Init ==
  /\ poisoned = FALSE
  /\ db = "fresh"
  /\ handle = [h \in Handles |-> "fresh"]
  /\ owner = [s \in Statements |-> None]
  /\ initArgs = [c \in Connections |-> {}]
  /\ applied = [c \in Connections |-> {}]
  /\ open = {}
  /\ cell = [h \in Handles |-> NoContext]
  /\ made = 0
  /\ contexts = [h \in Handles |-> {}]
  /\ canceled = {}
  /\ streams = [s \in Statements |-> {}]
  /\ call = [h \in Handles |-> NoCall]
  /\ cancel = [h \in Handles |-> NoCancel]
  /\ culprit = "none"
  /\ raced = {}
  /\ missed = {}
----------------------------------------------------------------------------
\* checkDBAlloc, checkConnAlloc, checkStmtAlloc: not poisoned, private_data set.
CheckAlloc(life) == ~poisoned /\ life \in {"allocated", "ready"}

\* checkDBInit, checkConnInit, checkStmtInit.
CheckInit(life) == ~poisoned /\ life = "ready"

Idle(h) == call[h].at = "idle"

Goto(h, to) == call' = [call EXCEPT ![h].at = to]

Return(h) == call' = [call EXCEPT ![h] = NoCall]

\* poison: the deferred recover of every function.
Poison(by) ==
  /\ poisoned' = TRUE
  /\ culprit' = IF poisoned THEN culprit ELSE by

Panics(h) == "panic" \in Faults /\ Return(h) /\ Poison("call")

\* A call of the driver ends without the effect it was made for.
FailsCall(h) ==
  \/ "fail" \in Faults /\ Return(h) /\ UNCHANGED <<poisoned, culprit>>
  \/ Panics(h)

\* The context the application has in use: that of the call that runs, or
\* of the newest result it is reading.
InUse(h) ==
  CASE call[h].at = "run" -> call[h].ctx
    [] Idle(h) /\ h \in Statements ->
         LET read == {k \in streams[h] : \A l \in contexts[h] : l <= k}
         IN  IF read = {} THEN 0 ELSE CHOOSE k \in read : TRUE
    [] OTHER -> 0

\* Steps at which a context is made or an object released.
Making == {"close", "read", "invoke", "clear", "store", "load"}

Mark(h, meets) == raced' = IF meets THEN raced \union {h} ELSE raced
----------------------------------------------------------------------------
(***************************************************************************)
(* Database and connection objects.                                        *)
(***************************************************************************)
DatabaseCall ==
  /\ \/ /\ \/ db = "fresh" /\ ~poisoned /\ db' = "allocated"          \* New
           \/ CheckAlloc(db) /\ db = "allocated" /\ db' = "ready"     \* Init
           \/ CheckAlloc(db) /\ db' = "released"                      \* Release
        /\ UNCHANGED <<poisoned, culprit>>
     \/ "panic" \in Faults /\ CheckAlloc(db) /\ Poison("call") /\ UNCHANGED db
  /\ UNCHANGED <<handle, owner, initArgs, applied, open,
                 context, streams, call, cancel, raced, missed>>

ConnectionNew(c) ==
  /\ Idle(c) /\ ~poisoned /\ handle[c] = "fresh"
  /\ handle' = [handle EXCEPT ![c] = "allocated"]
  /\ Return(c)
  /\ UNCHANGED <<poisoned, db, owner, initArgs, applied, open,
                 context, streams, cancel, history>>

\* Kept for Init, or passed on at once.
ConnectionSetOption(c, o) ==
  /\ Idle(c) /\ CheckAlloc(handle[c])
  /\ \/ /\ handle[c] = "allocated"
        /\ initArgs' = [initArgs EXCEPT ![c] = @ \union {o}]
        /\ UNCHANGED <<poisoned, culprit, applied, call>>
     \/ /\ handle[c] = "ready"
        /\ applied' = [applied EXCEPT ![c] = @ \union {o}]
        /\ UNCHANGED <<poisoned, culprit, initArgs, call>>
     \/ /\ handle[c] = "ready"
        /\ FailsCall(c)
        /\ UNCHANGED <<initArgs, applied>>
  /\ UNCHANGED <<db, handle, owner, open, context, streams, cancel, raced, missed>>

\* Open makes the session; the object is set before the options are.
ConnectionInit(c) ==
  /\ Idle(c) /\ CheckAlloc(handle[c]) /\ handle[c] = "allocated" /\ CheckInit(db)
  /\ \/ /\ handle' = [handle EXCEPT ![c] = "ready"]
        /\ open' = open \union {c}
        /\ Goto(c, "options")
        /\ UNCHANGED <<poisoned, culprit>>
     \/ /\ FailsCall(c)
        /\ UNCHANGED <<handle, open>>
  /\ UNCHANGED <<db, owner, initArgs, applied, context, streams, cancel, raced, missed>>

\* One option after another, in the order of the map; the first error ends it.
InitOption(c) ==
  /\ call[c].at = "options"
  /\ LET left == initArgs[c] \ applied[c]
     IN  IF left = {}
           THEN /\ initArgs' = [initArgs EXCEPT ![c] = {}]
                /\ Return(c)
                /\ UNCHANGED <<applied, poisoned, culprit>>
           ELSE /\ \/ /\ \E o \in left : applied' = [applied EXCEPT ![c] = @ \union {o}]
                      /\ UNCHANGED <<call, poisoned, culprit>>
                   \/ /\ FailsCall(c)
                      /\ UNCHANGED applied
                /\ UNCHANGED initArgs
  /\ UNCHANGED <<db, handle, owner, open, context, streams, cancel, raced, missed>>

StatementNew(s, c) ==
  /\ Idle(s) /\ Idle(c)
  /\ handle[s] = "fresh" /\ CheckInit(handle[c])
  /\ handle' = [handle EXCEPT ![s] = "ready"]
  /\ owner' = [owner EXCEPT ![s] = c]
  /\ Return(s)
  /\ UNCHANGED <<poisoned, db, initArgs, applied, open,
                 context, streams, cancel, history>>

\* Every other function, which makes no context: it changes nothing here
\* unless the driver panics.
Plain(h) ==
  /\ Idle(h) /\ CheckInit(handle[h])
  /\ Panics(h)
  /\ UNCHANGED <<objects, context, streams, cancel, raced, missed>>
----------------------------------------------------------------------------
(***************************************************************************)
(* cancellableContext.  The words of the cell are read and written without *)
(* synchronisation: between its test of c.cancel and its call of it a      *)
(* thread may read the word once or twice, and newContext may return what  *)
(* it stored or what the word holds by then.                               *)
(***************************************************************************)

\* c.cancel(): the function read before, or, read again, possibly nil.
Invoked(h, seen) == {seen, cell[h].cancel}

\* A call that takes a context: on a statement ExecuteQuery for a result
\* (query) or an update (remote), Prepare, Bind, BindStream and
\* ExecutePartitions, which ignore it (local); on a connection Commit,
\* Rollback and the metadata (remote), ReadPartition and GetTableTypes.
NewContext(h, op) ==
  /\ Idle(h) /\ CheckInit(handle[h])
  /\ made < MaxContexts
  /\ made' = made + 1
  /\ call' = [call EXCEPT ![h] = [NoCall EXCEPT !.at = "read", !.op = op, !.own = made']]
  /\ Mark(h, cancel[h].at # "idle")
  /\ UNCHANGED <<poisoned, objects, cell, contexts, canceled, streams, cancel,
                 culprit, missed>>

\* Mistake: the context before is dropped, not cancelled.
SlipDropped(h) ==
  /\ call[h].at = "read"
  /\ call' = [call EXCEPT ![h].seen = cell[h].cancel, ![h].at = "clear"]
  /\ UNCHANGED <<poisoned, objects, context, streams, cancel, history>>

\* cancelContext, by the thread that makes the call.
ReadCancel(h) ==
  /\ call[h].at = "read"
  /\ call' = [call EXCEPT ![h].seen = cell[h].cancel,
                          ![h].at = IF cell[h].cancel = 0 THEN "clear" ELSE "invoke"]
  /\ UNCHANGED <<poisoned, objects, context, streams, cancel, history>>

InvokeCancel(h) ==
  /\ call[h].at = "invoke"
  /\ \E k \in Invoked(h, call[h].seen) :
       IF k = 0
         THEN Return(h) /\ Poison("cancel") /\ UNCHANGED canceled
         ELSE /\ canceled' = canceled \union {k}
              /\ Goto(h, "clear")
              /\ UNCHANGED <<poisoned, culprit>>
  /\ UNCHANGED <<objects, cell, made, contexts, streams, cancel, raced, missed>>

\* After the deferred cancelContext of a Release, the call returns.
ClearContext(h) ==
  /\ call[h].at = "clear"
  /\ cell' = [cell EXCEPT ![h] = NoContext]
  /\ CASE call[h].op = "panic" -> Panics(h)
       [] call[h].op = "ok" -> Return(h) /\ UNCHANGED <<poisoned, culprit>>
       [] OTHER -> Goto(h, "store") /\ UNCHANGED <<poisoned, culprit>>
  /\ UNCHANGED <<objects, made, contexts, canceled, streams, cancel, raced, missed>>

StoreContext(h) ==
  /\ call[h].at = "store"
  /\ LET k == call[h].own
     IN  /\ contexts' = [contexts EXCEPT ![h] = @ \union {k}]
         /\ cell' = [cell EXCEPT ![h] = [ctx |-> k, cancel |-> k]]
  /\ Goto(h, "load")
  /\ UNCHANGED <<poisoned, objects, made, canceled, streams, cancel, history>>

LoadContext(h) ==
  /\ call[h].at = "load"
  /\ \E k \in {call[h].own, cell[h].ctx} :
       call' = [call EXCEPT ![h].at = "run", ![h].ctx = k]
  /\ UNCHANGED <<poisoned, objects, context, streams, cancel, history>>

\* The driver's part.  A request with a cancelled context may have been
\* answered before; one without a context cannot be sent.
Run(h) ==
  /\ call[h].at = "run"
  /\ LET op == call[h].op  k == call[h].ctx
     IN  \/ /\ k # 0 \/ op = "local"
            /\ Return(h)
            /\ streams' = IF op = "query" THEN [streams EXCEPT ![h] = @ \union {k}] ELSE streams
            /\ UNCHANGED <<poisoned, culprit>>
         \/ /\ "fail" \in Faults \/ (op # "local" /\ (k = 0 \/ k \in canceled))
            /\ Return(h)
            /\ UNCHANGED <<streams, poisoned, culprit>>
         \/ /\ "panic" \in Faults
            /\ Panics(h)
            /\ UNCHANGED streams
  /\ UNCHANGED <<objects, context, cancel, raced, missed>>

\* Mistake: the driver's object is not closed.
SlipLeak(h) ==
  /\ Idle(h) /\ CheckAlloc(handle[h])
  /\ handle' = [handle EXCEPT ![h] = "released"]
  /\ call' = [call EXCEPT ![h] = [NoCall EXCEPT !.at = "read", !.op = "ok"]]
  /\ Mark(h, cancel[h].at # "idle")
  /\ UNCHANGED <<poisoned, db, owner, initArgs, applied, open,
                 context, streams, cancel, culprit, missed>>

\* private_data is cleared and the handle deleted before anything else.
Release(h) ==
  /\ Idle(h) /\ CheckAlloc(handle[h])
  /\ handle' = [handle EXCEPT ![h] = "released"]
  /\ call' = [call EXCEPT ![h] = IF handle[h] = "ready"
                                   THEN [NoCall EXCEPT !.at = "close"]
                                   ELSE [NoCall EXCEPT !.at = "read", !.op = "ok"]]
  /\ Mark(h, cancel[h].at # "idle")
  /\ UNCHANGED <<poisoned, db, owner, initArgs, applied, open,
                 context, streams, cancel, culprit, missed>>

\* Close of the driver, which reports no error.  Whatever happens in it, the
\* deferred cancelContext follows.
CloseObject(h) ==
  /\ call[h].at = "close"
  /\ \E op \in {"ok"} \union ({"panic"} \intersect Faults) :
       /\ call' = [call EXCEPT ![h].at = "read", ![h].op = op]
       /\ open' = IF op = "ok" THEN open \ {h} ELSE open
  /\ UNCHANGED <<poisoned, db, handle, owner, initArgs, applied,
                 context, streams, cancel, history>>
----------------------------------------------------------------------------
(***************************************************************************)
(* Cancel, on a thread of its own.                                         *)
(***************************************************************************)
Cancel(h) ==
  /\ cancel[h].at = "idle" /\ CheckInit(handle[h])
  /\ cancel' = [cancel EXCEPT ![h] = [at |-> "resolve", seen |-> 0, target |-> InUse(h)]]
  /\ Mark(h, call[h].at \in Making)
  /\ UNCHANGED <<poisoned, objects, context, streams, call, culprit, missed>>

\* getFromHandle panics on a handle that is deleted, or nil when read again.
CancelResolve(h) ==
  /\ cancel[h].at = "resolve"
  /\ IF handle[h] = "released"
       THEN /\ cancel' = [cancel EXCEPT ![h] = NoCancel]
            /\ Poison("cancel")
       ELSE /\ cancel' = [cancel EXCEPT ![h].at = "read"]
            /\ UNCHANGED <<poisoned, culprit>>
  /\ UNCHANGED <<objects, context, streams, call, raced, missed>>

\* Mistake: the cell is cleared without its cancel being called.
SlipOnlyCleared(h) ==
  /\ cancel[h].at = "read"
  /\ cancel' = [cancel EXCEPT ![h].seen = cell[h].cancel, ![h].at = "clear"]
  /\ UNCHANGED <<poisoned, objects, context, streams, call, history>>

\* Mistake: cancel is called without a test for nil.
SlipNoNilTest(h) ==
  /\ cancel[h].at = "read"
  /\ cancel' = [cancel EXCEPT ![h].seen = cell[h].cancel, ![h].at = "invoke"]
  /\ UNCHANGED <<poisoned, objects, context, streams, call, history>>

CancelRead(h) ==
  /\ cancel[h].at = "read"
  /\ cancel' = [cancel EXCEPT ![h].seen = cell[h].cancel,
                              ![h].at = IF cell[h].cancel = 0 THEN "clear" ELSE "invoke"]
  /\ UNCHANGED <<poisoned, objects, context, streams, call, history>>

CancelInvoke(h) ==
  /\ cancel[h].at = "invoke"
  /\ \E k \in Invoked(h, cancel[h].seen) :
       IF k = 0
         THEN /\ cancel' = [cancel EXCEPT ![h] = NoCancel]
              /\ Poison("cancel")
              /\ UNCHANGED canceled
         ELSE /\ canceled' = canceled \union {k}
              /\ cancel' = [cancel EXCEPT ![h].at = "clear"]
              /\ UNCHANGED <<poisoned, culprit>>
  /\ UNCHANGED <<objects, cell, made, contexts, streams, call, raced, missed>>

CancelClear(h) ==
  /\ cancel[h].at = "clear"
  /\ cell' = [cell EXCEPT ![h] = NoContext]
  /\ cancel' = [cancel EXCEPT ![h] = NoCancel]
  /\ missed' = IF cancel[h].target \in canceled \union {0} THEN missed ELSE missed \union {h}
  /\ UNCHANGED <<poisoned, objects, made, contexts, canceled, streams, call, culprit, raced>>
----------------------------------------------------------------------------
\* The stream functions do not look at the poison.
StreamRelease(s, k) ==
  /\ k \in streams[s]
  /\ streams' = [streams EXCEPT ![s] = @ \ {k}]
  /\ UNCHANGED <<poisoned, objects, context, call, cancel, history>>

----------------------------------------------------------------------------
Kinds(h) == IF h \in Statements THEN {"query", "remote", "local"} ELSE {"remote", "local"}

\* The steps of a call on h that has begun.
Step(h) ==
  \/ ReadCancel(h) \/ InvokeCancel(h) \/ ClearContext(h) \/ StoreContext(h)
  \/ LoadContext(h) \/ Run(h) \/ CloseObject(h)

CancelStep(h) ==
  CancelResolve(h) \/ CancelRead(h) \/ CancelInvoke(h) \/ CancelClear(h)

OnConnection(c) ==
  \/ ConnectionNew(c) \/ ConnectionInit(c) \/ InitOption(c)
  \/ \E o \in Options : ConnectionSetOption(c, o)
  \/ \E s \in Statements : StatementNew(s, c)

OnStatement(s) ==
  \E k \in streams[s] : StreamRelease(s, k)

OnHandle(h) ==
  \/ Plain(h) \/ Release(h) \/ CancelStep(h) \/ Step(h)
  \/ h \in Cancelers /\ Cancel(h)
  \/ \E op \in Kinds(h) : NewContext(h, op)

Next ==
  \/ DatabaseCall
  \/ \E c \in Connections : OnConnection(c)
  \/ \E s \in Statements : OnStatement(s)
  \/ \E h \in Handles : OnHandle(h)

Spec == Init /\ [][Next]_vars
----------------------------------------------------------------------------
(***************************************************************************)
(* Properties.                                                             *)
(***************************************************************************)
Live(h) == contexts[h] \ canceled

\* A Cancel that began while a call was running or its result was being read
\* has cancelled it when it returns, unless on this handle a Cancel has met
\* the making of a context or a Release: newContext and cancelContext in
\* pkg/quack/driver.go:280-292 share two words without a lock.  adbc.h says
\* of Cancel "This must always be thread-safe" (1480, 2133), without exception.
CancelReaches == missed \subseteq raced

\* At most one context of a handle is live, and the handle can cancel it: a
\* new execution invalidates the results of the ones before, as adbc.h:912
\* says, and a Release leaves nothing running.
OneLive == \A h \in Handles \ raced : Live(h) \subseteq {cell[h].cancel}

\* A call never runs with the context of another, or with none.
RunsWithItsOwn ==
  \A h \in Handles \ raced :
    call[h].at = "run" => call[h].ctx = call[h].own

\* The library is poisoned by a panic of the driver, or, without one, by a
\* Cancel that met another call: never by one thread alone.
PoisonHasCause ==
  /\ poisoned <=> culprit # "none"
  /\ culprit = "cancel" => raced # {}

\* Said of QuackConnectionInit and QuackConnectionRelease: a session is open
\* only while the application has a handle it can release it by, also when
\* Init failed at an option; but not when a Close has panicked.
OpenHasOwner ==
  \A c \in open :
    \/ handle[c] = "ready"
    \/ call[c].at = "close"
    \/ call[c].op = "panic"
    \/ poisoned

\* The state of the cells: of a handle no other thread has raced with, one
\* context at most is live, the cell's, and a call runs with its own.
ContextsOK == OneLive /\ RunsWithItsOwn

\* The state of the objects: well formed, and no session without an owner.
ObjectsOK == TypeOK /\ OpenHasOwner
============================================================================
