------------------------ MODULE QuackHandles_proofs ------------------------
(***************************************************************************)
(* Proofs about QuackHandles, for any connections, statements, cancelers,  *)
(* options, faults and number of calls.                                    *)
(***************************************************************************)
EXTENDS QuackHandles, TLAPS

\* How a call, its operation and its context's number go together.
CallInv(h) ==
  /\ Idle(h) => call[h] = NoCall
  /\ ~Idle(h) => handle[h] \in {"ready", "released"}
  /\ call[h].at \in {"read", "invoke", "clear"} =>
       call[h].op \in {"ok", "panic"} \/ call[h].own \in 1..made
  /\ call[h].at \in {"store", "load", "run"} => call[h].own \in 1..made
  /\ call[h].op = "panic" => call[h].at \in {"read", "invoke", "clear"}
  /\ contexts[h] \subseteq 1..made

\* OpenHasOwner, of one handle.
Owned(h) ==
  h \in open =>
    handle[h] = "ready" \/ call[h].at = "close" \/ call[h].op = "panic" \/ poisoned

\* A handle that has not been used has no context.
Blank(h) == handle[h] \in {"fresh", "allocated"} => cell[h] = NoContext

\* One of the two threads of a handle leaves the cell alone while the other
\* makes a context or cancels.
Apart(h) ==
  /\ cancel[h].at = "idle" \/ call[h].at \notin Making
  /\ cancel[h].at # "idle" => handle[h] = "ready"

\* What the cell holds, as the thread that makes the calls goes along.
CellInv(h) ==
  /\ Live(h) \subseteq {cell[h].cancel}
  /\ call[h].at = "invoke" => call[h].seen # 0 /\ cell[h].cancel = call[h].seen
  /\ call[h].at \in {"clear", "store"} => Live(h) = {}
  /\ call[h].at = "load" => cell[h].ctx = call[h].own /\ call[h].own \in contexts[h]
  /\ call[h].at = "run" => call[h].ctx = call[h].own /\ call[h].own \in contexts[h]
  /\ h \in Statements => streams[h] \subseteq contexts[h]

\* What a Cancel has seen, and what is left of what it is to cancel.
CancelInv(h) ==
  /\ cancel[h].at = "invoke" => cancel[h].seen # 0 /\ cell[h].cancel = cancel[h].seen
  /\ cancel[h].at \in {"resolve", "read", "invoke"} =>
       cancel[h].target \in canceled \union {0, cell[h].cancel}
  /\ cancel[h].at = "clear" => cancel[h].target \in canceled \union {0} /\ Live(h) = {}

\* Of a handle a Cancel and a call have not met on.
Calm(h) == Apart(h) /\ CellInv(h) /\ CancelInv(h) /\ h \notin missed

HandleInv(h) ==
  /\ CallInv(h) /\ Owned(h) /\ Blank(h)
  /\ h \notin raced => Calm(h)

\* TypeOK, less what it says of the cells of handles not used.
CallType == [at : Steps, op : Ops, own : Contexts, seen : Contexts, ctx : Contexts]
CancelType == [at : CancelSteps, seen : Contexts, target : Contexts]

ObjectTypes ==
  /\ db \in Lives
  /\ handle \in [Handles -> Lives]
  /\ owner \in [Statements -> Connections \union {None}]
  /\ initArgs \in [Connections -> SUBSET Options]
  /\ applied \in [Connections -> SUBSET Options]
  /\ open \subseteq Connections

ContextTypes ==
  /\ cell \in [Handles -> [ctx : Contexts, cancel : Contexts]]
  /\ made \in Contexts
  /\ contexts \in [Handles -> SUBSET Contexts]
  /\ canceled \subseteq Contexts
  /\ streams \in [Statements -> SUBSET Contexts]

ThreadTypes ==
  /\ poisoned \in BOOLEAN
  /\ call \in [Handles -> CallType]
  /\ cancel \in [Handles -> CancelType]
  /\ culprit \in {"none", "call", "cancel"}
  /\ raced \subseteq Handles /\ missed \subseteq Handles

Types == ObjectTypes /\ ContextTypes /\ ThreadTypes

IInv ==
  /\ Types
  /\ PoisonHasCause
  /\ \A h \in Handles : HandleInv(h)
----------------------------------------------------------------------------
\* What one actor's step leaves as it was on another handle, and what only grows.
Untouched(g) ==
  /\ handle'[g] = handle[g] /\ call'[g] = call[g] /\ cancel'[g] = cancel[g]
  /\ cell'[g] = cell[g] /\ contexts'[g] = contexts[g]
  /\ g \in Statements => streams'[g] = streams[g]
  /\ g \in open' <=> g \in open
  /\ g \in raced' <=> g \in raced
  /\ g \in missed' <=> g \in missed

Grows ==
  /\ poisoned => poisoned'
  /\ made <= made' /\ canceled \subseteq canceled'

\* A step of the threads of h.
Moves(h) ==
  /\ Types' /\ PoisonHasCause' /\ Grows
  /\ HandleInv(h)'
  /\ \A g \in Handles \ {h} : Untouched(g)

LEMMA NumbersOK == Contexts \subseteq Nat /\ 0 \in Contexts /\ NoCall \in CallType /\ NoCancel \in CancelType
  /\ NoContext \in [ctx : Contexts, cancel : Contexts]
<1>1. Contexts \subseteq Nat /\ 0 \in Contexts
  BY ConstantsAssumption DEF Contexts
<1>2. "idle" \in Steps /\ "none" \in Ops /\ "idle" \in CancelSteps
  BY DEF Steps, Ops, CancelSteps
<1> QED
  BY <1>1, <1>2 DEF NoCall, NoCancel, NoContext, CallType, CancelType

\* The frame: a handle on which nothing happens keeps its invariant.
LEMMA UntouchedKeeps ==
  ASSUME IInv, NEW g \in Handles, Types', Grows, Untouched(g)
  PROVE  HandleInv(g)'
<1>1. HandleInv(g)
  BY DEF IInv
<1>2. made \in Nat /\ made' \in Nat /\ Contexts' = Contexts
  BY NumbersOK DEF IInv, Types, ContextTypes, Contexts
<1>3. 1..made \subseteq 1..made'
  BY <1>2 DEF Grows
<1>4. CallInv(g)' /\ Owned(g)' /\ Blank(g)'
  BY <1>1, <1>3 DEF HandleInv, CallInv, Owned, Blank, Untouched, Grows, Idle
<1>5. ASSUME g \notin raced' PROVE Calm(g)'
  <2>1. Calm(g)
    BY <1>1, <1>5 DEF HandleInv, Untouched
  <2>2. Live(g)' \subseteq Live(g)
    BY DEF Live, Untouched, Grows
  <2>3. Apart(g)' /\ g \notin missed'
    BY <2>1 DEF Calm, Apart, Untouched
  <2>4. CellInv(g)'
    BY <2>1, <2>2 DEF Calm, CellInv, Untouched
  <2>5. CancelInv(g)'
    BY <2>1, <2>2 DEF Calm, CancelInv, Untouched, Grows
  <2> QED BY <2>3, <2>4, <2>5 DEF Calm
<1> QED
  BY <1>4, <1>5 DEF HandleInv

LEMMA OneMoves ==
  ASSUME IInv, NEW h \in Handles, Moves(h)
  PROVE  IInv'
<1>1. ASSUME NEW g \in Handles PROVE HandleInv(g)'
  <2>1. CASE g = h
    BY <2>1 DEF Moves
  <2>2. CASE g # h
    BY <2>2, UntouchedKeeps DEF Moves
  <2> QED BY <2>1, <2>2
<1>2. Handles' = Handles
  BY DEF Handles
<1> QED
  BY <1>1, <1>2 DEF IInv, Moves

LEMMA PoisonKeeps ==
  ASSUME PoisonHasCause, ThreadTypes, raced \subseteq raced',
         \/ poisoned' = poisoned /\ culprit' = culprit
         \/ \E by \in {"call", "cancel"} : Poison(by) /\ (by = "cancel" => raced' # {})
  PROVE  /\ PoisonHasCause'
         /\ poisoned' \in BOOLEAN /\ culprit' \in {"none", "call", "cancel"}
         /\ poisoned => poisoned'
<1>1. CASE poisoned' = poisoned /\ culprit' = culprit
  BY <1>1 DEF PoisonHasCause, ThreadTypes
<1>2. ASSUME NEW by \in {"call", "cancel"}, Poison(by), by = "cancel" => raced' # {}
      PROVE  /\ PoisonHasCause'
             /\ poisoned' \in BOOLEAN /\ culprit' \in {"none", "call", "cancel"}
             /\ poisoned => poisoned'
  <2>1. poisoned' = TRUE
    BY <1>2 DEF Poison
  <2>2. poisoned => culprit # "none" /\ culprit' = culprit
    BY <1>2 DEF PoisonHasCause, Poison
  <2>3. ~poisoned => culprit' = by
    BY <1>2 DEF Poison
  <2>4. culprit' # "none" /\ culprit' \in {"none", "call", "cancel"}
    BY <1>2, <2>2, <2>3 DEF ThreadTypes
  <2>5. culprit' = "cancel" => raced' # {}
    BY <1>2, <2>2, <2>3 DEF PoisonHasCause
  <2> QED BY <2>1, <2>4, <2>5 DEF PoisonHasCause
<1> QED
  BY <1>1, <1>2
----------------------------------------------------------------------------
\* A step of the thread that makes the calls on h, and one of its Cancel.
LEMMA CallSet ==
  ASSUME ThreadTypes, NEW h \in Handles, NEW x \in CallType, call' = [call EXCEPT ![h] = x]
  PROVE  /\ call' \in [Handles -> CallType] /\ call'[h] = x
         /\ \A g \in Handles \ {h} : call'[g] = call[g]
BY DEF ThreadTypes

LEMMA CancelSet ==
  ASSUME ThreadTypes, NEW h \in Handles, NEW x \in CancelType, cancel' = [cancel EXCEPT ![h] = x]
  PROVE  /\ cancel' \in [Handles -> CancelType] /\ cancel'[h] = x
         /\ \A g \in Handles \ {h} : cancel'[g] = cancel[g]
BY DEF ThreadTypes

LEMMA Numbers ==
  ASSUME Types, NEW h \in Handles
  PROVE  /\ made \in Nat
         /\ call[h].own \in Contexts /\ call[h].seen \in Contexts /\ call[h].ctx \in Contexts
         /\ call[h].at \in Steps /\ call[h].op \in Ops /\ call[h] \in CallType
         /\ cancel[h].seen \in Contexts /\ cancel[h].target \in Contexts
         /\ cancel[h] \in CancelType
         /\ cell[h] \in [ctx : Contexts, cancel : Contexts]
         /\ cell[h].ctx \in Contexts /\ cell[h].cancel \in Contexts
BY NumbersOK DEF Types, ContextTypes, ThreadTypes, CallType, CancelType

\* The record of a call that begins.
LEMMA NoCallFields ==
  NoCall.at = "idle" /\ NoCall.op = "none" /\ NoCall.own = 0 /\ NoCall.seen = 0 /\ NoCall.ctx = 0
BY DEF NoCall

Begin(at, op, n) == [NoCall EXCEPT !.at = at, !.op = op, !.own = n]

LEMMA NewCall ==
  ASSUME NEW a \in Steps, NEW o \in Ops, NEW n \in Contexts
  PROVE  /\ Begin(a, o, n) \in CallType
         /\ Begin(a, o, n).at = a /\ Begin(a, o, n).op = o /\ Begin(a, o, n).own = n
         /\ Begin(a, o, n).seen = 0 /\ Begin(a, o, n).ctx = 0
BY NumbersOK, NoCallFields DEF CallType, Begin

LEMMA NewContextMoves ==
  ASSUME IInv, NEW h \in Handles, NEW op \in {"query", "remote", "local"}, NewContext(h, op)
  PROVE  Moves(h)
<1>1. Types /\ PoisonHasCause /\ HandleInv(h)
  BY DEF IInv
<1>2. made \in Nat /\ made' = made + 1 /\ made' \in Contexts /\ 0 \in Contexts
  BY <1>1, Numbers, ConstantsAssumption DEF NewContext, Contexts
<1> PICK n \in Contexts : n = made'
  BY <1>2
<1> DEFINE x == Begin("read", op, n)
<1>3. x \in CallType /\ x.at = "read" /\ x.op = op /\ x.own = n /\ x.seen = 0 /\ x.ctx = 0
  <2>1. "read" \in Steps /\ op \in Ops
    BY DEF Steps, Ops
  <2> QED BY <2>1, NewCall
<1>4. call' = [call EXCEPT ![h] = x]
  BY DEF NewContext, Begin
<1>5. call' \in [Handles -> CallType] /\ call'[h] = x
      /\ \A g \in Handles \ {h} : call'[g] = call[g]
  BY <1>1, <1>3, <1>4, CallSet DEF Types
<1>6. raced' \subseteq Handles /\ raced \subseteq raced'
      /\ (\A g \in Handles \ {h} : g \in raced' <=> g \in raced)
      /\ (h \notin raced' => h \notin raced /\ cancel[h].at = "idle")
  BY <1>1 DEF NewContext, Mark, Types, ThreadTypes
<1> HIDE DEF x
<1>7. Types'
  BY <1>1, <1>2, <1>5, <1>6 DEF Types, ObjectTypes, ContextTypes, ThreadTypes, NewContext, objects,
    Handles, Contexts, CallType, CancelType
<1>8. PoisonHasCause' /\ Grows
  BY <1>1, <1>2, <1>6 DEF PoisonHasCause, Grows, NewContext
<1>9. \A g \in Handles \ {h} : Untouched(g)
  BY <1>5, <1>6 DEF Untouched, NewContext, objects
<1>10. HandleInv(h)'
  <2>1. 1..made \subseteq 1..made' /\ made + 1 \in 1..made'
    BY <1>2
  <2>2. CallInv(h)' /\ Owned(h)' /\ Blank(h)'
    BY <1>1, <1>2, <1>3, <1>5, <2>1 DEF HandleInv, CallInv, Owned, Blank, Idle, NewContext, CheckInit, objects
  <2>3. ASSUME h \notin raced' PROVE Calm(h)'
    BY <1>1, <1>3, <1>5, <1>6, <2>3 DEF HandleInv, Calm, Apart, CellInv, CancelInv, Live, NewContext
  <2> QED BY <2>2, <2>3 DEF HandleInv
<1> QED
  BY <1>7, <1>8, <1>9, <1>10 DEF Moves

LEMMA ReadCancelMoves ==
  ASSUME IInv, NEW h \in Handles, ReadCancel(h)
  PROVE  Moves(h)
<1> DEFINE x == [call[h] EXCEPT !.seen = cell[h].cancel,
                                !.at = IF cell[h].cancel = 0 THEN "clear" ELSE "invoke"]
<1>1. Types /\ PoisonHasCause /\ HandleInv(h)
  BY DEF IInv
<1>2. x \in CallType
  BY <1>1, Numbers DEF CallType, Steps
<1>3. call' \in [Handles -> CallType] /\ call'[h] = x
      /\ \A g \in Handles \ {h} : call'[g] = call[g]
  BY <1>1, <1>2, CallSet DEF Types, ThreadTypes, ReadCancel
<1>4. /\ x.at = IF cell[h].cancel = 0 THEN "clear" ELSE "invoke"
      /\ x.op = call[h].op /\ x.own = call[h].own /\ x.seen = cell[h].cancel /\ x.ctx = call[h].ctx
  BY <1>1, Numbers DEF CallType
<1> HIDE DEF x
<1>5. Types'
  BY <1>1, <1>3 DEF Types, ObjectTypes, ContextTypes, ThreadTypes, ReadCancel, objects, context, history,
    Handles, Contexts, CallType, CancelType
<1>6. PoisonHasCause' /\ Grows
  BY <1>1, Numbers DEF PoisonHasCause, Grows, ReadCancel, context, history
<1>7. \A g \in Handles \ {h} : Untouched(g)
  BY <1>3 DEF Untouched, ReadCancel, objects, context, history
<1>8. HandleInv(h)'
  <2>1. CallInv(h)' /\ Owned(h)' /\ Blank(h)'
    BY <1>1, <1>3, <1>4 DEF HandleInv, CallInv, Owned, Blank, Idle, ReadCancel, objects, context
  <2>2. ASSUME h \notin raced' PROVE Calm(h)'
    <3>1. h \notin raced /\ Calm(h) /\ cancel[h].at = "idle"
      BY <1>1, <2>2 DEF HandleInv, Calm, Apart, Making, ReadCancel, history
    <3>2. cell[h].cancel = 0 => Live(h) = {}
      BY <1>1, <3>1, Numbers DEF Calm, CellInv, HandleInv, CallInv, Live
    <3> QED
      BY <1>3, <1>4, <3>1, <3>2 DEF Calm, Apart, CellInv, CancelInv, Live, ReadCancel, context, history
  <2> QED BY <2>1, <2>2 DEF HandleInv
<1> QED
  BY <1>5, <1>6, <1>7, <1>8 DEF Moves

LEMMA ReturnCall ==
  ASSUME Types, NEW h \in Handles, Return(h)
  PROVE  /\ call' \in [Handles -> CallType] /\ call'[h] = NoCall
         /\ \A g \in Handles \ {h} : call'[g] = call[g]
BY NumbersOK, CallSet DEF Types, Return

\* The step of a call to another place.
LEMMA GotoCall ==
  ASSUME Types, NEW h \in Handles, NEW to \in Steps, Goto(h, to)
  PROVE  /\ call' \in [Handles -> CallType]
         /\ call'[h].at = to /\ call'[h].op = call[h].op /\ call'[h].own = call[h].own
         /\ call'[h].seen = call[h].seen /\ call'[h].ctx = call[h].ctx
         /\ \A g \in Handles \ {h} : call'[g] = call[g]
<1> DEFINE x == [call[h] EXCEPT !.at = to]
<1>1. /\ x \in CallType
      /\ x.at = to /\ x.op = call[h].op /\ x.own = call[h].own
      /\ x.seen = call[h].seen /\ x.ctx = call[h].ctx
  BY Numbers DEF CallType
<1>2. call' = [call EXCEPT ![h] = x]
  BY DEF Goto
<1> HIDE DEF x
<1> QED
  BY <1>1, <1>2, CallSet DEF Types

LEMMA InvokeCancelMoves ==
  ASSUME IInv, NEW h \in Handles, InvokeCancel(h)
  PROVE  Moves(h)
<1>1. Types /\ PoisonHasCause /\ HandleInv(h) /\ call[h].at = "invoke"
  BY DEF IInv, InvokeCancel
<1>2. PICK k \in Invoked(h, call[h].seen) :
        IF k = 0
          THEN Return(h) /\ Poison("cancel") /\ UNCHANGED canceled
          ELSE /\ canceled' = canceled \union {k}
               /\ Goto(h, "clear")
               /\ UNCHANGED <<poisoned, culprit>>
  BY DEF InvokeCancel
<1>3. UNCHANGED <<db, handle, owner, initArgs, applied, open, cell, made, contexts,
                  streams, cancel, raced, missed>>
  BY DEF InvokeCancel, objects
<1>4. k \in Contexts /\ made \in Nat
  BY <1>1, <1>2, Numbers DEF Invoked
<1>5. h \notin raced => Calm(h) /\ cancel[h].at = "idle" /\ k = cell[h].cancel /\ k # 0
  BY <1>1, <1>2 DEF HandleInv, Calm, Apart, CellInv, Making, Invoked
<1>6. CASE k = 0
  <2>1. Return(h) /\ Poison("cancel") /\ UNCHANGED canceled
    BY <1>2, <1>6
  <2>2. /\ call' \in [Handles -> CallType] /\ call'[h] = NoCall
        /\ \A g \in Handles \ {h} : call'[g] = call[g]
    BY <1>1, <2>1, ReturnCall
  <2>3. h \in raced /\ poisoned' = TRUE
    BY <1>5, <1>6, <2>1 DEF Poison
  <2>4. /\ PoisonHasCause' /\ (poisoned => poisoned')
        /\ poisoned' \in BOOLEAN /\ culprit' \in {"none", "call", "cancel"}
    BY <1>1, <1>3, <2>1, <2>3, PoisonKeeps DEF Types
  <2>5. Types'
    BY <1>1, <1>3, <2>1, <2>2, <2>4 DEF Types, ObjectTypes, ContextTypes, ThreadTypes,
      Handles, Contexts, CallType, CancelType
  <2>6. HandleInv(h)'
    BY <1>1, <1>3, <2>1, <2>2, <2>3, NoCallFields DEF HandleInv, CallInv, Owned, Blank, Idle, NoCall
  <2> QED
    BY <1>3, <1>4, <2>1, <2>2, <2>4, <2>5, <2>6 DEF Moves, Grows, Untouched
<1>7. CASE k # 0
  <2>1. canceled' = canceled \union {k} /\ Goto(h, "clear") /\ UNCHANGED <<poisoned, culprit>>
    BY <1>2, <1>7
  <2>2. "clear" \in Steps
    BY DEF Steps
  <2>3. /\ call' \in [Handles -> CallType]
        /\ call'[h].at = "clear" /\ call'[h].op = call[h].op /\ call'[h].own = call[h].own
        /\ \A g \in Handles \ {h} : call'[g] = call[g]
    BY <1>1, <2>1, <2>2, GotoCall
  <2>4. Types'
    BY <1>1, <1>3, <1>4, <2>1, <2>3 DEF Types, ObjectTypes, ContextTypes, ThreadTypes,
      Handles, Contexts, CallType, CancelType
  <2>5. PoisonHasCause'
    BY <1>1, <1>3, <2>1 DEF PoisonHasCause
  <2>6. HandleInv(h)'
    <3>1. CallInv(h)' /\ Owned(h)' /\ Blank(h)'
      BY <1>1, <1>3, <2>1, <2>3 DEF HandleInv, CallInv, Owned, Blank, Idle
    <3>2. ASSUME h \notin raced' PROVE Calm(h)'
      <4>1. Live(h)' = {}
        BY <1>3, <1>5, <2>1, <3>2 DEF Calm, CellInv, Live
      <4> QED
        BY <1>3, <1>5, <2>3, <3>2, <4>1 DEF Calm, Apart, CellInv, CancelInv
    <3> QED BY <3>1, <3>2 DEF HandleInv
  <2> QED
    BY <1>3, <1>4, <2>1, <2>3, <2>4, <2>5, <2>6 DEF Moves, Grows, Untouched
<1> QED
  BY <1>6, <1>7

LEMMA ClearContextMoves ==
  ASSUME IInv, NEW h \in Handles, ClearContext(h)
  PROVE  Moves(h)
<1>1. Types /\ PoisonHasCause /\ HandleInv(h) /\ call[h].at = "clear"
  BY DEF IInv, ClearContext
<1>2. UNCHANGED <<db, handle, owner, initArgs, applied, open, made, contexts,
                  canceled, streams, cancel, raced, missed>>
  BY DEF ClearContext, objects
<1>3. /\ cell' \in [Handles -> [ctx : Contexts, cancel : Contexts]] /\ cell'[h] = NoContext
      /\ \A g \in Handles \ {h} : cell'[g] = cell[g]
  BY <1>1, NumbersOK DEF ClearContext, Types, ContextTypes
<1>4. made \in Nat
  BY <1>1, Numbers
<1>5. h \notin raced => Calm(h) /\ cancel[h].at = "idle" /\ Live(h) = {}
  BY <1>1 DEF HandleInv, Calm, Apart, CellInv, Making
<1>6. \/ /\ Return(h)
         /\ Poison("call") \/ UNCHANGED <<poisoned, culprit>>
      \/ /\ Goto(h, "store") /\ poisoned' = poisoned /\ culprit' = culprit
         /\ call[h].op \notin {"ok", "panic"}
  <2>1. CASE call[h].op = "panic"
    <3>1. Panics(h)
      BY <2>1 DEF ClearContext
    <3> QED BY <3>1 DEF Panics
  <2>2. CASE call[h].op = "ok"
    BY <2>2 DEF ClearContext
  <2>3. CASE call[h].op \notin {"ok", "panic"}
    BY <2>3 DEF ClearContext
  <2> QED BY <2>1, <2>2, <2>3
<1>7. /\ PoisonHasCause' /\ (poisoned => poisoned')
      /\ poisoned' \in BOOLEAN /\ culprit' \in {"none", "call", "cancel"}
  BY <1>1, <1>2, <1>6, PoisonKeeps DEF Types
<1>8. /\ call' \in [Handles -> CallType]
      /\ \A g \in Handles \ {h} : call'[g] = call[g]
      /\ \/ call'[h] = NoCall
         \/ /\ call'[h].at = "store" /\ call'[h].op = call[h].op /\ call'[h].own = call[h].own
            /\ call[h].op \notin {"ok", "panic"}
  <2>1. "store" \in Steps
    BY DEF Steps
  <2>2. CASE Return(h)
    BY <1>1, <2>2, ReturnCall
  <2>3. CASE Goto(h, "store") /\ call[h].op \notin {"ok", "panic"}
    BY <1>1, <2>1, <2>3, GotoCall
  <2> QED BY <1>6, <2>2, <2>3
<1>9. Types'
  BY <1>1, <1>2, <1>3, <1>7, <1>8 DEF Types, ObjectTypes, ContextTypes, ThreadTypes,
    Handles, Contexts, CallType, CancelType
<1>10. HandleInv(h)'
  <2>1. CallInv(h)' /\ Blank(h)'
    BY <1>1, <1>2, <1>3, <1>8, NoCallFields DEF HandleInv, CallInv, Blank, Idle
  <2>2. Owned(h)'
    <3>1. call[h].op = "panic" => poisoned'
      BY DEF ClearContext, Panics, Poison
    <3> QED
      BY <1>1, <1>2, <1>7, <3>1 DEF HandleInv, Owned
  <2>3. ASSUME h \notin raced' PROVE Calm(h)'
    <3>1. Live(h)' = {}
      BY <1>2, <1>5, <2>3 DEF Live
    <3> QED
      BY <1>2, <1>5, <1>8, <2>3, <3>1, NoCallFields DEF Calm, Apart, CellInv, CancelInv
  <2> QED BY <2>1, <2>2, <2>3 DEF HandleInv
<1> QED
  BY <1>2, <1>3, <1>4, <1>7, <1>8, <1>9, <1>10 DEF Moves, Grows, Untouched

LEMMA StoreContextMoves ==
  ASSUME IInv, NEW h \in Handles, StoreContext(h)
  PROVE  Moves(h)
<1>1. Types /\ PoisonHasCause /\ HandleInv(h) /\ call[h].at = "store"
  BY DEF IInv, StoreContext
<1>2. UNCHANGED <<poisoned, db, handle, owner, initArgs, applied, open, made,
                  canceled, streams, cancel, culprit, raced, missed>>
  BY DEF StoreContext, objects, history
<1> PICK k \in Contexts : k = call[h].own
  BY <1>1, Numbers
<1>3. made \in Nat /\ k \in 1..made
  BY <1>1, Numbers DEF HandleInv, CallInv
<1>4. /\ cell' \in [Handles -> [ctx : Contexts, cancel : Contexts]]
      /\ cell'[h].ctx = k /\ cell'[h].cancel = k
      /\ \A g \in Handles \ {h} : cell'[g] = cell[g]
  BY <1>1 DEF StoreContext, Types, ContextTypes
<1>5. /\ contexts' \in [Handles -> SUBSET Contexts] /\ contexts'[h] = contexts[h] \union {k}
      /\ \A g \in Handles \ {h} : contexts'[g] = contexts[g]
  BY <1>1 DEF StoreContext, Types, ContextTypes
<1>6. /\ call' \in [Handles -> CallType]
      /\ call'[h].at = "load" /\ call'[h].op = call[h].op /\ call'[h].own = k
      /\ \A g \in Handles \ {h} : call'[g] = call[g]
  <2>1. "load" \in Steps /\ Goto(h, "load")
    BY DEF Steps, StoreContext
  <2> QED BY <1>1, <2>1, GotoCall
<1>7. Types'
  BY <1>1, <1>2, <1>4, <1>5, <1>6 DEF Types, ObjectTypes, ContextTypes, ThreadTypes,
    Handles, Contexts, CallType, CancelType
<1>8. PoisonHasCause'
  BY <1>1, <1>2 DEF PoisonHasCause
<1>9. HandleInv(h)'
  <2>1. CallInv(h)' /\ Owned(h)' /\ Blank(h)'
    BY <1>1, <1>2, <1>3, <1>5, <1>6 DEF HandleInv, CallInv, Owned, Blank, Idle
  <2>2. ASSUME h \notin raced' PROVE Calm(h)'
    <3>1. Calm(h) /\ cancel[h].at = "idle" /\ Live(h) = {}
      BY <1>1, <1>2, <2>2 DEF HandleInv, Calm, Apart, CellInv, Making
    <3>2. Live(h)' \subseteq {k}
      BY <1>2, <1>5, <3>1 DEF Live
    <3> QED
      BY <1>2, <1>4, <1>5, <1>6, <3>1, <3>2 DEF Calm, Apart, CellInv, CancelInv
  <2> QED BY <2>1, <2>2 DEF HandleInv
<1> QED
  BY <1>2, <1>3, <1>4, <1>5, <1>6, <1>7, <1>8, <1>9 DEF Moves, Grows, Untouched

LEMMA LoadContextMoves ==
  ASSUME IInv, NEW h \in Handles, LoadContext(h)
  PROVE  Moves(h)
<1>1. Types /\ PoisonHasCause /\ HandleInv(h) /\ call[h].at = "load"
  BY DEF IInv, LoadContext
<1>2. UNCHANGED <<poisoned, db, handle, owner, initArgs, applied, open, cell, made, contexts,
                  canceled, streams, cancel, culprit, raced, missed>>
  BY DEF LoadContext, objects, context, history
<1>3. PICK k \in {call[h].own, cell[h].ctx} : call' = [call EXCEPT ![h].at = "run", ![h].ctx = k]
  BY DEF LoadContext
<1>4. made \in Nat /\ k \in Contexts
  BY <1>1, Numbers
<1> DEFINE x == [call[h] EXCEPT !.at = "run", !.ctx = k]
<1>5. x \in CallType /\ x.at = "run" /\ x.op = call[h].op /\ x.own = call[h].own /\ x.ctx = k
  BY <1>1, <1>4, Numbers DEF CallType, Steps
<1>6. /\ call' \in [Handles -> CallType] /\ call'[h] = x
      /\ \A g \in Handles \ {h} : call'[g] = call[g]
  BY <1>1, <1>3, <1>5, CallSet DEF Types, ThreadTypes
<1> HIDE DEF x
<1>7. Types'
  BY <1>1, <1>2, <1>6 DEF Types, ObjectTypes, ContextTypes, ThreadTypes,
    Handles, Contexts, CallType, CancelType
<1>8. PoisonHasCause'
  BY <1>1, <1>2 DEF PoisonHasCause
<1>9. HandleInv(h)'
  <2>1. CallInv(h)' /\ Owned(h)' /\ Blank(h)'
    BY <1>1, <1>2, <1>5, <1>6 DEF HandleInv, CallInv, Owned, Blank, Idle
  <2>2. ASSUME h \notin raced' PROVE Calm(h)'
    <3>1. Calm(h) /\ cancel[h].at = "idle" /\ k = call[h].own /\ k \in contexts[h]
      BY <1>1, <1>2, <1>3, <2>2 DEF HandleInv, Calm, Apart, CellInv, Making
    <3> QED
      BY <1>2, <1>5, <1>6, <2>2, <3>1 DEF Calm, Apart, CellInv, CancelInv, Live
  <2> QED BY <2>1, <2>2 DEF HandleInv
<1> QED
  BY <1>2, <1>4, <1>6, <1>7, <1>8, <1>9 DEF Moves, Grows, Untouched

LEMMA RunMoves ==
  ASSUME IInv, NEW h \in Handles, Run(h)
  PROVE  Moves(h)
<1>1. Types /\ PoisonHasCause /\ HandleInv(h) /\ call[h].at = "run"
  BY DEF IInv, Run
<1>2. UNCHANGED <<db, handle, owner, initArgs, applied, open, cell, made, contexts,
                  canceled, cancel, raced, missed>>
  BY DEF Run, objects, context
<1>3. made \in Nat /\ call[h].ctx \in Contexts
  BY <1>1, Numbers
<1>4. /\ Return(h)
      /\ Poison("call") \/ UNCHANGED <<poisoned, culprit>>
      /\ \/ streams' = streams
         \/ streams' = [streams EXCEPT ![h] = @ \union {call[h].ctx}]
  <2>1. CASE /\ Return(h) /\ poisoned' = poisoned /\ culprit' = culprit
             /\ streams' = IF call[h].op = "query"
                             THEN [streams EXCEPT ![h] = @ \union {call[h].ctx}] ELSE streams
    BY <2>1
  <2>2. CASE Return(h) /\ UNCHANGED <<streams, poisoned, culprit>>
    BY <2>2
  <2>3. CASE Panics(h) /\ UNCHANGED streams
    BY <2>3 DEF Panics
  <2> QED
    BY <2>1, <2>2, <2>3 DEF Run
<1>5. /\ call' \in [Handles -> CallType] /\ call'[h] = NoCall
      /\ \A g \in Handles \ {h} : call'[g] = call[g]
  BY <1>1, <1>4, ReturnCall
<1>6. /\ PoisonHasCause' /\ (poisoned => poisoned')
      /\ poisoned' \in BOOLEAN /\ culprit' \in {"none", "call", "cancel"}
  BY <1>1, <1>2, <1>4, PoisonKeeps DEF Types
<1>7. /\ streams' \in [Statements -> SUBSET Contexts]
      /\ \A g \in Statements \ {h} : streams'[g] = streams[g]
      /\ h \in Statements => streams'[h] \subseteq streams[h] \union {call[h].ctx}
  BY <1>1, <1>3, <1>4 DEF Types, ContextTypes
<1>8. Types'
  BY <1>1, <1>2, <1>5, <1>6, <1>7 DEF Types, ObjectTypes, ContextTypes, ThreadTypes,
    Handles, Contexts, CallType, CancelType
<1>9. HandleInv(h)'
  <2>1. CallInv(h)' /\ Owned(h)' /\ Blank(h)'
    BY <1>1, <1>2, <1>5, <1>6, NoCallFields DEF HandleInv, CallInv, Owned, Blank, Idle
  <2>2. ASSUME h \notin raced' PROVE Calm(h)'
    <3>1. Calm(h) /\ call[h].ctx \in contexts[h]
      BY <1>1, <1>2, <2>2 DEF HandleInv, Calm, CellInv
    <3> QED
      BY <1>2, <1>5, <1>7, <2>2, <3>1, NoCallFields DEF Calm, Apart, CellInv, CancelInv, Live, Making
  <2> QED BY <2>1, <2>2 DEF HandleInv
<1> QED
  BY <1>2, <1>3, <1>5, <1>6, <1>7, <1>8, <1>9 DEF Moves, Grows, Untouched

LEMMA CloseObjectMoves ==
  ASSUME IInv, NEW h \in Handles, CloseObject(h)
  PROVE  Moves(h)
<1>1. Types /\ PoisonHasCause /\ HandleInv(h) /\ call[h].at = "close"
  BY DEF IInv, CloseObject
<1>2. UNCHANGED <<poisoned, db, handle, owner, initArgs, applied, cell, made, contexts,
                  canceled, streams, cancel, culprit, raced, missed>>
  BY DEF CloseObject, context, history
<1>3. PICK op \in {"ok", "panic"} :
        /\ call' = [call EXCEPT ![h].at = "read", ![h].op = op]
        /\ open' = IF op = "ok" THEN open \ {h} ELSE open
  BY DEF CloseObject
<1>4. made \in Nat /\ op \in Ops
  BY <1>1, Numbers DEF Ops
<1> DEFINE x == [call[h] EXCEPT !.at = "read", !.op = op]
<1>5. x \in CallType /\ x.at = "read" /\ x.op = op
  BY <1>1, <1>4, Numbers DEF CallType, Steps
<1>6. /\ call' \in [Handles -> CallType] /\ call'[h] = x
      /\ \A g \in Handles \ {h} : call'[g] = call[g]
  BY <1>1, <1>3, <1>5, CallSet DEF Types, ThreadTypes
<1> HIDE DEF x
<1>7. open' \subseteq open /\ (\A g \in Handles \ {h} : g \in open' <=> g \in open)
      /\ (h \in open' => op = "panic")
  BY <1>3
<1>8. Types'
  BY <1>1, <1>2, <1>6, <1>7 DEF Types, ObjectTypes, ContextTypes, ThreadTypes,
    Handles, Contexts, CallType, CancelType
<1>9. PoisonHasCause'
  BY <1>1, <1>2 DEF PoisonHasCause
<1>10. HandleInv(h)'
  <2>1. CallInv(h)' /\ Owned(h)' /\ Blank(h)'
    BY <1>1, <1>2, <1>3, <1>5, <1>6, <1>7 DEF HandleInv, CallInv, Owned, Blank, Idle
  <2>2. ASSUME h \notin raced' PROVE Calm(h)'
    <3>1. Calm(h) /\ cancel[h].at = "idle"
      BY <1>1, <1>2, <2>2 DEF HandleInv, Calm, Apart, Making
    <3> QED
      BY <1>2, <1>5, <1>6, <2>2, <3>1 DEF Calm, Apart, CellInv, CancelInv, Live
  <2> QED BY <2>1, <2>2 DEF HandleInv
<1> QED
  BY <1>2, <1>4, <1>6, <1>7, <1>8, <1>9, <1>10 DEF Moves, Grows, Untouched

LEMMA ReleaseMoves ==
  ASSUME IInv, NEW h \in Handles, Release(h)
  PROVE  Moves(h)
<1>1. Types /\ PoisonHasCause /\ HandleInv(h) /\ Idle(h) /\ ~poisoned /\ handle[h] \in {"allocated", "ready"}
  BY DEF IInv, Release, CheckAlloc
<1>2. UNCHANGED <<poisoned, db, owner, initArgs, applied, open, cell, made, contexts,
                  canceled, streams, cancel, culprit, missed>>
  BY DEF Release, context
<1>3. made \in Nat /\ 0 \in Contexts
  BY <1>1, Numbers, NumbersOK
<1>4. PICK x \in CallType :
        /\ call' = [call EXCEPT ![h] = x]
        /\ x.own = 0
        /\ \/ x.at = "close" /\ x.op = "none"
           \/ x.at = "read" /\ x.op = "ok" /\ handle[h] # "ready"
  <2>1. CASE handle[h] = "ready"
    <3>1. [NoCall EXCEPT !.at = "close"] \in CallType
      BY NumbersOK DEF CallType, Steps
    <3>2. /\ [NoCall EXCEPT !.at = "close"].own = 0 /\ [NoCall EXCEPT !.at = "close"].at = "close"
          /\ [NoCall EXCEPT !.at = "close"].op = "none"
      BY NumbersOK, NoCallFields DEF CallType
    <3>3. call' = [call EXCEPT ![h] = [NoCall EXCEPT !.at = "close"]]
      BY <2>1 DEF Release
    <3> QED BY <3>1, <3>2, <3>3
  <2>2. CASE handle[h] # "ready"
    <3> DEFINE y == [NoCall EXCEPT !.at = "read", !.op = "ok"]
    <3>1. y \in CallType /\ y.own = 0 /\ y.at = "read" /\ y.op = "ok"
      BY NumbersOK, NoCallFields DEF CallType, Steps, Ops
    <3>2. call' = [call EXCEPT ![h] = y]
      BY <2>2 DEF Release
    <3> HIDE DEF y
    <3> QED BY <2>2, <3>1, <3>2
  <2> QED BY <2>1, <2>2
<1>5. /\ call' \in [Handles -> CallType] /\ call'[h] = x
      /\ \A g \in Handles \ {h} : call'[g] = call[g]
  BY <1>1, <1>4, CallSet DEF Types
<1>6. /\ raced' \subseteq Handles /\ raced \subseteq raced'
      /\ \A g \in Handles \ {h} : g \in raced' <=> g \in raced
      /\ h \notin raced' => h \notin raced /\ cancel[h].at = "idle"
  BY <1>1 DEF Release, Mark, Types, ThreadTypes
<1>7. /\ handle' \in [Handles -> Lives] /\ handle'[h] = "released"
      /\ \A g \in Handles \ {h} : handle'[g] = handle[g]
  BY <1>1 DEF Release, Types, ObjectTypes, Lives
<1>8. Types'
  BY <1>1, <1>2, <1>5, <1>6, <1>7 DEF Types, ObjectTypes, ContextTypes, ThreadTypes,
    Handles, Contexts, CallType, CancelType
<1>9. PoisonHasCause'
  BY <1>1, <1>2, <1>6 DEF PoisonHasCause
<1>10. HandleInv(h)'
  <2>1. call[h] = NoCall /\ call[h].at = "idle" /\ call[h].op = "none"
    BY <1>1, NoCallFields DEF HandleInv, CallInv
  <2>2. CallInv(h)' /\ Blank(h)'
    BY <1>1, <1>2, <1>4, <1>5, <1>7 DEF HandleInv, CallInv, Blank, Idle
  <2>3. Owned(h)'
    BY <1>1, <1>2, <1>4, <1>5, <2>1 DEF HandleInv, Owned
  <2>4. ASSUME h \notin raced' PROVE Calm(h)'
    <3>1. Calm(h) /\ cancel[h].at = "idle"
      BY <1>1, <1>6, <2>4 DEF HandleInv
    <3> QED
      BY <1>2, <1>4, <1>5, <2>4, <3>1 DEF Calm, Apart, CellInv, CancelInv, Live
  <2> QED BY <2>2, <2>3, <2>4 DEF HandleInv
<1> QED
  BY <1>2, <1>3, <1>5, <1>6, <1>7, <1>8, <1>9, <1>10 DEF Moves, Grows, Untouched

LEMMA PlainMoves ==
  ASSUME IInv, NEW h \in Handles, Plain(h)
  PROVE  Moves(h)
<1>1. Types /\ PoisonHasCause /\ HandleInv(h) /\ Idle(h)
  BY DEF IInv, Plain
<1>2. UNCHANGED <<db, handle, owner, initArgs, applied, open, cell, made, contexts,
                  canceled, streams, cancel, raced, missed>>
  BY DEF Plain, objects, context
<1>3. made \in Nat
  BY <1>1, Numbers
<1>4. Return(h) /\ Poison("call")
  BY DEF Plain, Panics
<1>5. /\ call' \in [Handles -> CallType] /\ call'[h] = NoCall
      /\ \A g \in Handles \ {h} : call'[g] = call[g]
  BY <1>1, <1>4, ReturnCall
<1>6. /\ PoisonHasCause' /\ (poisoned => poisoned')
      /\ poisoned' \in BOOLEAN /\ culprit' \in {"none", "call", "cancel"}
  BY <1>1, <1>2, <1>4, PoisonKeeps DEF Types
<1>7. Types'
  BY <1>1, <1>2, <1>5, <1>6 DEF Types, ObjectTypes, ContextTypes, ThreadTypes,
    Handles, Contexts, CallType, CancelType
<1>8. call'[h] = call[h]
  BY <1>1, <1>5 DEF HandleInv, CallInv
<1>9. Untouched(h)
  BY <1>2, <1>8 DEF Untouched
<1>10. Grows
  BY <1>2, <1>3, <1>6 DEF Grows
<1>11. HandleInv(h)'
  BY <1>7, <1>9, <1>10, UntouchedKeeps
<1> QED
  BY <1>2, <1>5, <1>6, <1>7, <1>10, <1>11 DEF Moves, Untouched
----------------------------------------------------------------------------
LEMMA CancelMoves ==
  ASSUME IInv, NEW h \in Handles, Cancel(h)
  PROVE  Moves(h)
<1>1. Types /\ PoisonHasCause /\ HandleInv(h) /\ cancel[h].at = "idle" /\ handle[h] = "ready"
  BY DEF IInv, Cancel, CheckInit
<1>2. UNCHANGED <<poisoned, db, handle, owner, initArgs, applied, open, cell, made, contexts,
                  canceled, streams, call, culprit, missed>>
  BY DEF Cancel, objects, context
<1>3. made \in Nat /\ 0 \in Contexts
  BY <1>1, Numbers, NumbersOK
<1>4. /\ InUse(h) \in Contexts
      /\ \/ InUse(h) = 0
         \/ call[h].at = "run" /\ InUse(h) = call[h].ctx
         \/ h \in Statements /\ InUse(h) \in streams[h]
  <2>1. CASE call[h].at = "run"
    BY <1>1, <2>1, Numbers DEF InUse, Idle
  <2>2. CASE Idle(h) /\ h \in Statements
    <3> DEFINE read == {k \in streams[h] : \A l \in contexts[h] : l <= k}
    <3>1. InUse(h) = IF read = {} THEN 0 ELSE CHOOSE k \in read : TRUE
      BY <2>2 DEF InUse, Idle
    <3>2. read \subseteq streams[h] /\ streams[h] \subseteq Contexts
      BY <1>1, <2>2 DEF Types, ContextTypes
    <3>3. read # {} => (CHOOSE k \in read : TRUE) \in read
      OBVIOUS
    <3> HIDE DEF read
    <3> QED BY <1>3, <2>2, <3>1, <3>2, <3>3
  <2>3. CASE call[h].at # "run" /\ ~(Idle(h) /\ h \in Statements)
    BY <1>3, <2>3 DEF InUse
  <2> QED BY <2>1, <2>2, <2>3
<1> PICK k \in Contexts : k = InUse(h)
  BY <1>4
<1> DEFINE x == [at |-> "resolve", seen |-> 0, target |-> k]
<1>5. x \in CancelType /\ x.at = "resolve" /\ x.target = k
  BY <1>3 DEF CancelType, CancelSteps
<1>6. /\ cancel' \in [Handles -> CancelType] /\ cancel'[h] = x
      /\ \A g \in Handles \ {h} : cancel'[g] = cancel[g]
  BY <1>1, <1>5, CancelSet DEF Types, Cancel
<1> HIDE DEF x
<1>7. /\ raced' \subseteq Handles /\ raced \subseteq raced'
      /\ \A g \in Handles \ {h} : g \in raced' <=> g \in raced
      /\ h \notin raced' => h \notin raced /\ call[h].at \notin Making
  BY <1>1 DEF Cancel, Mark, Types, ThreadTypes
<1>8. Types'
  BY <1>1, <1>2, <1>6, <1>7 DEF Types, ObjectTypes, ContextTypes, ThreadTypes,
    Handles, Contexts, CallType, CancelType
<1>9. PoisonHasCause'
  BY <1>1, <1>2, <1>7 DEF PoisonHasCause
<1>10. HandleInv(h)'
  <2>1. CallInv(h)' /\ Owned(h)' /\ Blank(h)'
    BY <1>1, <1>2 DEF HandleInv, CallInv, Owned, Blank, Idle
  <2>2. ASSUME h \notin raced' PROVE Calm(h)'
    <3>1. Calm(h) /\ call[h].at \notin Making
      BY <1>1, <1>7, <2>2 DEF HandleInv
    <3>2. k \in canceled \union {0, cell[h].cancel}
      BY <1>4, <3>1 DEF Calm, CellInv, Live
    <3> QED
      BY <1>1, <1>2, <1>5, <1>6, <3>1, <3>2 DEF Calm, Apart, CellInv, CancelInv, Live
  <2> QED BY <2>1, <2>2 DEF HandleInv
<1> QED
  BY <1>2, <1>3, <1>6, <1>7, <1>8, <1>9, <1>10 DEF Moves, Grows, Untouched

LEMMA CancelResolveMoves ==
  ASSUME IInv, NEW h \in Handles, CancelResolve(h)
  PROVE  Moves(h)
<1>1. Types /\ PoisonHasCause /\ HandleInv(h) /\ cancel[h].at = "resolve"
  BY DEF IInv, CancelResolve
<1>2. UNCHANGED <<db, handle, owner, initArgs, applied, open, cell, made, contexts,
                  canceled, streams, call, raced, missed>>
  BY DEF CancelResolve, objects, context
<1>3. made \in Nat
  BY <1>1, Numbers
<1>4. h \notin raced => Calm(h) /\ handle[h] = "ready" /\ call[h].at \notin Making
  BY <1>1 DEF HandleInv, Calm, Apart
<1>5. PICK x \in CancelType :
        /\ cancel' = [cancel EXCEPT ![h] = x]
        /\ \/ h \in raced /\ Poison("cancel")
           \/ /\ x.at = "read" /\ x.target = cancel[h].target
              /\ UNCHANGED <<poisoned, culprit>>
  <2>1. CASE handle[h] = "released"
    BY <1>4, <2>1, NumbersOK DEF CancelResolve
  <2>2. CASE handle[h] # "released"
    <3> DEFINE y == [cancel[h] EXCEPT !.at = "read"]
    <3>1. y \in CancelType /\ y.at = "read" /\ y.target = cancel[h].target
      BY <1>1, Numbers DEF CancelType, CancelSteps
    <3>2. cancel' = [cancel EXCEPT ![h] = y] /\ UNCHANGED <<poisoned, culprit>>
      BY <2>2 DEF CancelResolve
    <3> HIDE DEF y
    <3> QED BY <3>1, <3>2
  <2> QED BY <2>1, <2>2
<1>6. /\ cancel' \in [Handles -> CancelType] /\ cancel'[h] = x
      /\ \A g \in Handles \ {h} : cancel'[g] = cancel[g]
  BY <1>1, <1>5, CancelSet DEF Types
<1>7. /\ PoisonHasCause' /\ (poisoned => poisoned')
      /\ poisoned' \in BOOLEAN /\ culprit' \in {"none", "call", "cancel"}
  BY <1>1, <1>2, <1>5, PoisonKeeps DEF Types
<1>8. Types'
  BY <1>1, <1>2, <1>6, <1>7 DEF Types, ObjectTypes, ContextTypes, ThreadTypes,
    Handles, Contexts, CallType, CancelType
<1>9. HandleInv(h)'
  <2>1. CallInv(h)' /\ Owned(h)' /\ Blank(h)'
    BY <1>1, <1>2, <1>7 DEF HandleInv, CallInv, Owned, Blank, Idle
  <2>2. ASSUME h \notin raced' PROVE Calm(h)'
    <3>1. x.at = "read" /\ x.target = cancel[h].target
      BY <1>2, <1>5, <2>2
    <3> QED
      BY <1>1, <1>2, <1>4, <1>6, <2>2, <3>1 DEF Calm, Apart, CellInv, CancelInv, Live
  <2> QED BY <2>1, <2>2 DEF HandleInv
<1> QED
  BY <1>2, <1>3, <1>6, <1>7, <1>8, <1>9 DEF Moves, Grows, Untouched

LEMMA CancelReadMoves ==
  ASSUME IInv, NEW h \in Handles, CancelRead(h)
  PROVE  Moves(h)
<1> DEFINE x == [cancel[h] EXCEPT !.seen = cell[h].cancel,
                                  !.at = IF cell[h].cancel = 0 THEN "clear" ELSE "invoke"]
<1>1. Types /\ PoisonHasCause /\ HandleInv(h) /\ cancel[h].at = "read"
  BY DEF IInv, CancelRead
<1>2. UNCHANGED <<poisoned, db, handle, owner, initArgs, applied, open, cell, made, contexts,
                  canceled, streams, call, culprit, raced, missed>>
  BY DEF CancelRead, objects, context, history
<1>3. made \in Nat
  BY <1>1, Numbers
<1>4. /\ x \in CancelType
      /\ x.at = IF cell[h].cancel = 0 THEN "clear" ELSE "invoke"
      /\ x.seen = cell[h].cancel /\ x.target = cancel[h].target
  BY <1>1, Numbers DEF CancelType, CancelSteps
<1>5. /\ cancel' \in [Handles -> CancelType] /\ cancel'[h] = x
      /\ \A g \in Handles \ {h} : cancel'[g] = cancel[g]
  BY <1>1, <1>4, CancelSet DEF Types, ThreadTypes, CancelRead
<1> HIDE DEF x
<1>6. Types'
  BY <1>1, <1>2, <1>5 DEF Types, ObjectTypes, ContextTypes, ThreadTypes,
    Handles, Contexts, CallType, CancelType
<1>7. PoisonHasCause'
  BY <1>1, <1>2 DEF PoisonHasCause
<1>8. HandleInv(h)'
  <2>1. CallInv(h)' /\ Owned(h)' /\ Blank(h)'
    BY <1>1, <1>2 DEF HandleInv, CallInv, Owned, Blank, Idle
  <2>2. ASSUME h \notin raced' PROVE Calm(h)'
    <3>1. Calm(h)
      BY <1>1, <1>2, <2>2 DEF HandleInv
    <3>2. Apart(h)' /\ CellInv(h)'
      BY <1>1, <1>2, <1>4, <1>5, <3>1 DEF Calm, Apart, CellInv, Live
    <3>3. cell[h].cancel = 0 => Live(h) = {}
      BY <1>1, <1>3, <3>1 DEF Calm, CellInv, HandleInv, CallInv, Live
    <3>4. cancel[h].target \in canceled \union {0, cell[h].cancel}
      BY <1>1, <3>1 DEF Calm, CancelInv
    <3>5. Live(h)' = Live(h)
      BY <1>2 DEF Live
    <3>6. CASE cell[h].cancel = 0
      <4>1. cancel'[h].at = "clear" /\ cancel'[h].target = cancel[h].target /\ canceled' = canceled
        BY <1>2, <1>4, <1>5, <3>6
      <4>2. cancel[h].target \in canceled \union {0} /\ Live(h)' = {}
        BY <3>3, <3>4, <3>5, <3>6
      <4> QED BY <1>2, <3>1, <3>2, <4>1, <4>2 DEF Calm, CancelInv
    <3>7. CASE cell[h].cancel # 0
      <4>1. /\ cancel'[h].at = "invoke" /\ cancel'[h].target = cancel[h].target
            /\ cancel'[h].seen = cell[h].cancel /\ canceled' = canceled /\ cell' = cell
        BY <1>2, <1>4, <1>5, <3>7
      <4> QED BY <1>2, <3>1, <3>2, <3>4, <3>7, <4>1 DEF Calm, CancelInv
    <3> QED
      BY <3>6, <3>7
  <2> QED BY <2>1, <2>2 DEF HandleInv
<1> QED
  BY <1>2, <1>3, <1>5, <1>6, <1>7, <1>8 DEF Moves, Grows, Untouched

LEMMA CancelInvokeMoves ==
  ASSUME IInv, NEW h \in Handles, CancelInvoke(h)
  PROVE  Moves(h)
<1>1. Types /\ PoisonHasCause /\ HandleInv(h) /\ cancel[h].at = "invoke"
  BY DEF IInv, CancelInvoke
<1>2. UNCHANGED <<db, handle, owner, initArgs, applied, open, cell, made, contexts,
                  streams, call, raced, missed>>
  BY DEF CancelInvoke, objects
<1>3. PICK k \in Invoked(h, cancel[h].seen) :
        IF k = 0
          THEN /\ cancel' = [cancel EXCEPT ![h] = NoCancel]
               /\ Poison("cancel")
               /\ UNCHANGED canceled
          ELSE /\ canceled' = canceled \union {k}
               /\ cancel' = [cancel EXCEPT ![h].at = "clear"]
               /\ UNCHANGED <<poisoned, culprit>>
  BY DEF CancelInvoke
<1>4. k \in Contexts /\ made \in Nat
  BY <1>1, <1>3, Numbers DEF Invoked
<1>5. h \notin raced => Calm(h) /\ call[h].at \notin Making /\ k = cell[h].cancel /\ k # 0
  BY <1>1, <1>3 DEF HandleInv, Calm, Apart, CancelInv, Invoked
<1>6. PICK x \in CancelType :
        /\ cancel' = [cancel EXCEPT ![h] = x]
        /\ \/ h \in raced /\ Poison("cancel") /\ UNCHANGED canceled
           \/ /\ x.at = "clear" /\ x.target = cancel[h].target
              /\ canceled' = canceled \union {k} /\ UNCHANGED <<poisoned, culprit>>
  <2>1. CASE k = 0
    BY <1>3, <1>5, <2>1, NumbersOK
  <2>2. CASE k # 0
    <3> DEFINE y == [cancel[h] EXCEPT !.at = "clear"]
    <3>1. y \in CancelType /\ y.at = "clear" /\ y.target = cancel[h].target
      BY <1>1, Numbers DEF CancelType, CancelSteps
    <3>2. /\ cancel' = [cancel EXCEPT ![h] = y]
          /\ canceled' = canceled \union {k} /\ UNCHANGED <<poisoned, culprit>>
      BY <1>3, <2>2
    <3> HIDE DEF y
    <3> QED BY <3>1, <3>2
  <2> QED BY <2>1, <2>2
<1>7. /\ cancel' \in [Handles -> CancelType] /\ cancel'[h] = x
      /\ \A g \in Handles \ {h} : cancel'[g] = cancel[g]
  BY <1>1, <1>6, CancelSet DEF Types
<1>8. /\ PoisonHasCause' /\ (poisoned => poisoned')
      /\ poisoned' \in BOOLEAN /\ culprit' \in {"none", "call", "cancel"}
  BY <1>1, <1>2, <1>6, PoisonKeeps DEF Types
<1>9. canceled' \subseteq Contexts /\ canceled \subseteq canceled'
  BY <1>1, <1>4, <1>6 DEF Types, ContextTypes
<1>10. Types'
  BY <1>1, <1>2, <1>7, <1>8, <1>9 DEF Types, ObjectTypes, ContextTypes, ThreadTypes,
    Handles, Contexts, CallType, CancelType
<1>11. HandleInv(h)'
  <2>1. CallInv(h)' /\ Owned(h)' /\ Blank(h)'
    BY <1>1, <1>2, <1>8 DEF HandleInv, CallInv, Owned, Blank, Idle
  <2>2. ASSUME h \notin raced' PROVE Calm(h)'
    <3>1. x.at = "clear" /\ x.target = cancel[h].target /\ canceled' = canceled \union {k}
      BY <1>2, <1>6, <2>2
    <3>2. Live(h)' = {}
      BY <1>2, <1>5, <2>2, <3>1 DEF Calm, CellInv, Live
    <3>3. cancel[h].target \in canceled \union {0, k}
      BY <1>1, <1>2, <1>5, <2>2 DEF Calm, CancelInv
    <3>4. Apart(h)' /\ CellInv(h)'
      BY <1>1, <1>2, <1>5, <1>7, <2>2, <3>2 DEF Calm, Apart, CellInv
    <3>5. CancelInv(h)'
      BY <1>7, <3>1, <3>2, <3>3 DEF CancelInv
    <3> QED
      BY <1>2, <1>5, <2>2, <3>4, <3>5 DEF Calm
  <2> QED BY <2>1, <2>2 DEF HandleInv
<1> QED
  BY <1>2, <1>4, <1>7, <1>8, <1>9, <1>10, <1>11 DEF Moves, Grows, Untouched

LEMMA CancelClearMoves ==
  ASSUME IInv, NEW h \in Handles, CancelClear(h)
  PROVE  Moves(h)
<1>1. Types /\ PoisonHasCause /\ HandleInv(h) /\ cancel[h].at = "clear"
  BY DEF IInv, CancelClear
<1>2. UNCHANGED <<poisoned, db, handle, owner, initArgs, applied, open, made, contexts,
                  canceled, streams, call, culprit, raced>>
  BY DEF CancelClear, objects
<1>3. made \in Nat
  BY <1>1, Numbers
<1>4. /\ cell' \in [Handles -> [ctx : Contexts, cancel : Contexts]] /\ cell'[h] = NoContext
      /\ \A g \in Handles \ {h} : cell'[g] = cell[g]
  BY <1>1, NumbersOK DEF CancelClear, Types, ContextTypes
<1>5. /\ cancel' \in [Handles -> CancelType] /\ cancel'[h] = NoCancel
      /\ \A g \in Handles \ {h} : cancel'[g] = cancel[g]
  BY <1>1, NumbersOK, CancelSet DEF Types, CancelClear
<1>6. NoCancel.at = "idle"
  BY DEF NoCancel
<1>7. h \notin raced => /\ Calm(h) /\ call[h].at \notin Making
                        /\ Live(h) = {} /\ missed' = missed
  BY <1>1 DEF HandleInv, Calm, Apart, CancelInv, CancelClear
<1>8. missed' \subseteq Handles /\ \A g \in Handles \ {h} : g \in missed' <=> g \in missed
  BY <1>1 DEF CancelClear, Types, ThreadTypes
<1>9. Types'
  BY <1>1, <1>2, <1>4, <1>5, <1>8 DEF Types, ObjectTypes, ContextTypes, ThreadTypes,
    Handles, Contexts, CallType, CancelType
<1>10. PoisonHasCause'
  BY <1>1, <1>2 DEF PoisonHasCause
<1>11. HandleInv(h)'
  <2>1. CallInv(h)' /\ Owned(h)' /\ Blank(h)'
    BY <1>1, <1>2, <1>4 DEF HandleInv, CallInv, Owned, Blank, Idle
  <2>2. ASSUME h \notin raced' PROVE Calm(h)'
    <3>1. Live(h)' = {}
      BY <1>2, <1>7, <2>2 DEF Live
    <3>2. Apart(h)' /\ CancelInv(h)' /\ h \notin missed'
      BY <1>2, <1>5, <1>6, <1>7, <2>2 DEF Calm, Apart, CancelInv
    <3>3. call[h].at \notin {"invoke", "clear", "store", "load"}
      BY <1>2, <1>7, <2>2 DEF Making
    <3>4. CellInv(h)'
      BY <1>2, <1>7, <2>2, <3>1, <3>3 DEF Calm, CellInv
    <3> QED BY <3>2, <3>4 DEF Calm
  <2> QED BY <2>1, <2>2 DEF HandleInv
<1> QED
  BY <1>2, <1>3, <1>4, <1>5, <1>8, <1>9, <1>10, <1>11 DEF Moves, Grows, Untouched

LEMMA StreamReleaseMoves ==
  ASSUME IInv, NEW s \in Statements, NEW k, StreamRelease(s, k)
  PROVE  Moves(s)
<1>1. Types /\ PoisonHasCause /\ HandleInv(s) /\ s \in Handles
  BY DEF IInv, Handles
<1>2. UNCHANGED <<poisoned, db, handle, owner, initArgs, applied, open, cell, made, contexts,
                  canceled, call, cancel, culprit, raced, missed>>
  BY DEF StreamRelease, objects, context, history
<1>3. made \in Nat
  BY <1>1, Numbers
<1>4. /\ streams' \in [Statements -> SUBSET Contexts] /\ streams'[s] \subseteq streams[s]
      /\ \A g \in Statements \ {s} : streams'[g] = streams[g]
  BY <1>1 DEF StreamRelease, Types, ContextTypes
<1>5. Types'
  BY <1>1, <1>2, <1>4 DEF Types, ObjectTypes, ContextTypes, ThreadTypes,
    Handles, Contexts, CallType, CancelType
<1>6. PoisonHasCause'
  BY <1>1, <1>2 DEF PoisonHasCause
<1>7. HandleInv(s)'
  <2>1. CallInv(s)' /\ Owned(s)' /\ Blank(s)'
    BY <1>1, <1>2 DEF HandleInv, CallInv, Owned, Blank, Idle
  <2>2. ASSUME s \notin raced' PROVE Calm(s)'
    BY <1>1, <1>2, <1>4, <2>2 DEF HandleInv, Calm, Apart, CellInv, CancelInv, Live
  <2> QED BY <2>1, <2>2 DEF HandleInv
<1> QED
  BY <1>2, <1>3, <1>4, <1>5, <1>6, <1>7 DEF Moves, Grows, Untouched
----------------------------------------------------------------------------
\* The objects.  A call on a connection or a statement that makes no context
\* leaves the cell and the contexts alone.
LEMMA FailsCallReturns ==
  ASSUME NEW h, FailsCall(h)
  PROVE  Return(h) /\ (Poison("call") \/ (poisoned' = poisoned /\ culprit' = culprit))
BY DEF FailsCall, Panics

LEMMA ConnectionNewMoves ==
  ASSUME IInv, NEW c \in Connections, ConnectionNew(c)
  PROVE  Moves(c)
<1>1. /\ Types /\ PoisonHasCause /\ HandleInv(c) /\ c \in Handles
      /\ Idle(c) /\ ~poisoned /\ handle[c] = "fresh"
  BY DEF IInv, Handles, ConnectionNew
<1>2. UNCHANGED <<poisoned, db, owner, initArgs, applied, open, cell, made, contexts,
                  canceled, streams, cancel, culprit, raced, missed>>
  BY DEF ConnectionNew, context, history
<1>3. made \in Nat
  BY <1>1, Numbers
<1>4. /\ call' \in [Handles -> CallType] /\ call'[c] = NoCall
      /\ \A g \in Handles \ {c} : call'[g] = call[g]
  BY <1>1, ReturnCall DEF ConnectionNew
<1>5. /\ handle' \in [Handles -> Lives] /\ handle'[c] = "allocated"
      /\ \A g \in Handles \ {c} : handle'[g] = handle[g]
  BY <1>1 DEF ConnectionNew, Types, ObjectTypes, Lives
<1>6. Types'
  BY <1>1, <1>2, <1>4, <1>5 DEF Types, ObjectTypes, ContextTypes, ThreadTypes,
    Handles, Contexts, CallType, CancelType
<1>7. PoisonHasCause'
  BY <1>1, <1>2 DEF PoisonHasCause
<1>8. HandleInv(c)'
  <2>1. call[c] = NoCall
    BY <1>1 DEF HandleInv, CallInv
  <2>2. CallInv(c)' /\ Owned(c)' /\ Blank(c)'
    BY <1>1, <1>2, <1>4, <1>5, <2>1, NoCallFields DEF HandleInv, CallInv, Owned, Blank, Idle
  <2>3. ASSUME c \notin raced' PROVE Calm(c)'
    BY <1>1, <1>2, <1>4, <2>1, <2>3 DEF HandleInv, Calm, Apart, CellInv, CancelInv, Live
  <2> QED BY <2>2, <2>3 DEF HandleInv
<1> QED
  BY <1>2, <1>3, <1>4, <1>5, <1>6, <1>7, <1>8 DEF Moves, Grows, Untouched

LEMMA StatementNewMoves ==
  ASSUME IInv, NEW s \in Statements, NEW c \in Connections, StatementNew(s, c)
  PROVE  Moves(s)
<1>1. /\ Types /\ PoisonHasCause /\ HandleInv(s) /\ s \in Handles
      /\ Idle(s) /\ ~poisoned /\ handle[s] = "fresh"
  BY DEF IInv, Handles, StatementNew, CheckInit
<1>2. UNCHANGED <<poisoned, db, initArgs, applied, open, cell, made, contexts,
                  canceled, streams, cancel, culprit, raced, missed>>
  BY DEF StatementNew, context, history
<1>3. made \in Nat
  BY <1>1, Numbers
<1>4. /\ call' \in [Handles -> CallType] /\ call'[s] = NoCall
      /\ \A g \in Handles \ {s} : call'[g] = call[g]
  BY <1>1, ReturnCall DEF StatementNew
<1>5. /\ handle' \in [Handles -> Lives] /\ handle'[s] = "ready"
      /\ \A g \in Handles \ {s} : handle'[g] = handle[g]
  BY <1>1 DEF StatementNew, Types, ObjectTypes, Lives
<1>6. owner' \in [Statements -> Connections \union {None}]
  BY <1>1 DEF StatementNew, Types, ObjectTypes
<1>7. Types'
  BY <1>1, <1>2, <1>4, <1>5, <1>6 DEF Types, ObjectTypes, ContextTypes, ThreadTypes,
    Handles, Contexts, CallType, CancelType
<1>8. PoisonHasCause'
  BY <1>1, <1>2 DEF PoisonHasCause
<1>9. HandleInv(s)'
  <2>1. call[s] = NoCall
    BY <1>1 DEF HandleInv, CallInv
  <2>2. CallInv(s)' /\ Owned(s)' /\ Blank(s)'
    BY <1>1, <1>2, <1>4, <1>5, <2>1, NoCallFields DEF HandleInv, CallInv, Owned, Blank, Idle
  <2>3. ASSUME s \notin raced' PROVE Calm(s)'
    BY <1>1, <1>2, <1>4, <1>5, <2>1, <2>3 DEF HandleInv, Calm, Apart, CellInv, CancelInv, Live
  <2> QED BY <2>2, <2>3 DEF HandleInv
<1> QED
  BY <1>2, <1>3, <1>4, <1>5, <1>7, <1>8, <1>9 DEF Moves, Grows, Untouched

LEMMA ConnectionInitMoves ==
  ASSUME IInv, NEW c \in Connections, ConnectionInit(c)
  PROVE  Moves(c)
<1>1. /\ Types /\ PoisonHasCause /\ HandleInv(c) /\ c \in Handles
      /\ Idle(c) /\ handle[c] = "allocated"
  BY DEF IInv, Handles, ConnectionInit
<1>2. UNCHANGED <<db, owner, initArgs, applied, cell, made, contexts,
                  canceled, streams, cancel, raced, missed>>
  BY DEF ConnectionInit, context
<1>3. made \in Nat
  BY <1>1, Numbers
<1>4. \/ /\ handle' = [handle EXCEPT ![c] = "ready"] /\ open' = open \union {c}
         /\ Goto(c, "options") /\ UNCHANGED <<poisoned, culprit>>
      \/ /\ Return(c) /\ UNCHANGED <<handle, open>>
         /\ Poison("call") \/ UNCHANGED <<poisoned, culprit>>
  <2>1. CASE FailsCall(c) /\ UNCHANGED <<handle, open>>
    BY <2>1, FailsCallReturns
  <2> QED BY <2>1 DEF ConnectionInit
<1>5. /\ PoisonHasCause' /\ (poisoned => poisoned')
      /\ poisoned' \in BOOLEAN /\ culprit' \in {"none", "call", "cancel"}
  BY <1>1, <1>2, <1>4, PoisonKeeps DEF Types
<1>6. /\ call' \in [Handles -> CallType]
      /\ \A g \in Handles \ {c} : call'[g] = call[g]
      /\ \/ call'[c].at = "options" /\ call'[c].op = call[c].op /\ handle'[c] = "ready"
         \/ call'[c] = NoCall /\ UNCHANGED <<handle, open>>
  <2>1. "options" \in Steps
    BY DEF Steps
  <2>2. CASE Goto(c, "options") /\ handle' = [handle EXCEPT ![c] = "ready"]
    BY <1>1, <2>1, <2>2, GotoCall DEF Types, ObjectTypes
  <2>3. CASE Return(c) /\ UNCHANGED <<handle, open>>
    BY <1>1, <2>3, ReturnCall
  <2> QED BY <1>4, <2>2, <2>3
<1>7. /\ handle' \in [Handles -> Lives] /\ open' \subseteq Connections
      /\ \A g \in Handles \ {c} : handle'[g] = handle[g] /\ (g \in open' <=> g \in open)
  BY <1>1, <1>4 DEF Types, ObjectTypes, Lives
<1>8. Types'
  BY <1>1, <1>2, <1>5, <1>6, <1>7 DEF Types, ObjectTypes, ContextTypes, ThreadTypes,
    Handles, Contexts, CallType, CancelType
<1>9. HandleInv(c)'
  <2>1. call[c] = NoCall
    BY <1>1 DEF HandleInv, CallInv
  <2>2. CallInv(c)' /\ Owned(c)' /\ Blank(c)'
    BY <1>1, <1>2, <1>5, <1>6, <2>1, NoCallFields DEF HandleInv, CallInv, Owned, Blank, Idle
  <2>3. ASSUME c \notin raced' PROVE Calm(c)'
    <3>1. Calm(c) /\ cancel[c].at = "idle"
      BY <1>1, <1>2, <2>3 DEF HandleInv, Calm, Apart
    <3> QED
      BY <1>2, <1>6, <2>3, <3>1, NoCallFields DEF Calm, Apart, CellInv, CancelInv, Live
  <2> QED BY <2>2, <2>3 DEF HandleInv
<1> QED
  BY <1>2, <1>3, <1>5, <1>6, <1>7, <1>8, <1>9 DEF Moves, Grows, Untouched

LEMMA ConnectionSetOptionMoves ==
  ASSUME IInv, NEW c \in Connections, NEW o \in Options, ConnectionSetOption(c, o)
  PROVE  Moves(c)
<1>1. Types /\ PoisonHasCause /\ HandleInv(c) /\ c \in Handles /\ Idle(c)
  BY DEF IInv, Handles, ConnectionSetOption
<1>2. UNCHANGED <<db, handle, owner, open, cell, made, contexts,
                  canceled, streams, cancel, raced, missed>>
  BY DEF ConnectionSetOption, context
<1>3. made \in Nat
  BY <1>1, Numbers
<1>4. /\ Return(c) \/ call' = call
      /\ Poison("call") \/ UNCHANGED <<poisoned, culprit>>
      /\ initArgs' = initArgs \/ initArgs' = [initArgs EXCEPT ![c] = @ \union {o}]
      /\ applied' = applied \/ applied' = [applied EXCEPT ![c] = @ \union {o}]
  <2>1. CASE FailsCall(c) /\ UNCHANGED <<initArgs, applied>>
    BY <2>1, FailsCallReturns
  <2> QED BY <2>1 DEF ConnectionSetOption
<1>5. call[c] = NoCall
  BY <1>1 DEF HandleInv, CallInv
<1>6. /\ call' \in [Handles -> CallType] /\ call'[c] = call[c]
      /\ \A g \in Handles \ {c} : call'[g] = call[g]
  BY <1>1, <1>4, <1>5, ReturnCall DEF Types, ThreadTypes
<1>7. /\ PoisonHasCause' /\ (poisoned => poisoned')
      /\ poisoned' \in BOOLEAN /\ culprit' \in {"none", "call", "cancel"}
  BY <1>1, <1>2, <1>4, PoisonKeeps DEF Types
<1>8. initArgs' \in [Connections -> SUBSET Options] /\ applied' \in [Connections -> SUBSET Options]
  BY <1>1, <1>4 DEF Types, ObjectTypes
<1>9. Types'
  BY <1>1, <1>2, <1>6, <1>7, <1>8 DEF Types, ObjectTypes, ContextTypes, ThreadTypes,
    Handles, Contexts, CallType, CancelType
<1>10. Grows /\ \A g \in Handles : Untouched(g)
  BY <1>2, <1>3, <1>6, <1>7 DEF Grows, Untouched
<1> QED
  BY <1>1, <1>7, <1>9, <1>10, UntouchedKeeps DEF Moves

LEMMA InitOptionMoves ==
  ASSUME IInv, NEW c \in Connections, InitOption(c)
  PROVE  Moves(c)
<1>1. /\ Types /\ PoisonHasCause /\ HandleInv(c) /\ c \in Handles
      /\ call[c].at = "options"
  BY DEF IInv, Handles, InitOption
<1>2. UNCHANGED <<db, handle, owner, open, cell, made, contexts,
                  canceled, streams, cancel, raced, missed>>
  BY DEF InitOption, context
<1>3. made \in Nat
  BY <1>1, Numbers
<1>4. /\ Return(c) \/ call' = call
      /\ Poison("call") \/ UNCHANGED <<poisoned, culprit>>
      /\ initArgs' = initArgs \/ initArgs' = [initArgs EXCEPT ![c] = {}]
      /\ applied' = applied \/ \E o \in Options : applied' = [applied EXCEPT ![c] = @ \union {o}]
  <2> DEFINE left == initArgs[c] \ applied[c]
  <2>1. CASE left = {}
    BY <2>1 DEF InitOption
  <2>2. CASE left # {}
    <3>1. UNCHANGED initArgs
      BY <2>2 DEF InitOption
    <3>2. \/ /\ \E o \in left : applied' = [applied EXCEPT ![c] = @ \union {o}]
             /\ UNCHANGED <<call, poisoned, culprit>>
          \/ FailsCall(c) /\ UNCHANGED applied
      BY <2>2 DEF InitOption
    <3>3. left \subseteq Options
      BY <1>1 DEF Types, ObjectTypes
    <3>4. CASE /\ \E o \in left : applied' = [applied EXCEPT ![c] = @ \union {o}]
               /\ UNCHANGED <<call, poisoned, culprit>>
      BY <3>1, <3>3, <3>4
    <3>5. CASE FailsCall(c) /\ UNCHANGED applied
      BY <3>1, <3>5, FailsCallReturns
    <3> QED BY <3>2, <3>4, <3>5
  <2> QED BY <2>1, <2>2
<1>5. /\ call' \in [Handles -> CallType]
      /\ call'[c] = call[c] \/ call'[c] = NoCall
      /\ \A g \in Handles \ {c} : call'[g] = call[g]
  BY <1>1, <1>4, ReturnCall DEF Types, ThreadTypes
<1>6. /\ PoisonHasCause' /\ (poisoned => poisoned')
      /\ poisoned' \in BOOLEAN /\ culprit' \in {"none", "call", "cancel"}
  BY <1>1, <1>2, <1>4, PoisonKeeps DEF Types
<1>7. initArgs' \in [Connections -> SUBSET Options] /\ applied' \in [Connections -> SUBSET Options]
  BY <1>1, <1>4 DEF Types, ObjectTypes
<1>8. Types'
  BY <1>1, <1>2, <1>5, <1>6, <1>7 DEF Types, ObjectTypes, ContextTypes, ThreadTypes,
    Handles, Contexts, CallType, CancelType
<1>9. Grows /\ \A g \in Handles \ {c} : Untouched(g)
  BY <1>2, <1>3, <1>5, <1>6 DEF Grows, Untouched
<1>10. HandleInv(c)'
  <2>1. CASE call'[c] = call[c]
    BY <1>1, <1>2, <1>8, <1>9, <2>1, UntouchedKeeps DEF Untouched
  <2>2. CASE call'[c] = NoCall
    <3>1. CallInv(c)' /\ Owned(c)' /\ Blank(c)'
      BY <1>1, <1>2, <1>6, <2>2, NoCallFields DEF HandleInv, CallInv, Owned, Blank, Idle
    <3>2. ASSUME c \notin raced' PROVE Calm(c)'
      BY <1>1, <1>2, <2>2, <3>2, NoCallFields DEF HandleInv, Calm, Apart, CellInv, CancelInv, Live, Making
    <3> QED BY <3>1, <3>2 DEF HandleInv
  <2> QED BY <1>5, <2>1, <2>2
<1> QED
  BY <1>6, <1>8, <1>9, <1>10 DEF Moves

LEMMA DatabaseCallKeeps == IInv /\ DatabaseCall => IInv'
<1> SUFFICES ASSUME IInv, DatabaseCall PROVE IInv'
  OBVIOUS
<1>1. Types /\ PoisonHasCause
  BY DEF IInv
<1>2. UNCHANGED <<handle, owner, initArgs, applied, open, cell, made, contexts,
                  canceled, streams, call, cancel, raced, missed>>
  BY DEF DatabaseCall, context
<1>3. made \in Nat
  BY <1>1, NumbersOK DEF Types, ContextTypes
<1>4. /\ db' \in Lives
      /\ Poison("call") \/ UNCHANGED <<poisoned, culprit>>
  BY <1>1 DEF DatabaseCall, Types, ObjectTypes, Lives
<1>5. /\ PoisonHasCause' /\ (poisoned => poisoned')
      /\ poisoned' \in BOOLEAN /\ culprit' \in {"none", "call", "cancel"}
  BY <1>1, <1>2, <1>4, PoisonKeeps DEF Types
<1>6. Types'
  BY <1>1, <1>2, <1>4, <1>5 DEF Types, ObjectTypes, ContextTypes, ThreadTypes,
    Handles, Contexts, CallType, CancelType
<1>7. Grows /\ (\A g \in Handles : Untouched(g)) /\ Handles' = Handles
  BY <1>2, <1>3, <1>5 DEF Grows, Untouched, Handles
<1> QED
  BY <1>5, <1>6, <1>7, UntouchedKeeps DEF IInv
----------------------------------------------------------------------------
LEMMA InitIInv == Init => IInv
<1> SUFFICES ASSUME Init PROVE IInv
  OBVIOUS
<1>1. Types
  BY NumbersOK DEF Init, Types, ObjectTypes, ContextTypes, ThreadTypes, Lives
<1>2. PoisonHasCause
  BY DEF Init, PoisonHasCause
<1>3. ASSUME NEW h \in Handles PROVE HandleInv(h)
  <2>1. call[h] = NoCall /\ cell[h] = NoContext /\ contexts[h] = {}
    BY DEF Init
  <2>2. /\ cancel[h] = NoCancel /\ NoCancel.at = "idle"
        /\ h \in Statements => streams[h] = {}
    BY DEF Init, NoCancel
  <2>3. CallInv(h) /\ Owned(h) /\ Blank(h)
    BY <2>1, NoCallFields DEF Init, CallInv, Owned, Blank, Idle
  <2>4. Calm(h)
    BY <2>1, <2>2, NoCallFields DEF Init, Calm, Apart, CellInv, CancelInv, Live
  <2> QED BY <2>3, <2>4 DEF HandleInv
<1> QED
  BY <1>1, <1>2, <1>3 DEF IInv

LEMMA StepIInv == IInv /\ [Next]_vars => IInv'
<1> SUFFICES ASSUME IInv, [Next]_vars PROVE IInv'
  OBVIOUS
<1>1. CASE UNCHANGED vars
  <2>1. UNCHANGED <<poisoned, db, handle, owner, initArgs, applied, open, cell, made, contexts,
                    canceled, streams, call, cancel, culprit, raced, missed>>
    BY <1>1 DEF vars, objects, context, history
  <2>2. Types' /\ PoisonHasCause' /\ Handles' = Handles /\ made \in Nat
    BY <2>1, NumbersOK DEF IInv, Types, ObjectTypes, ContextTypes, ThreadTypes,
      Handles, Contexts, CallType, CancelType, PoisonHasCause
  <2>3. Grows /\ \A g \in Handles : Untouched(g)
    BY <2>1, <2>2 DEF Grows, Untouched
  <2> QED
    BY <2>2, <2>3, UntouchedKeeps DEF IInv
<1>2. CASE DatabaseCall
  BY <1>2, DatabaseCallKeeps
<1>3. CASE \E c \in Connections : OnConnection(c)
  <2> PICK c \in Connections : OnConnection(c)
    BY <1>3
  <2>1. c \in Handles
    BY DEF Handles
  <2>2. CASE ConnectionNew(c)
    BY <2>1, <2>2, ConnectionNewMoves, OneMoves
  <2>3. CASE ConnectionInit(c)
    BY <2>1, <2>3, ConnectionInitMoves, OneMoves
  <2>4. CASE InitOption(c)
    BY <2>1, <2>4, InitOptionMoves, OneMoves
  <2>5. CASE \E o \in Options : ConnectionSetOption(c, o)
    BY <2>1, <2>5, ConnectionSetOptionMoves, OneMoves
  <2>6. CASE \E s \in Statements : StatementNew(s, c)
    BY <2>6, StatementNewMoves, OneMoves DEF Handles
  <2> QED
    BY <2>2, <2>3, <2>4, <2>5, <2>6 DEF OnConnection
<1>4. CASE \E s \in Statements : OnStatement(s)
  BY <1>4, StreamReleaseMoves, OneMoves DEF OnStatement, Handles
<1>5. CASE \E h \in Handles : OnHandle(h)
  <2> PICK h \in Handles : OnHandle(h)
    BY <1>5
  <2>1. CASE Plain(h)
    BY <2>1, PlainMoves, OneMoves
  <2>2. CASE Release(h)
    BY <2>2, ReleaseMoves, OneMoves
  <2>3. CASE CancelStep(h)
    BY <2>3, CancelResolveMoves, CancelReadMoves, CancelInvokeMoves, CancelClearMoves, OneMoves
      DEF CancelStep
  <2>4. CASE Step(h)
    BY <2>4, ReadCancelMoves, InvokeCancelMoves, ClearContextMoves, StoreContextMoves,
      LoadContextMoves, RunMoves, CloseObjectMoves, OneMoves
      DEF Step
  <2>5. CASE Cancel(h)
    BY <2>5, CancelMoves, OneMoves
  <2>6. CASE \E op \in Kinds(h) : NewContext(h, op)
    <3> PICK op \in Kinds(h) : NewContext(h, op)
      BY <2>6
    <3>1. op \in {"query", "remote", "local"}
      BY DEF Kinds
    <3> QED BY <3>1, NewContextMoves, OneMoves
  <2> QED
    BY <2>1, <2>2, <2>3, <2>4, <2>5, <2>6 DEF OnHandle
<1> QED
  BY <1>1, <1>2, <1>3, <1>4, <1>5 DEF Next

LEMMA AlwaysIInv == Spec => []IInv
<1>1. Init => IInv
  BY InitIInv
<1>2. IInv /\ [Next]_vars => IInv'
  BY StepIInv
<1> QED
  BY <1>1, <1>2, PTL DEF Spec
----------------------------------------------------------------------------
\* A Cancel that returns has cancelled the call or the result it was made for,
\* unless on its handle a Cancel has met the making of a context or a Release.
THEOREM CancelAlwaysReaches == Spec => []CancelReaches
<1>1. IInv => CancelReaches
  BY DEF IInv, Types, ThreadTypes, HandleInv, Calm, CancelReaches
<1> QED
  BY <1>1, AlwaysIInv, PTL

\* Where no Cancel has met another call, at most one context is live, the
\* cell's, and a call runs with the context made for it.
THEOREM ContextsAlwaysOK == Spec => []ContextsOK
<1>1. IInv => ContextsOK
  <2> SUFFICES ASSUME IInv, NEW h \in Handles \ raced
               PROVE  /\ Live(h) \subseteq {cell[h].cancel}
                      /\ call[h].at = "run" => call[h].ctx = call[h].own
    BY DEF ContextsOK, OneLive, RunsWithItsOwn
  <2> QED
    BY DEF IInv, HandleInv, Calm, CellInv
<1> QED
  BY <1>1, AlwaysIInv, PTL

\* The library is poisoned only by a panic of the driver, or by a Cancel that
\* met another call: one thread never poisons it.
THEOREM PoisonAlwaysHasCause == Spec => []PoisonHasCause
<1>1. IInv => PoisonHasCause
  BY DEF IInv
<1> QED
  BY <1>1, AlwaysIInv, PTL

\* Every struct is well formed, and a session that is open has a handle it can
\* be released by, or a Close under way, until a panic has stopped the library.
THEOREM ObjectsAlwaysOK == Spec => []ObjectsOK
<1>1. IInv => ObjectsOK
  <2> SUFFICES ASSUME IInv PROVE TypeOK /\ OpenHasOwner
    BY DEF ObjectsOK
  <2>1. TypeOK
    BY DEF IInv, Types, ObjectTypes, ContextTypes, ThreadTypes, CallType, CancelType, HandleInv, Blank, TypeOK
  <2>2. open \subseteq Handles
    BY DEF IInv, Types, ObjectTypes, Handles
  <2>3. OpenHasOwner
    BY <2>2 DEF IInv, HandleInv, Owned, OpenHasOwner
  <2> QED BY <2>1, <2>3
<1> QED
  BY <1>1, AlwaysIInv, PTL
============================================================================
