----------------------- MODULE QuackStatement_proofs -----------------------
(***************************************************************************)
(* Proofs about QuackStatement, for any shapes that satisfy                *)
(* ConstantsAssumption, any faults and any number of bindings and tables.  *)
(***************************************************************************)
EXTENDS QuackStatement, SequenceTheorems, TLAPS

Row == Nat \X Nat
Request == [type : Types \union {"literal"}, rows : Seq(Row)]

\* The binding a row belongs to.
Origin(row) == row[1]

CallTypes ==
  /\ effects \in Seq(Row) /\ given \in Seq(Row) /\ todo \in Seq(Request)
  /\ total \in Nat /\ started \in Nat
  /\ created \in {"nothing", "created", "replaced"}
  /\ outcome \in {"none", "ok"} \union Failures

OptionTypes ==
  /\ sql \in {"none", "good", "bad"}
  /\ target \in BOOLEAN
  /\ ingestMode \in Modes \union {""}
  /\ closed \in BOOLEAN
  /\ pc \in {"idle", "ddl", "append", "update", "query"}

TableTypes == table \in 0..tables /\ tables \in 0..MaxTables

\* The slots hold bindings of their kind, and these are what is held.
SlotsInv ==
  /\ bindings \in Seq(Shapes) /\ Len(bindings) <= MaxBinds
  /\ bound \in 0..Len(bindings) /\ boundStream \in 0..Len(bindings)
  /\ bound # 0 => bindings[bound].kind = "batch"
  /\ boundStream # 0 => bindings[boundStream].kind = "stream"
  /\ held \in [1..MaxBinds -> Nat]
  /\ BindingsReleased
  /\ pc # "idle" => ~closed
  /\ pc \in {"update", "query"} => Slots = {0}

\* What took effect since the call began is a first part of what it was
\* given, and while the call runs it is what was counted.
AppliedInv ==
  /\ Len(effects) - started \in 0..Len(given)
  /\ \A i \in 1..(Len(effects) - started) : effects[started + i] = given[i]
  /\ pc # "idle" => Len(effects) = started + total

\* No row is there twice, among those that took effect or were given; while a
\* call runs what it was given is new, and so is what is bound while none does.
OnceInv ==
  /\ \A i, j \in 1..Len(effects) : effects[i] = effects[j] => i = j
  /\ \A i, j \in 1..Len(given) : given[i] = given[j] => i = j
  /\ \A i \in 1..Len(effects) : Origin(effects[i]) \in 1..Len(bindings)
  /\ \A i \in 1..Len(given) : Origin(given[i]) \in 1..Len(bindings)
  /\ pc = "idle" => \A i \in 1..Len(effects) : Origin(effects[i]) \notin Slots
  /\ pc # "idle" => \A i \in 1..started : \A k \in 1..Len(given) : effects[i] # given[k]

\* The row nobody sees, of a stream that breaks.
Marker == IF pc \in {"ddl", "append"} /\ StreamBreaks THEN 1 ELSE 0

\* Requests that are, one after the other, the rest of the rows but for more
\* of them: request k ends at row e[k].
LaidOut(e, requests, rows, sent, more) ==
  /\ \A i, j \in 0..Len(requests) : i <= j => e[i] <= e[j]
  /\ e[0] = sent
  /\ Len(rows) = e[Len(requests)] + more
  /\ \A k \in 1..Len(requests) :
       /\ Len(requests[k].rows) = e[k] - e[k - 1]
       /\ \A j \in 1..Len(requests[k].rows) : requests[k].rows[j] = rows[e[k - 1] + j]

TodoInv ==
  /\ pc # "idle" => \E e \in [0..Len(todo) -> Nat] : LaidOut(e, todo, given, total, Marker)
  /\ pc \in {"update", "query"} => \A k \in 1..Len(todo) : Len(todo[k].rows) = 1

ModeInv ==
  /\ pc = "ddl" => total = 0 /\ created = "nothing" /\ Mode # "append" /\ tables < MaxTables
  /\ pc = "append" =>
       \/ ingestMode \in {"", "create"} /\ created = "created"
       \/ ingestMode = "append" /\ created = "nothing"
       \/ ingestMode = "replace" /\ created \in {"created", "replaced"}
       \/ ingestMode = "create_append" /\ created \in {"created", "nothing"}

OutcomeInv ==
  pc = "idle" =>
    /\ outcome = "ok" => Len(effects) - started = Len(given) /\ total = Len(given)
    /\ outcome = "exists" => Len(effects) = started /\ created = "nothing"

TypeInv == CallTypes /\ OptionTypes /\ TableTypes

IInv ==
  TypeInv /\ SlotsInv /\ AppliedInv /\ OnceInv /\ TodoInv /\ ModeInv /\ OutcomeInv
----------------------------------------------------------------------------
(***************************************************************************)
(* The rows and the batches of what is bound.                              *)
(***************************************************************************)
\* What is not bound, closed or begun anew leaves the slots as they were.
LEMMA SlotsStay ==
  ASSUME SlotsInv, UNCHANGED <<bound, boundStream, bindings, held, closed, pc>>
  PROVE  SlotsInv'
<1>1. Slots' = Slots
  BY DEF Slots
<1>2. BindingsReleased'
  BY <1>1, Zenon DEF SlotsInv, BindingsReleased
<1> QED
  BY <1>1, <1>2, Zenon DEF SlotsInv

LEMMA ConcatIs ==
  ASSUME NEW S, NEW s \in Seq(S), NEW t \in Seq(S)
  PROVE  /\ s \o t \in Seq(S) /\ Len(s \o t) = Len(s) + Len(t)
         /\ Len(s) \in Nat /\ Len(t) \in Nat
         /\ \A i \in 1..Len(s) : (s \o t)[i] = s[i]
         /\ \A i \in 1..Len(t) : (s \o t)[Len(s) + i] = t[i]
OBVIOUS

LEMMA Cuts ==
  ASSUME SlotsInv, NEW b \in 0..Len(bindings)
  PROVE  /\ BatchCount(b) \in Nat
         /\ \A k \in 0..BatchCount(b) : RowsUpTo(b, k) \in Nat
         /\ RowsUpTo(b, 0) = 0
         /\ \A i, j \in 0..BatchCount(b) : i <= j => RowsUpTo(b, i) <= RowsUpTo(b, j)
<1>1. CASE b = 0
  BY <1>1 DEF BatchCount, RowsUpTo
<1>2. CASE b # 0
  <2> PICK shape \in Shapes : shape = bindings[b]
    BY <1>2 DEF SlotsInv
  <2>1. shape.cut \in Seq(Nat)
        /\ \A i, j \in DOMAIN shape.cut : i <= j => shape.cut[i] <= shape.cut[j]
    BY ConstantsAssumption DEF ShapeType
  <2> PICK cut \in Seq(Nat) : cut = shape.cut
    BY <2>1
  <2>2. BatchCount(b) = Len(cut) /\ \A k \in 1..Len(cut) : RowsUpTo(b, k) = cut[k]
    BY <1>2 DEF BatchCount, RowsUpTo
  <2>3. RowsUpTo(b, 0) = 0
    BY DEF RowsUpTo
  <2>4. \A i, j \in 1..Len(cut) : i <= j => cut[i] <= cut[j]
    BY <2>1, SMTT(30)
  <2>5. Len(cut) \in Nat /\ \A k \in 1..Len(cut) : cut[k] \in Nat
    BY SMTT(30)
  <2>6. \A k \in 0..Len(cut) : RowsUpTo(b, k) \in Nat
    BY <2>2, <2>3, <2>5, SMTT(30)
  <2>7. \A i, j \in 0..Len(cut) : i <= j => RowsUpTo(b, i) <= RowsUpTo(b, j)
    <3> SUFFICES ASSUME NEW i \in 0..Len(cut), NEW j \in 0..Len(cut), i <= j
                 PROVE  RowsUpTo(b, i) <= RowsUpTo(b, j)
      OBVIOUS
    <3>1. CASE i = 0
      BY <2>3, <2>6, <3>1
    <3>2. CASE i # 0
      <4>1. i \in 1..Len(cut) /\ j \in 1..Len(cut)
        BY <2>5, <3>2
      <4> QED BY <2>2, <2>4, <4>1
    <3> QED BY <3>1, <3>2
  <2> QED BY <2>2, <2>3, <2>5, <2>6, <2>7
<1> QED
  BY <1>1, <1>2

LEMMA RowsOfIs ==
  ASSUME SlotsInv, NEW b \in 0..Len(bindings)
  PROVE  /\ RowsOf(b) \in Seq(Row)
         /\ Len(RowsOf(b)) = RowsUpTo(b, BatchCount(b))
         /\ \A j \in 1..Len(RowsOf(b)) : RowsOf(b)[j] = <<b, j>>
<1>1. RowsUpTo(b, BatchCount(b)) \in Nat
  BY Cuts
<1>2. b \in Nat
  BY DEF SlotsInv
<1>3. \A j \in 1..RowsUpTo(b, BatchCount(b)) : <<b, j>> \in Row
  BY <1>1, <1>2 DEF Row
<1> QED
  BY <1>1, <1>3 DEF RowsOf

LEMMA BatchIs ==
  ASSUME SlotsInv, NEW b \in 1..Len(bindings), NEW k \in 1..BatchCount(b)
  PROVE  /\ Batch(b, k) \in Request
         /\ Len(Batch(b, k).rows) = RowsUpTo(b, k) - RowsUpTo(b, k - 1)
         /\ \A j \in 1..Len(Batch(b, k).rows) :
              Batch(b, k).rows[j] = <<b, RowsUpTo(b, k - 1) + j>>
<1>1. b \in 0..Len(bindings) /\ b \in Nat
  BY DEF SlotsInv
<1>2. BatchCount(b) \in Nat /\ k \in 0..BatchCount(b) /\ k - 1 \in 0..BatchCount(b) /\ k - 1 <= k
  BY <1>1, Cuts
<1> PICK low \in Nat, high \in Nat : low = RowsUpTo(b, k - 1) /\ high = RowsUpTo(b, k)
  BY <1>1, <1>2, Cuts
<1>3. low <= high
  BY <1>1, <1>2, Cuts
<1> DEFINE n == high - low
           rows == [j \in 1..n |-> <<b, low + j>>]
<1>4. n \in Nat
  BY <1>3
<1>5. \A j \in 1..n : <<b, low + j>> \in Row
  BY <1>1, <1>4, SMTT(30) DEF Row
<1> HIDE DEF n
<1>6. rows \in Seq(Row) /\ Len(rows) = n /\ \A j \in 1..n : rows[j] = <<b, low + j>>
  BY <1>4, <1>5
<1>7. Batch(b, k) = [type |-> bindings[b].type, rows |-> rows]
  BY DEF Batch, n
<1>8. bindings[b].type \in Types
  BY ConstantsAssumption DEF ShapeType, SlotsInv
<1> HIDE DEF rows
<1> QED
  BY <1>6, <1>7, <1>8, SMTT(30) DEF Request, n

LEMMA BatchesOfAre ==
  ASSUME SlotsInv, NEW b \in 0..Len(bindings)
  PROVE  /\ BatchesOf(b) \in Seq(Request) /\ Len(BatchesOf(b)) = BatchCount(b)
         /\ \A k \in 1..BatchCount(b) : BatchesOf(b)[k] = Batch(b, k)
<1>1. BatchCount(b) \in Nat
  BY Cuts
<1>2. \A k \in 1..BatchCount(b) : Batch(b, k) \in Request
  <2>1. CASE b = 0
    BY <2>1 DEF BatchCount
  <2>2. CASE b # 0
    <3>1. b \in 1..Len(bindings)
      BY <2>2 DEF SlotsInv
    <3> QED BY <3>1, BatchIs, Zenon
  <2> QED BY <2>1, <2>2
<1> QED
  BY <1>1, <1>2 DEF BatchesOf

LEMMA BoundRowsAre ==
  ASSUME SlotsInv
  PROVE  /\ BoundRows \in Seq(Row)
         /\ RowsUpTo(bound, BatchCount(bound)) \in Nat
         /\ RowsUpTo(boundStream, BatchCount(boundStream)) \in Nat
         /\ Len(BoundRows) = RowsUpTo(bound, BatchCount(bound))
                               + RowsUpTo(boundStream, BatchCount(boundStream))
         /\ \A i \in 1..RowsUpTo(bound, BatchCount(bound)) : BoundRows[i] = <<bound, i>>
         /\ \A i \in 1..RowsUpTo(boundStream, BatchCount(boundStream)) :
              BoundRows[RowsUpTo(bound, BatchCount(bound)) + i] = <<boundStream, i>>
<1>1. bound \in 0..Len(bindings) /\ boundStream \in 0..Len(bindings)
  BY DEF SlotsInv
<1>2. RowsOf(bound) \in Seq(Row) /\ RowsOf(boundStream) \in Seq(Row)
  BY <1>1, RowsOfIs
<1> PICK r1 \in Seq(Row), r2 \in Seq(Row) : r1 = RowsOf(bound) /\ r2 = RowsOf(boundStream)
  BY <1>2
<1>3. /\ r1 \o r2 \in Seq(Row) /\ Len(r1 \o r2) = Len(r1) + Len(r2)
      /\ Len(r1) \in Nat /\ Len(r2) \in Nat
      /\ \A i \in 1..Len(r1) : (r1 \o r2)[i] = r1[i]
      /\ \A i \in 1..Len(r2) : (r1 \o r2)[Len(r1) + i] = r2[i]
  OBVIOUS
<1>4. BoundRows = r1 \o r2
  BY DEF BoundRows
<1>5. /\ Len(r1) = RowsUpTo(bound, BatchCount(bound))
      /\ Len(r2) = RowsUpTo(boundStream, BatchCount(boundStream))
      /\ \A i \in 1..Len(r1) : r1[i] = <<bound, i>>
      /\ \A i \in 1..Len(r2) : r2[i] = <<boundStream, i>>
  BY <1>1, RowsOfIs, Zenon
<1>6. /\ \A i \in 1..Len(r1) : BoundRows[i] = <<bound, i>>
      /\ \A i \in 1..Len(r2) : BoundRows[Len(r1) + i] = <<boundStream, i>>
  BY <1>3, <1>4, <1>5, Zenon
<1>7. BoundRows \in Seq(Row) /\ Len(BoundRows) = Len(r1) + Len(r2)
  BY <1>3, <1>4, Zenon
<1> QED
  BY <1>3, <1>5, <1>6, <1>7, Zenon

\* What a call that begins is given, and which binding each row of it is of.
RowsGiven == BoundRows \o (IF StreamBreaks THEN <<<<boundStream, 0>>>> ELSE <<>>)

LEMMA GivenRows ==
  ASSUME SlotsInv
  PROVE  /\ RowsGiven \in Seq(Row)
         /\ Len(RowsGiven) = Len(BoundRows) + (IF StreamBreaks THEN 1 ELSE 0)
         /\ \A i \in 1..Len(BoundRows) : RowsGiven[i] = BoundRows[i]
         /\ \A i \in 1..Len(RowsGiven) : Origin(RowsGiven[i]) \in Slots \ {0}
         /\ \A i, j \in 1..Len(RowsGiven) : RowsGiven[i] = RowsGiven[j] => i = j
<1> DEFINE more == IF StreamBreaks THEN <<<<boundStream, 0>>>> ELSE <<>>
<1> PICK n1 \in Nat, n2 \in Nat :
      /\ n1 = RowsUpTo(bound, BatchCount(bound))
      /\ n2 = RowsUpTo(boundStream, BatchCount(boundStream))
  BY BoundRowsAre
<1>1. /\ BoundRows \in Seq(Row) /\ Len(BoundRows) = n1 + n2
      /\ \A i \in 1..n1 : BoundRows[i] = <<bound, i>>
      /\ \A i \in 1..n2 : BoundRows[n1 + i] = <<boundStream, i>>
  BY BoundRowsAre
<1>2. bound \in Nat /\ boundStream \in Nat
  BY DEF SlotsInv
<1>3. /\ more \in Seq(Row)
      /\ StreamBreaks => Len(more) = 1 /\ more[1] = <<boundStream, 0>>
      /\ ~StreamBreaks => Len(more) = 0
  <2>1. <<boundStream, 0>> \in Row
    BY <1>2 DEF Row
  <2>2. CASE StreamBreaks
    BY <2>1, <2>2
  <2>3. CASE ~StreamBreaks
    BY <2>3
  <2> QED BY <2>2, <2>3
<1> HIDE DEF more
<1>4. /\ RowsGiven \in Seq(Row) /\ Len(RowsGiven) = n1 + n2 + Len(more)
      /\ \A i \in 1..(n1 + n2) : RowsGiven[i] = BoundRows[i]
      /\ \A i \in 1..Len(more) : RowsGiven[n1 + n2 + i] = more[i]
  <2>1. RowsGiven = BoundRows \o more
    BY DEF more, RowsGiven
  <2> PICK r1 \in Seq(Row), r2 \in Seq(Row) : r1 = BoundRows /\ r2 = more
    BY <1>1, <1>3
  <2>2. /\ r1 \o r2 \in Seq(Row) /\ Len(r1 \o r2) = Len(r1) + Len(r2)
        /\ \A i \in 1..Len(r1) : (r1 \o r2)[i] = r1[i]
        /\ \A i \in 1..Len(r2) : (r1 \o r2)[Len(r1) + i] = r2[i]
    OBVIOUS
  <2>3. RowsGiven = r1 \o r2 /\ Len(r1) = n1 + n2
    BY <1>1, <2>1
  <2> QED BY <2>2, <2>3
<1>5. (n1 # 0 => bound # 0) /\ (n2 # 0 => boundStream # 0) /\ (StreamBreaks => boundStream # 0)
  BY DEF RowsUpTo, StreamBreaks
<1>6. ASSUME NEW i \in 1..Len(RowsGiven)
      PROVE  \/ i <= n1 /\ bound # 0 /\ RowsGiven[i] = <<bound, i>>
             \/ i > n1 /\ i <= n1 + n2 /\ boundStream # 0 /\ RowsGiven[i] = <<boundStream, i - n1>>
             \/ i = n1 + n2 + 1 /\ boundStream # 0 /\ RowsGiven[i] = <<boundStream, 0>>
  <2>1. i \in Nat /\ 1 <= i /\ i <= n1 + n2 + Len(more)
    BY <1>3, <1>4
  <2>2. CASE i <= n1
    BY <1>1, <1>4, <1>5, <2>1, <2>2
  <2>3. CASE i > n1 /\ i <= n1 + n2
    <3> PICK j \in 1..n2 : j = i - n1
      BY <2>1, <2>3, SMTT(30)
    <3>1. n2 # 0 /\ i = n1 + j /\ i \in 1..(n1 + n2)
      BY <2>1, <2>3, SMTT(30)
    <3>2. BoundRows[n1 + j] = <<boundStream, j>>
      BY <1>1
    <3>3. RowsGiven[i] = <<boundStream, j>>
      BY <1>4, <3>1, <3>2
    <3> QED BY <1>5, <2>3, <3>1, <3>3
  <2>4. CASE i > n1 + n2
    <3>1. CASE ~StreamBreaks
      BY <1>3, <2>1, <2>4, <3>1
    <3>2. CASE StreamBreaks
      <4>1. Len(more) = 1 /\ more[1] = <<boundStream, 0>>
        BY <1>3, <3>2
      <4>2. i = n1 + n2 + 1 /\ 1 \in 1..Len(more)
        BY <2>1, <2>4, <4>1
      <4>3. RowsGiven[n1 + n2 + 1] = more[1]
        BY <1>4, <4>2
      <4> QED BY <1>5, <3>2, <4>1, <4>2, <4>3
    <3> QED BY <3>1, <3>2
  <2>5. i <= n1 \/ (i > n1 /\ i <= n1 + n2) \/ i > n1 + n2
    BY <1>4, <2>1
  <2> QED BY <2>2, <2>3, <2>4, <2>5, Zenon
<1>7. \A i \in 1..Len(RowsGiven) : Origin(RowsGiven[i]) \in Slots \ {0}
  BY <1>2, <1>6 DEF Origin, Slots
<1>8. bound # 0 /\ boundStream # 0 => bound # boundStream
  BY DEF SlotsInv
<1>9. \A i, j \in 1..Len(RowsGiven) : RowsGiven[i] = RowsGiven[j] => i = j
  <2> SUFFICES ASSUME NEW i \in 1..Len(RowsGiven), NEW j \in 1..Len(RowsGiven), RowsGiven[i] = RowsGiven[j]
               PROVE  i = j
    OBVIOUS
  <2>1. i \in Nat /\ j \in Nat /\ 1 <= i /\ 1 <= j
    BY <1>4
  <2>2. PICK a \in Nat, b \in Nat, c \in Nat, d \in Nat :
          RowsGiven[i] = <<a, b>> /\ RowsGiven[j] = <<c, d>> /\ a = c /\ b = d
    <3>1. RowsGiven[i] \in Row /\ RowsGiven[j] \in Row
      BY <1>4
    <3>2. PICK x : x = RowsGiven[i] /\ x = RowsGiven[j]
      OBVIOUS
    <3>3. PICK a \in Nat, b \in Nat : x = <<a, b>>
      BY <3>1, <3>2 DEF Row
    <3> QED BY <3>2, <3>3
  <2>3. \/ i <= n1 /\ a = bound /\ bound # 0 /\ b = i
        \/ i > n1 /\ i <= n1 + n2 /\ a = boundStream /\ boundStream # 0 /\ b = i - n1
        \/ i = n1 + n2 + 1 /\ a = boundStream /\ boundStream # 0 /\ b = 0
    BY <1>6, <2>2, SMTT(30)
  <2>4. \/ j <= n1 /\ c = bound /\ bound # 0 /\ d = j
        \/ j > n1 /\ j <= n1 + n2 /\ c = boundStream /\ boundStream # 0 /\ d = j - n1
        \/ j = n1 + n2 + 1 /\ c = boundStream /\ boundStream # 0 /\ d = 0
    BY <1>6, <2>2
  <2> QED
    BY <1>2, <1>8, <2>1, <2>2, <2>3, <2>4, SMTT(30)
<1> QED
  BY <1>1, <1>3, <1>4, <1>7, <1>9

\* Batches end where the rows of the binding are cut.
LEMMA BatchesOfLaid ==
  ASSUME SlotsInv, NEW b \in 0..Len(bindings)
  PROVE  \E e \in [0..Len(BatchesOf(b)) -> Nat] : LaidOut(e, BatchesOf(b), RowsOf(b), 0, 0)
<1>1. /\ BatchesOf(b) \in Seq(Request) /\ Len(BatchesOf(b)) = BatchCount(b)
      /\ \A k \in 1..BatchCount(b) : BatchesOf(b)[k] = Batch(b, k)
  BY BatchesOfAre
<1>2. PICK m \in Nat : m = BatchCount(b)
  BY Cuts
<1>3. PICK e \in [0..m -> Nat] : \A k \in 0..m : e[k] = RowsUpTo(b, k)
  <2>1. [k \in 0..m |-> RowsUpTo(b, k)] \in [0..m -> Nat]
    BY <1>2, Cuts
  <2> QED BY <2>1
<1>4. e[0] = 0 /\ \A i, j \in 0..m : i <= j => e[i] <= e[j]
  BY <1>2, <1>3, Cuts
<1>5. Len(RowsOf(b)) = e[m] /\ \A j \in 1..e[m] : RowsOf(b)[j] = <<b, j>>
  BY <1>2, <1>3, RowsOfIs
<1>6. ASSUME NEW k \in 1..m
      PROVE  /\ Len(BatchesOf(b)[k].rows) = e[k] - e[k - 1]
             /\ \A j \in 1..Len(BatchesOf(b)[k].rows) :
                  BatchesOf(b)[k].rows[j] = RowsOf(b)[e[k - 1] + j]
  <2>1. b \in 1..Len(bindings)
    BY <1>2 DEF BatchCount, SlotsInv
  <2>2. PICK rows \in Seq(Row) : rows = BatchesOf(b)[k].rows /\ rows = Batch(b, k).rows
    BY <1>1, <1>2, <2>1, BatchIs DEF Request
  <2>3. k \in 0..m /\ k - 1 \in 0..m /\ m \in 0..m /\ k - 1 <= k /\ k <= m
    OBVIOUS
  <2>4. PICK low \in Nat, high \in Nat : /\ low = e[k - 1] /\ high = e[k]
                                         /\ low <= high /\ high <= e[m]
    BY <1>4, <2>3
  <2>5. RowsUpTo(b, k - 1) = low /\ RowsUpTo(b, k) = high
    BY <1>3, <2>3, <2>4
  <2>6. Len(rows) = high - low /\ \A j \in 1..Len(rows) : rows[j] = <<b, low + j>>
    BY <1>2, <2>1, <2>2, <2>5, BatchIs
  <2>7. \A j \in 1..Len(rows) : low + j \in 1..e[m]
    BY <2>4, <2>6, SMTT(30)
  <2>8. \A j \in 1..Len(rows) : rows[j] = RowsOf(b)[low + j]
    BY <1>5, <2>6, <2>7
  <2> QED BY <2>2, <2>4, <2>6, <2>8
<1>7. LaidOut(e, BatchesOf(b), RowsOf(b), 0, 0)
  BY <1>1, <1>2, <1>4, <1>5, <1>6 DEF LaidOut
<1> QED
  BY <1>1, <1>2, <1>7

LEMMA RequestRows ==
  ASSUME NEW s \in Seq(Request), NEW k \in 1..Len(s)
  PROVE  s[k] \in Request /\ s[k].rows \in Seq(Row)
<1>1. s[k] \in Request
  OBVIOUS
<1> QED
  BY <1>1 DEF Request

\* One list after another.
Joined(s, s1, m1, s2, m2) ==
  /\ Len(s1) = m1 /\ Len(s2) = m2 /\ Len(s) = m1 + m2
  /\ \A k \in 1..m1 : s[k] = s1[k]
  /\ \A k \in 1..m2 : s[m1 + k] = s2[k]

\* Two lists of requests for two lists of rows.
BothLaid(s, s1, s2, r, r1, r2, m1, m2, n1, n2, c1, c2) ==
  /\ s \in Seq(Request) /\ s1 \in Seq(Request) /\ s2 \in Seq(Request)
  /\ r \in Seq(Row) /\ r1 \in Seq(Row) /\ r2 \in Seq(Row)
  /\ m1 \in Nat /\ m2 \in Nat /\ n1 \in Nat /\ n2 \in Nat
  /\ Joined(s, s1, m1, s2, m2) /\ Joined(r, r1, n1, r2, n2)
  /\ c1 \in [0..m1 -> Nat] /\ LaidOut(c1, s1, r1, 0, 0)
  /\ c2 \in [0..m2 -> Nat] /\ LaidOut(c2, s2, r2, 0, 0)

LEMMA JoinLaid ==
  ASSUME NEW s, NEW s1, NEW s2, NEW r, NEW r1, NEW r2,
         NEW m1, NEW m2, NEW n1, NEW n2, NEW c1, NEW c2,
         BothLaid(s, s1, s2, r, r1, r2, m1, m2, n1, n2, c1, c2)
  PROVE  \E e \in [0..(m1 + m2) -> Nat] : LaidOut(e, s, r, 0, 0)
<1> /\ s \in Seq(Request) /\ s1 \in Seq(Request) /\ s2 \in Seq(Request)
    /\ r \in Seq(Row) /\ r1 \in Seq(Row) /\ r2 \in Seq(Row)
    /\ m1 \in Nat /\ m2 \in Nat /\ n1 \in Nat /\ n2 \in Nat
    /\ c1 \in [0..m1 -> Nat] /\ c2 \in [0..m2 -> Nat]
  BY Zenon DEF BothLaid
<1> /\ Joined(s, s1, m1, s2, m2) /\ Joined(r, r1, n1, r2, n2)
    /\ LaidOut(c1, s1, r1, 0, 0) /\ LaidOut(c2, s2, r2, 0, 0)
  BY Zenon DEF BothLaid
<1>1. Len(s1) = m1 /\ Len(s2) = m2 /\ Len(r1) = n1 /\ Len(r2) = n2
  BY Zenon DEF Joined
<1>2. /\ Len(s) = m1 + m2
      /\ \A k \in 1..m1 : s[k] = s1[k]
      /\ \A k \in 1..m2 : s[m1 + k] = s2[k]
  BY Zenon DEF Joined
<1>3. /\ Len(r) = n1 + n2
      /\ \A i \in 1..n1 : r[i] = r1[i]
      /\ \A i \in 1..n2 : r[n1 + i] = r2[i]
  BY Zenon DEF Joined
<1>4. /\ c1[0] = 0 /\ c1[m1] = n1
      /\ \A i, j \in 0..m1 : i <= j => c1[i] <= c1[j]
      /\ \A k \in 1..m1 : /\ Len(s1[k].rows) = c1[k] - c1[k - 1]
                          /\ \A j \in 1..Len(s1[k].rows) : s1[k].rows[j] = r1[c1[k - 1] + j]
  <2>1. n1 = c1[m1] + 0
    BY <1>1, Zenon DEF LaidOut
  <2>2. c1[m1] = n1
    BY <2>1
  <2> QED BY <1>1, <2>2, Zenon DEF LaidOut
<1>5. /\ c2[0] = 0 /\ c2[m2] = n2
      /\ \A i, j \in 0..m2 : i <= j => c2[i] <= c2[j]
      /\ \A k \in 1..m2 : /\ Len(s2[k].rows) = c2[k] - c2[k - 1]
                          /\ \A j \in 1..Len(s2[k].rows) : s2[k].rows[j] = r2[c2[k - 1] + j]
  <2>1. n2 = c2[m2] + 0
    BY <1>1, Zenon DEF LaidOut
  <2>2. c2[m2] = n2
    BY <2>1
  <2> QED BY <1>1, <2>2, Zenon DEF LaidOut
<1>6. PICK e \in [0..(m1 + m2) -> Nat] :
        \A k \in 0..(m1 + m2) : e[k] = IF k <= m1 THEN c1[k] ELSE n1 + c2[k - m1]
  <2> DEFINE f == [k \in 0..(m1 + m2) |-> IF k <= m1 THEN c1[k] ELSE n1 + c2[k - m1]]
  <2>1. ASSUME NEW k \in 0..(m1 + m2) PROVE (IF k <= m1 THEN c1[k] ELSE n1 + c2[k - m1]) \in Nat
    <3>1. CASE k <= m1
      BY <1>4, <3>1, SMTT(30)
    <3>2. CASE k > m1
      <4> PICK a \in 0..m2 : a = k - m1
        BY <3>2
      <4>1. n1 + c2[a] \in Nat
        BY SMTT(30)
      <4> QED BY <3>2, <4>1
    <3> QED BY <3>1, <3>2
  <2>2. f \in [0..(m1 + m2) -> Nat]
    BY <2>1
  <2> QED BY <2>2
<1>7. ASSUME NEW k \in 0..m1 PROVE e[k] = c1[k] /\ c1[k] \in Nat /\ c1[k] <= n1
  <2>1. k \in 0..(m1 + m2) /\ k <= m1 /\ m1 \in 0..m1
    OBVIOUS
  <2> QED BY <1>4, <1>6, <2>1
<1>8. ASSUME NEW k \in 0..m2 PROVE e[m1 + k] = n1 + c2[k] /\ c2[k] \in Nat
  <2>1. CASE k = 0
    <3>1. m1 \in 0..m1
      OBVIOUS
    <3> QED BY <1>4, <1>5, <1>7, <2>1, <3>1
  <2>2. CASE k # 0
    <3>1. m1 + k \in 0..(m1 + m2) /\ ~(m1 + k <= m1) /\ (m1 + k) - m1 = k
      BY <2>2
    <3> QED BY <1>5, <1>6, <3>1
  <2> QED BY <2>1, <2>2
<1>9. ASSUME NEW k \in 0..(m1 + m2), k > m1 PROVE \E i \in 1..m2 : k = m1 + i
  <2>1. k - m1 \in 1..m2 /\ k = m1 + (k - m1)
    BY <1>9
  <2> QED BY <2>1
<1>10. ASSUME NEW i \in 0..(m1 + m2), NEW j \in 0..(m1 + m2), i <= j
       PROVE  e[i] <= e[j]
  <2>1. CASE j <= m1
    <3>1. i \in 0..m1 /\ j \in 0..m1
      BY <1>10, <2>1
    <3> QED BY <1>4, <1>7, <1>10, <3>1
  <2>2. CASE i <= m1 /\ j > m1
    <3>1. PICK b \in 1..m2 : j = m1 + b
      BY <1>9, <2>2
    <3>2. i \in 0..m1 /\ b \in 0..m2
      BY <2>2
    <3>3. e[i] \in Nat /\ e[i] <= n1 /\ e[j] = n1 + c2[b] /\ c2[b] \in Nat
      BY <1>7, <1>8, <3>1, <3>2
    <3>4. PICK x \in Nat : x = c2[b]
      BY <3>3, Zenon
    <3>5. e[j] = n1 + x
      BY <3>3, <3>4, Zenon
    <3>6. n1 <= n1 + x
      OBVIOUS
    <3>7. PICK y \in Nat : y = e[i] /\ y <= n1
      BY <3>3, Zenon
    <3>8. y <= n1 + x
      BY <3>7
    <3> QED BY <3>5, <3>7, <3>8, Zenon
  <2>3. CASE i > m1
    <3>1. PICK a \in 1..m2 : i = m1 + a
      BY <1>9, <2>3
    <3>2. PICK b \in 1..m2 : j = m1 + b
      BY <1>9, <1>10, <2>3
    <3>3. a \in 0..m2 /\ b \in 0..m2 /\ a <= b
      BY <1>10, <3>1, <3>2
    <3>4. /\ e[i] = n1 + c2[a] /\ e[j] = n1 + c2[b]
          /\ c2[a] \in Nat /\ c2[b] \in Nat /\ c2[a] <= c2[b]
      BY <1>5, <1>8, <3>1, <3>2, <3>3
    <3> QED BY <3>3, <3>4, SMTT(30)
  <2> QED BY <2>1, <2>2, <2>3
<1>11. e[0] = 0 /\ e[m1 + m2] = n1 + n2
  BY <1>4, <1>5, <1>6, <1>7, <1>8
<1>12. ASSUME NEW k \in 1..(m1 + m2)
       PROVE  /\ Len(s[k].rows) = e[k] - e[k - 1]
              /\ \A j \in 1..Len(s[k].rows) : s[k].rows[j] = r[e[k - 1] + j]
  <2>1. CASE k <= m1
    <3>1. k \in 1..m1 /\ k \in 0..m1 /\ k - 1 \in 0..m1
      BY <2>1
    <3>2. s[k] = s1[k] /\ e[k] = c1[k] /\ e[k - 1] = c1[k - 1]
      BY <1>2, <1>7, <3>1
    <3>3. PICK low \in Nat, high \in Nat : low = c1[k - 1] /\ high = c1[k] /\ high <= n1
      BY <1>7, <3>1
    <3>4. PICK rows \in Seq(Row) : rows = s1[k].rows
      <4>1. s1[k].rows \in Seq(Row)
        BY <1>1, <3>1, RequestRows, Zenon
      <4> QED BY <4>1, Zenon
    <3>5. Len(rows) = high - low /\ \A j \in 1..Len(rows) : rows[j] = r1[low + j]
      BY <1>4, <3>1, <3>3, <3>4
    <3>6. \A j \in 1..Len(rows) : low + j \in 1..n1
      <4>1. Len(rows) \in Nat /\ Len(rows) = high - low /\ high <= n1
        BY <3>3, <3>5
      <4> QED BY <4>1
    <3>7. \A j \in 1..Len(rows) : rows[j] = r[low + j]
      BY <1>3, <3>5, <3>6
    <3> QED BY <3>2, <3>3, <3>4, <3>5, <3>7
  <2>2. CASE k > m1
    <3>1. PICK i \in 1..m2 : k = m1 + i
      BY <1>9, <2>2
    <3>2. i \in 0..m2 /\ i - 1 \in 0..m2 /\ k - 1 = m1 + (i - 1)
      BY <3>1
    <3>3. s[k] = s2[i] /\ e[k] = n1 + c2[i] /\ e[k - 1] = n1 + c2[i - 1]
      BY <1>2, <1>8, <3>1, <3>2
    <3>4. PICK low \in Nat, high \in Nat : /\ low = c2[i - 1] /\ high = c2[i]
                                           /\ low <= high /\ high <= n2
      <4>1. i - 1 <= i /\ i <= m2 /\ m2 \in 0..m2
        OBVIOUS
      <4>2. c2[i - 1] \in Nat /\ c2[i] \in Nat
        BY <3>2
      <4>3. c2[i - 1] <= c2[i] /\ c2[i] <= n2
        BY <1>5, <3>2, <4>1
      <4> QED BY <4>2, <4>3, Zenon
    <3>5. PICK rows \in Seq(Row) : rows = s2[i].rows
      <4>1. s2[i].rows \in Seq(Row)
        BY <1>1, RequestRows, Zenon
      <4> QED BY <4>1, Zenon
    <3>6. Len(rows) = high - low /\ \A j \in 1..Len(rows) : rows[j] = r2[low + j]
      BY <1>5, <3>4, <3>5
    <3>7. ASSUME NEW j \in 1..Len(rows) PROVE rows[j] = r[(n1 + low) + j]
      <4>1. j \in Nat /\ 1 <= j /\ j <= high - low /\ high <= n2
        BY <3>4, <3>6
      <4>2. PICK x \in 1..n2 : x = low + j
        BY <4>1
      <4>3. (n1 + low) + j = n1 + x
        BY <4>1, <4>2
      <4>4. rows[j] = r2[x]
        BY <3>6, <4>2
      <4>5. r[n1 + x] = r2[x]
        BY <1>3
      <4> QED BY <4>3, <4>4, <4>5
    <3>8. e[k] = n1 + high /\ e[k - 1] = n1 + low /\ s[k].rows = rows
      BY <3>3, <3>4, <3>5, Zenon
    <3>9. (n1 + high) - (n1 + low) = high - low
      OBVIOUS
    <3> QED BY <3>6, <3>7, <3>8, <3>9, Zenon
  <2> QED BY <2>1, <2>2
<1>13. LaidOut(e, s, r, 0, 0)
  BY <1>2, <1>3, <1>10, <1>11, <1>12 DEF LaidOut
<1> QED
  BY <1>13

\* LaidOut for m requests, and where its cuts end.
LaidBy(e, s, r, m, sent, more) ==
  /\ e[0] = sent /\ Len(r) = e[m] + more
  /\ \A i, j \in 0..m : i <= j => e[i] <= e[j]
  /\ \A k \in 1..m : /\ Len(s[k].rows) = e[k] - e[k - 1]
                     /\ \A j \in 1..Len(s[k].rows) : s[k].rows[j] = r[e[k - 1] + j]
  /\ \A k \in 0..m : e[k] + more <= Len(r)

LEMMA LaidBounds ==
  ASSUME NEW s \in Seq(Request), NEW r \in Seq(Row), NEW m \in Nat, Len(s) = m,
         NEW e \in [0..m -> Nat], NEW sent \in Nat, NEW more \in Nat, LaidOut(e, s, r, sent, more)
  PROVE  LaidBy(e, s, r, m, sent, more)
<1>1. /\ e[0] = sent /\ Len(r) = e[m] + more
      /\ \A i, j \in 0..m : i <= j => e[i] <= e[j]
      /\ \A k \in 1..m : /\ Len(s[k].rows) = e[k] - e[k - 1]
                         /\ \A j \in 1..Len(s[k].rows) : s[k].rows[j] = r[e[k - 1] + j]
  BY Zenon DEF LaidOut
<1>2. ASSUME NEW k \in 0..m PROVE e[k] + more <= Len(r)
  <2>1. m \in 0..m /\ k <= m
    OBVIOUS
  <2>2. PICK a \in Nat, b \in Nat : a = e[k] /\ b = e[m]
    BY <2>1
  <2>3. a <= b
    BY <1>1, <2>1, <2>2
  <2>4. a + more <= b + more
    BY <2>3
  <2> QED BY <1>1, <2>2, <2>4
<1> QED
  BY <1>1, <1>2, Zenon DEF LaidBy

\* Rows that nobody asks for.
LEMMA MoreLaid ==
  ASSUME NEW s \in Seq(Request), NEW r \in Seq(Row), NEW rr \in Seq(Row),
         NEW m \in Nat, NEW n \in Nat, NEW more \in Nat, Len(s) = m, Len(r) = n,
         Len(rr) = n + more, \A i \in 1..n : rr[i] = r[i],
         NEW e \in [0..m -> Nat], LaidOut(e, s, r, 0, 0)
  PROVE  LaidOut(e, s, rr, 0, more)
<1> 0 \in Nat
  OBVIOUS
<1>1. /\ e[0] = 0 /\ Len(r) = e[m] + 0
      /\ \A i, j \in 0..m : i <= j => e[i] <= e[j]
      /\ \A k \in 1..m : /\ Len(s[k].rows) = e[k] - e[k - 1]
                         /\ \A j \in 1..Len(s[k].rows) : s[k].rows[j] = r[e[k - 1] + j]
      /\ \A k \in 0..m : e[k] + 0 <= Len(r)
  <2>1. LaidBy(e, s, r, m, 0, 0)
    BY LaidBounds, Zenon
  <2> QED BY <2>1, Zenon DEF LaidBy
<1>2. Len(rr) = e[m] + more
  BY <1>1
<1>3. ASSUME NEW k \in 1..m
      PROVE  \A j \in 1..Len(s[k].rows) : s[k].rows[j] = rr[e[k - 1] + j]
  <2>1. PICK low \in Nat, high \in Nat : low = e[k - 1] /\ high = e[k]
    <3>1. e[k - 1] \in Nat /\ e[k] \in Nat
      OBVIOUS
    <3> QED BY <3>1, Zenon
  <2>2. high <= n
    <3>1. k \in 0..m
      OBVIOUS
    <3>2. e[k] + 0 <= n
      BY <1>1, <3>1
    <3> QED BY <2>1, <3>2
  <2>3. PICK rows \in Seq(Row) : rows = s[k].rows
    <3>1. s[k].rows \in Seq(Row)
      BY RequestRows, Zenon
    <3> QED BY <3>1, Zenon
  <2>4. Len(rows) = high - low /\ \A j \in 1..Len(rows) : rows[j] = r[low + j]
    BY <1>1, <2>1, <2>3
  <2>5. ASSUME NEW j \in 1..Len(rows) PROVE rows[j] = rr[low + j]
    <3>1. j \in Nat /\ 1 <= j /\ j <= high - low /\ high <= n
      BY <2>2, <2>4
    <3>2. PICK x \in 1..n : x = low + j
      BY <3>1
    <3> QED BY <2>4, <3>2
  <2> QED BY <2>1, <2>3, <2>5
<1> QED
  BY <1>1, <1>2, <1>3, Zenon DEF LaidOut

\* One request less: m of them, the first one of n rows.
HeadOf(s, m, n) == Len(s) = m /\ m # 0 /\ Len(s[1].rows) = n

HeadTaken(s, r, m, n, sent, more) ==
  /\ sent + n + more <= Len(r)
  /\ \A j \in 1..n : s[1].rows[j] = r[sent + j]
  /\ \E f \in [0..(m - 1) -> Nat] : LaidOut(f, Tail(s), r, sent + n, more)

LEMMA TailLaid ==
  ASSUME NEW s \in Seq(Request), NEW r \in Seq(Row), NEW m \in Nat, NEW n \in Nat, HeadOf(s, m, n),
         NEW e \in [0..m -> Nat], NEW sent \in Nat, NEW more \in Nat, LaidOut(e, s, r, sent, more)
  PROVE  HeadTaken(s, r, m, n, sent, more)
<1> m # 0 /\ Len(s) = m /\ n = Len(s[1].rows)
  BY DEF HeadOf
<1> PICK w \in Nat : w = m - 1
  OBVIOUS
<1> Tail(s) \in Seq(Request)
  OBVIOUS
<1> PICK t \in Seq(Request) : t = Tail(s)
  BY Zenon
<1>1. Len(t) = w /\ m = w + 1 /\ \A k \in 1..w : t[k] = s[k + 1]
  OBVIOUS
<1>2. /\ e[0] = sent /\ Len(r) = e[m] + more
      /\ \A i, j \in 0..m : i <= j => e[i] <= e[j]
      /\ \A k \in 1..m : /\ Len(s[k].rows) = e[k] - e[k - 1]
                         /\ \A j \in 1..Len(s[k].rows) : s[k].rows[j] = r[e[k - 1] + j]
      /\ \A k \in 0..m : e[k] + more <= Len(r)
  <2>1. LaidBy(e, s, r, m, sent, more)
    BY LaidBounds, Zenon
  <2> QED BY <2>1, Zenon DEF LaidBy
<1>3. 1 \in 0..m /\ 0 \in 0..m /\ 1 \in 1..m /\ 1 - 1 = 0
  OBVIOUS
<1>4. e[1] = sent + n
  <2>1. PICK a \in Nat : a = e[1]
    BY <1>3
  <2>2. n = a - sent
    BY <1>2, <1>3, <2>1
  <2> QED BY <2>1, <2>2
<1>5. sent + n + more <= Len(r)
  BY <1>2, <1>3, <1>4
<1>6. \A j \in 1..n : s[1].rows[j] = r[sent + j]
  BY <1>2, <1>3, ZenonT(40)
<1>7. PICK f \in [0..w -> Nat] : \A k \in 0..w : f[k] = e[k + 1]
  <2> DEFINE g == [k \in 0..w |-> e[k + 1]]
  <2>1. \A k \in 0..w : e[k + 1] \in Nat
    BY <1>1
  <2>2. g \in [0..w -> Nat]
    BY <2>1
  <2> QED BY <2>2
<1>8. f[0] = sent + n /\ Len(r) = f[w] + more
  <2>1. 0 \in 0..w /\ w \in 0..w /\ 0 + 1 = 1 /\ w + 1 = m
    BY <1>1
  <2> QED BY <1>2, <1>4, <1>7, <2>1
<1>9. ASSUME NEW i \in 0..w, NEW j \in 0..w, i <= j PROVE f[i] <= f[j]
  <2>1. i + 1 \in 0..m /\ j + 1 \in 0..m /\ i + 1 <= j + 1
    BY <1>9, <1>1
  <2>2. e[i + 1] <= e[j + 1]
    BY <1>2, <2>1
  <2> QED BY <1>7, <2>2
<1>10. ASSUME NEW k \in 1..w
       PROVE  /\ Len(t[k].rows) = f[k] - f[k - 1]
              /\ \A j \in 1..Len(t[k].rows) : t[k].rows[j] = r[f[k - 1] + j]
  <2>1. k \in 0..w /\ k - 1 \in 0..w /\ k + 1 \in 1..m /\ (k - 1) + 1 = k /\ (k + 1) - 1 = k
    BY <1>1
  <2>2. f[k] = e[k + 1] /\ f[k - 1] = e[k] /\ t[k] = s[k + 1]
    BY <1>1, <1>7, <2>1
  <2>3. /\ Len(s[k + 1].rows) = e[k + 1] - e[k]
        /\ \A j \in 1..Len(s[k + 1].rows) : s[k + 1].rows[j] = r[e[k] + j]
    BY <1>2, <2>1, ZenonT(40)
  <2> QED BY <2>2, <2>3, Zenon
<1>11. LaidOut(f, t, r, sent + n, more)
  BY <1>1, <1>8, <1>9, <1>10, Zenon DEF LaidOut
<1> QED
  BY <1>5, <1>6, <1>11 DEF HeadTaken

\* One request for each row.
LEMMA RowsLaid ==
  ASSUME NEW r \in Seq(Row)
  PROVE  LET s == [j \in DOMAIN r |-> [type |-> "literal", rows |-> <<r[j]>>]]
         IN  /\ s \in Seq(Request) /\ Len(s) = Len(r)
             /\ \A k \in 1..Len(s) : Len(s[k].rows) = 1
             /\ \E e \in [0..Len(s) -> Nat] : LaidOut(e, s, r, 0, 0)
<1> DEFINE s == [j \in DOMAIN r |-> [type |-> "literal", rows |-> <<r[j]>>]]
<1> PICK n \in Nat : n = Len(r)
  OBVIOUS
<1>1. DOMAIN r = 1..n
  OBVIOUS
<1>2. ASSUME NEW j \in 1..n
      PROVE  /\ [type |-> "literal", rows |-> <<r[j]>>] \in Request
             /\ <<r[j]>> \in Seq(Row) /\ Len(<<r[j]>>) = 1
  <2>1. r[j] \in Row
    OBVIOUS
  <2> PICK x \in Row : x = r[j]
    BY <2>1
  <2>2. <<x>> \in Seq(Row) /\ Len(<<x>>) = 1
    OBVIOUS
  <2> QED BY <2>2 DEF Request
<1>3. s \in Seq(Request) /\ Len(s) = n
  BY <1>1, <1>2
<1>4. \A k \in 1..n : s[k].rows = <<r[k]>> /\ Len(s[k].rows) = 1
  BY <1>1, <1>2
<1> HIDE DEF s
<1>5. PICK e \in [0..n -> Nat] : \A k \in 0..n : e[k] = k
  <2>1. [k \in 0..n |-> k] \in [0..n -> Nat]
    OBVIOUS
  <2> QED BY <2>1
<1>6. e[0] = 0 /\ n = e[n] + 0 /\ \A i, j \in 0..n : i <= j => e[i] <= e[j]
  BY <1>5
<1>7. ASSUME NEW k \in 1..n
      PROVE  /\ Len(s[k].rows) = e[k] - e[k - 1]
             /\ \A j \in 1..Len(s[k].rows) : s[k].rows[j] = r[e[k - 1] + j]
  <2>1. k \in 0..n /\ k - 1 \in 0..n /\ (k - 1) + 1 = k /\ k - (k - 1) = 1
    OBVIOUS
  <2>2. e[k] = k /\ e[k - 1] = k - 1
    BY <1>5, <2>1
  <2>3. \A j \in 1..1 : j = 1 /\ <<r[k]>>[j] = r[k]
    OBVIOUS
  <2> QED BY <1>4, <2>1, <2>2, <2>3
<1>8. LaidOut(e, s, r, 0, 0)
  BY <1>3, <1>6, <1>7, Zenon DEF LaidOut
<1> QED
  BY <1>3, <1>4, <1>8 DEF s

\* The batches of what is bound are the rows a call is given, but for the one
\* a stream breaks off at.
LEMMA BatchesLaid ==
  ASSUME SlotsInv
  PROVE  /\ BoundBatches \in Seq(Request)
         /\ \E e \in [0..Len(BoundBatches) -> Nat] :
              LaidOut(e, BoundBatches, RowsGiven, 0, IF StreamBreaks THEN 1 ELSE 0)
<1>1. bound \in 0..Len(bindings) /\ boundStream \in 0..Len(bindings)
  BY DEF SlotsInv
<1>2. /\ BatchesOf(bound) \in Seq(Request) /\ BatchesOf(boundStream) \in Seq(Request)
      /\ RowsOf(bound) \in Seq(Row) /\ RowsOf(boundStream) \in Seq(Row)
  BY <1>1, BatchesOfAre, RowsOfIs, Zenon
<1>3. PICK s1 \in Seq(Request) : s1 = BatchesOf(bound)
  BY <1>2, Zenon
<1>4. PICK s2 \in Seq(Request) : s2 = BatchesOf(boundStream)
  BY <1>2, Zenon
<1>5. PICK r1 \in Seq(Row) : r1 = RowsOf(bound)
  BY <1>2, Zenon
<1>6. PICK r2 \in Seq(Row) : r2 = RowsOf(boundStream)
  BY <1>2, Zenon
<1>7. PICK m1 \in Nat, m2 \in Nat, n1 \in Nat, n2 \in Nat :
        m1 = Len(s1) /\ m2 = Len(s2) /\ n1 = Len(r1) /\ n2 = Len(r2)
  OBVIOUS
<1>8. PICK c1 \in [0..m1 -> Nat] : LaidOut(c1, s1, r1, 0, 0)
  BY <1>1, <1>3, <1>5, <1>7, BatchesOfLaid, Zenon
<1>9. PICK c2 \in [0..m2 -> Nat] : LaidOut(c2, s2, r2, 0, 0)
  BY <1>1, <1>4, <1>6, <1>7, BatchesOfLaid, Zenon
<1>10. s1 \o s2 \in Seq(Request) /\ Joined(s1 \o s2, s1, m1, s2, m2)
  <2>1. /\ s1 \o s2 \in Seq(Request) /\ Len(s1 \o s2) = Len(s1) + Len(s2)
        /\ \A i \in 1..Len(s1) : (s1 \o s2)[i] = s1[i]
        /\ \A i \in 1..Len(s2) : (s1 \o s2)[Len(s1) + i] = s2[i]
    OBVIOUS
  <2> QED BY <1>7, <2>1, Zenon DEF Joined
<1>11. r1 \o r2 \in Seq(Row) /\ Joined(r1 \o r2, r1, n1, r2, n2)
  <2>1. /\ r1 \o r2 \in Seq(Row) /\ Len(r1 \o r2) = Len(r1) + Len(r2)
        /\ \A i \in 1..Len(r1) : (r1 \o r2)[i] = r1[i]
        /\ \A i \in 1..Len(r2) : (r1 \o r2)[Len(r1) + i] = r2[i]
    OBVIOUS
  <2> QED BY <1>7, <2>1, Zenon DEF Joined
<1>12. PICK s \in Seq(Request) : s = s1 \o s2 /\ s = BoundBatches
  BY <1>3, <1>4, <1>10, Zenon DEF BoundBatches
<1>13. PICK r \in Seq(Row) : r = r1 \o r2 /\ r = BoundRows
  BY <1>5, <1>6, <1>11, Zenon DEF BoundRows
<1>14. \E e \in [0..(m1 + m2) -> Nat] : LaidOut(e, s, r, 0, 0)
  <2>1. Joined(s, s1, m1, s2, m2) /\ Joined(r, r1, n1, r2, n2)
    BY <1>10, <1>11, <1>12, <1>13, Zenon
  <2>2. BothLaid(s, s1, s2, r, r1, r2, m1, m2, n1, n2, c1, c2)
    BY <1>8, <1>9, <2>1, Zenon DEF BothLaid
  <2> QED BY <2>2, JoinLaid, Zenon
<1>15. PICK m \in Nat : m = m1 + m2
  OBVIOUS
<1>16. Len(s) = m
  BY <1>10, <1>12, <1>15, Zenon DEF Joined
<1>17. PICK e \in [0..m -> Nat] : LaidOut(e, s, r, 0, 0)
  BY <1>14, <1>15, Zenon
<1>18. PICK n \in Nat : n = Len(r)
  OBVIOUS
<1>19. PICK more \in Nat : more = IF StreamBreaks THEN 1 ELSE 0
  OBVIOUS
<1>20. PICK rr \in Seq(Row) : rr = RowsGiven
  BY GivenRows, Zenon
<1>21. Len(rr) = n + more /\ \A i \in 1..n : rr[i] = r[i]
  BY <1>13, <1>18, <1>19, <1>20, GivenRows, Zenon
<1>22. LaidOut(e, s, rr, 0, more)
  BY <1>16, <1>17, <1>18, <1>21, MoreLaid, Zenon
<1> QED
  BY <1>12, <1>16, <1>19, <1>20, <1>22, Zenon
----------------------------------------------------------------------------
(***************************************************************************)
(* What the steps do to the slots, to what took effect and to the requests *)
(* still to be sent.                                                       *)
(***************************************************************************)
LEMMA SlotsCleared ==
  ASSUME SlotsInv, ClearBound, pc' # "idle" => ~closed'
  PROVE  SlotsInv' /\ Slots' = {0} /\ bindings' = bindings
<1>1. bound' = 0 /\ boundStream' = 0 /\ bindings' = bindings
  BY DEF ClearBound
<1>2. Slots' = {0}
  BY <1>1 DEF Slots
<1>3. Len(bindings) \in Nat
  BY DEF SlotsInv
<1>4. ASSUME NEW b \in 1..MaxBinds
      PROVE  held'[b] = 0
  <2>1. held[b] = IF b \in Slots THEN 1 ELSE 0
    BY DEF SlotsInv, BindingsReleased
  <2>2. held'[b] = IF b \in Slots THEN held[b] - 1 ELSE held[b]
    BY DEF ClearBound, SlotsInv
  <2> QED BY <2>1, <2>2
<1>5. held' \in [1..MaxBinds -> Nat]
  <2>1. DOMAIN held = 1..MaxBinds
    BY DEF SlotsInv
  <2>2. held' = [b \in 1..MaxBinds |-> IF b \in Slots THEN held[b] - 1 ELSE held[b]]
    BY <2>1 DEF ClearBound
  <2>3. \A b \in 1..MaxBinds : (IF b \in Slots THEN held[b] - 1 ELSE held[b]) \in Nat
    BY <1>4, <2>2
  <2> QED BY <2>2, <2>3
<1>6. BindingsReleased'
  <2>1. DOMAIN held' = 1..MaxBinds /\ 0 \notin 1..MaxBinds
    BY <1>5
  <2> QED BY <1>2, <1>4, <2>1 DEF BindingsReleased
<1> QED
  BY <1>1, <1>2, <1>3, <1>5, <1>6 DEF SlotsInv

LEMMA SlotsKept ==
  ASSUME SlotsInv, UNCHANGED <<binding, closed>>,
         pc' # "idle" => ~closed, pc' \in {"update", "query"} => Slots = {0}
  PROVE  SlotsInv' /\ Slots' = Slots /\ bindings' = bindings
BY DEF SlotsInv, binding, Slots, BindingsReleased

\* The rows that took effect, next to those the call was given.
EffectsOK(rows) ==
  /\ rows \in Seq(Row)
  /\ Len(rows) - started \in 0..Len(given)
  /\ \A i \in 1..(Len(rows) - started) : rows[started + i] = given[i]
  /\ \A i, j \in 1..Len(rows) : rows[i] = rows[j] => i = j
  /\ \A i \in 1..Len(rows) : Origin(rows[i]) \in 1..Len(bindings)
  /\ \A i \in 1..started : \A k \in 1..Len(given) : rows[i] # given[k]

LEMMA EffectsAreOK ==
  ASSUME TypeInv, AppliedInv, OnceInv, pc # "idle"
  PROVE  EffectsOK(effects)
BY DEF TypeInv, CallTypes, AppliedInv, OnceInv, EffectsOK

\* A call that goes on.
LEMMA GoesOn ==
  ASSUME OnceInv, EffectsOK(effects'), UNCHANGED <<started, given, bindings>>,
         pc' # "idle", Len(effects') = started + total'
  PROVE  AppliedInv' /\ OnceInv'
BY DEF EffectsOK, AppliedInv, OnceInv

\* A call that returns, with nothing bound any more.
LEMMA Stops ==
  ASSUME OnceInv, EffectsOK(effects'), UNCHANGED <<started, given, bindings>>,
         pc' = "idle", Slots' = {0}
  PROVE  AppliedInv' /\ OnceInv'
BY DEF EffectsOK, AppliedInv, OnceInv

\* Between two calls nothing is added, and what is bound is new.
LEMMA StaysIdle ==
  ASSUME TypeInv, AppliedInv, OnceInv, pc = "idle", pc' = "idle", UNCHANGED <<effects, started, given>>,
         Len(bindings) \in Nat, Len(bindings') \in Nat, Len(bindings) <= Len(bindings'),
         Slots' \subseteq Slots \union {0, Len(bindings) + 1}
  PROVE  AppliedInv' /\ OnceInv'
<1>1. AppliedInv'
  BY DEF AppliedInv
<1>2. \A i \in 1..Len(effects) : Origin(effects[i]) \in 1..Len(bindings)
  BY DEF OnceInv
<1>3. /\ \A i \in 1..Len(effects) : Origin(effects[i]) \in 1..Len(bindings')
      /\ \A i \in 1..Len(given) : Origin(given[i]) \in 1..Len(bindings')
  BY DEF OnceInv
<1>4. \A i \in 1..Len(effects) : Origin(effects[i]) \notin Slots'
  BY <1>2 DEF OnceInv
<1> QED
  BY <1>1, <1>3, <1>4 DEF OnceInv

\* A call begins.
LEMMA BeginsWell ==
  ASSUME TypeInv, SlotsInv, OnceInv, pc = "idle", NEW requests, Begins(requests),
         UNCHANGED <<effects, bindings>>, Slots' \subseteq Slots \union {0}
  PROVE  /\ AppliedInv' /\ OnceInv'
         /\ given' = RowsGiven /\ given' \in Seq(Row)
         /\ todo' = requests /\ total' = 0 /\ started' = Len(effects) /\ created' = "nothing"
<1>1. /\ given' = RowsGiven /\ todo' = requests /\ total' = 0
      /\ started' = Len(effects) /\ created' = "nothing"
  BY DEF Begins, RowsGiven
<1>2. /\ RowsGiven \in Seq(Row)
      /\ \A i \in 1..Len(RowsGiven) : Origin(RowsGiven[i]) \in Slots \ {0}
      /\ \A i, j \in 1..Len(RowsGiven) : RowsGiven[i] = RowsGiven[j] => i = j
  BY GivenRows
<1> PICK g \in Seq(Row) : g = given'
  BY <1>1, <1>2, Zenon
<1>3. /\ \A i \in 1..Len(g) : Origin(g[i]) \in Slots \ {0}
      /\ \A i, j \in 1..Len(g) : g[i] = g[j] => i = j
  <2>1. RowsGiven = g
    BY <1>1
  <2> QED
    BY <1>2, <2>1, ZenonT(40)
<1>4. effects \in Seq(Row) /\ Len(effects) \in Nat /\ Len(g) \in Nat
  BY DEF TypeInv, CallTypes
<1>5. AppliedInv'
  <2>1. Len(effects') - started' = 0
    BY <1>1, <1>4
  <2>2. 0 \in 0..Len(g)
    BY <1>4
  <2>3. Len(effects') = started' + total'
    BY <1>1, <1>4
  <2> QED BY <2>1, <2>2, <2>3 DEF AppliedInv
<1>6. Slots \ {0} \subseteq 1..Len(bindings)
  BY DEF Slots, SlotsInv
<1>7. \A i \in 1..Len(effects) : Origin(effects[i]) \in 1..Len(bindings) /\ Origin(effects[i]) \notin Slots
  BY DEF OnceInv
<1>8. \A i \in 1..Len(effects) : \A k \in 1..Len(g) : effects[i] # g[k]
  BY <1>3, <1>7
<1>9. \A i \in 1..Len(effects) : Origin(effects[i]) \notin Slots'
  <2>1. 0 \notin 1..Len(bindings)
    OBVIOUS
  <2> QED BY <1>7, <2>1
<1>10. OnceInv'
  BY <1>1, <1>3, <1>6, <1>7, <1>8, <1>9 DEF OnceInv
<1> QED
  BY <1>1, <1>2, <1>5, <1>10

\* What was there when the call began, then a first part of what it was given.
LEMMA FirstRowsOK ==
  ASSUME TypeInv, AppliedInv, OnceInv, pc # "idle", NEW rows \in Seq(Row), NEW n \in 0..Len(given),
         Len(rows) = started + n, \A i \in 1..started : rows[i] = effects[i],
         \A i \in 1..n : rows[started + i] = given[i]
  PROVE  EffectsOK(rows)
<1>1. started \in Nat /\ total \in Nat /\ Len(given) \in Nat /\ Len(effects) = started + total /\ n \in Nat
  BY DEF TypeInv, CallTypes, AppliedInv
<1>2. Len(rows) - started = n
  BY <1>1
<1>3. \A i \in 1..started : i \in 1..Len(effects)
  BY <1>1
<1>4. \A i \in 1..n : i \in 1..Len(given)
  BY <1>1
<1>5. ASSUME NEW x \in 1..Len(rows)
      PROVE  \/ x \in 1..started /\ rows[x] = effects[x]
             \/ \E i \in 1..n : x = started + i /\ rows[x] = given[i]
  <2>1. CASE x <= started
    <3>1. x \in 1..started
      BY <1>1, <2>1
    <3> QED BY <3>1
  <2>2. CASE x > started
    <3>1. x - started \in 1..n /\ x = started + (x - started)
      BY <1>1, <2>2
    <3> PICK i \in 1..n : x = started + i
      BY <3>1
    <3>2. rows[started + i] = given[i]
      OBVIOUS
    <3> QED BY <3>2
  <2> QED BY <1>1, <2>1, <2>2
<1>6. \A i \in 1..Len(rows) : Origin(rows[i]) \in 1..Len(bindings)
  <2> SUFFICES ASSUME NEW x \in 1..Len(rows) PROVE Origin(rows[x]) \in 1..Len(bindings)
    OBVIOUS
  <2>1. \A i \in 1..Len(effects) : Origin(effects[i]) \in 1..Len(bindings)
    BY DEF OnceInv
  <2>2. \A i \in 1..Len(given) : Origin(given[i]) \in 1..Len(bindings)
    BY DEF OnceInv
  <2> QED BY <1>3, <1>4, <1>5, <2>1, <2>2, Zenon
<1>7. \A i \in 1..started : \A k \in 1..Len(given) : effects[i] # given[k]
  BY DEF OnceInv
<1>8. \A i, j \in 1..Len(rows) : rows[i] = rows[j] => i = j
  <2> SUFFICES ASSUME NEW x \in 1..Len(rows), NEW y \in 1..Len(rows), rows[x] = rows[y]
               PROVE  x = y
    OBVIOUS
  <2>1. \A i, j \in 1..Len(effects) : effects[i] = effects[j] => i = j
    BY DEF OnceInv
  <2>2. \A i, j \in 1..Len(given) : given[i] = given[j] => i = j
    BY DEF OnceInv
  <2>3. \/ x \in 1..started /\ rows[x] = effects[x]
        \/ \E i \in 1..n : x = started + i /\ rows[x] = given[i]
    BY <1>5
  <2>4. \/ y \in 1..started /\ rows[y] = effects[y]
        \/ \E i \in 1..n : y = started + i /\ rows[y] = given[i]
    BY <1>5
  <2>5. CASE x \in 1..started /\ rows[x] = effects[x] /\ y \in 1..started /\ rows[y] = effects[y]
    BY <1>3, <2>1, <2>5, Zenon
  <2>6. ASSUME NEW i \in 1..n, rows[x] = given[i], y \in 1..started, rows[y] = effects[y]
        PROVE  FALSE
    BY <1>4, <1>7, <2>6, Zenon
  <2>7. ASSUME NEW i \in 1..n, rows[y] = given[i], x \in 1..started, rows[x] = effects[x]
        PROVE  FALSE
    BY <1>4, <1>7, <2>7, Zenon
  <2>8. ASSUME NEW i \in 1..n, x = started + i, rows[x] = given[i],
               NEW j \in 1..n, y = started + j, rows[y] = given[j]
        PROVE  x = y
    <3>1. i = j
      BY <1>4, <2>2, <2>8, Zenon
    <3> QED BY <2>8, <3>1
  <2> QED BY <2>3, <2>4, <2>5, <2>6, <2>7, <2>8, Zenon
<1>9. \A i \in 1..started : \A k \in 1..Len(given) : rows[i] # given[k]
  BY <1>7
<1> QED
  BY <1>2, <1>6, <1>8, <1>9 DEF EffectsOK

\* The request at the head of todo: what it applies, and what is left then.
LEMMA RequestApplies ==
  ASSUME IInv, pc # "idle", todo # <<>>
  PROVE  /\ Len(Head(todo).rows) \in Nat
         /\ EffectsOK(effects \o Head(todo).rows)
         /\ Len(effects \o Head(todo).rows) = started + (total + Len(Head(todo).rows))
         /\ Tail(todo) \in Seq(Request)
         /\ \E e \in [0..Len(Tail(todo)) -> Nat] :
              LaidOut(e, Tail(todo), given, total + Len(Head(todo).rows), Marker)
         /\ \A k \in 1..Len(Tail(todo)) : Tail(todo)[k] = todo[k + 1] /\ k + 1 \in 1..Len(todo)
         /\ Head(todo) = todo[1] /\ 1 \in 1..Len(todo)
<1>1. /\ effects \in Seq(Row) /\ given \in Seq(Row) /\ todo \in Seq(Request)
      /\ total \in Nat /\ started \in Nat
  BY DEF IInv, TypeInv, CallTypes
<1> PICK s \in Seq(Request) : s = todo
  BY <1>1, Zenon
<1> PICK r \in Seq(Row) : r = given
  BY <1>1, Zenon
<1> PICK m \in Nat : m = Len(s)
  OBVIOUS
<1>2. m # 0 /\ Len(Tail(s)) = m - 1 /\ Tail(s) \in Seq(Request) /\ Head(s) = s[1] /\ 1 \in 1..m
  OBVIOUS
<1>3. \A k \in 1..(m - 1) : Tail(s)[k] = s[k + 1] /\ k + 1 \in 1..m
  BY <1>2
<1>4. s[1].rows \in Seq(Row)
  BY <1>2, RequestRows, Zenon
<1> PICK sent \in Nat : sent = total
  BY <1>1, Zenon
<1> PICK eff \in Seq(Row) : eff = effects
  BY <1>1, Zenon
<1>5. PICK more \in Nat : more = Marker
  BY DEF Marker
<1>6. PICK e \in [0..m -> Nat] : LaidOut(e, s, r, sent, more)
  BY <1>5, Zenon DEF IInv, TodoInv
<1>7. PICK new \in Seq(Row) : new = s[1].rows
  BY <1>4, Zenon
<1>8. PICK n \in Nat : n = Len(new)
  OBVIOUS
<1>9. /\ sent + n + more <= Len(r)
      /\ \A j \in 1..n : s[1].rows[j] = r[sent + j]
      /\ \E f \in [0..(m - 1) -> Nat] : LaidOut(f, Tail(s), r, sent + n, more)
  <2>1. HeadOf(s, m, n)
    BY <1>2, <1>7, <1>8, Zenon DEF HeadOf
  <2>2. HeadTaken(s, r, m, n, sent, more)
    BY <1>6, <2>1, TailLaid, Zenon
  <2> QED BY <2>2, Zenon DEF HeadTaken
<1>10. \A j \in 1..n : new[j] = r[sent + j]
  BY <1>7, <1>9, Zenon
<1>11. /\ eff \o new \in Seq(Row) /\ Len(eff \o new) = Len(eff) + Len(new)
       /\ \A i \in 1..Len(eff) : (eff \o new)[i] = eff[i]
       /\ \A i \in 1..Len(new) : (eff \o new)[Len(eff) + i] = new[i]
  OBVIOUS
<1>12. PICK rows \in Seq(Row) : rows = eff \o new
  BY <1>11, Zenon
<1>13. /\ Len(rows) = Len(eff) + n
       /\ \A i \in 1..Len(eff) : rows[i] = eff[i]
       /\ \A i \in 1..n : rows[Len(eff) + i] = new[i]
  BY <1>8, <1>11, <1>12, Zenon
<1>14. Len(eff) = started + sent
  BY Zenon DEF IInv, AppliedInv
<1>15. \A i \in 1..sent : eff[started + i] = r[i]
  <2>1. \A i \in 1..(Len(eff) - started) : eff[started + i] = r[i]
    BY Zenon DEF IInv, AppliedInv
  <2>2. Len(eff) - started = sent
    BY <1>1, <1>14
  <2> QED BY <2>1, <2>2
<1>16. Len(rows) = started + (sent + n)
  BY <1>1, <1>13, <1>14
<1>17. \A i \in 1..started : rows[i] = eff[i]
  BY <1>1, <1>13, <1>14
<1>18. ASSUME NEW i \in 1..(sent + n) PROVE rows[started + i] = r[i]
  <2>1. CASE i <= sent
    <3>1. i \in 1..sent /\ started + i \in 1..Len(eff)
      BY <1>1, <1>14, <2>1
    <3> QED BY <1>13, <1>15, <3>1
  <2>2. CASE i > sent
    <3>1. i - sent \in 1..n /\ i = sent + (i - sent)
      BY <2>2
    <3> PICK j \in 1..n : i = sent + j
      BY <3>1
    <3>2. started + i = Len(eff) + j
      BY <1>1, <1>14
    <3>3. rows[Len(eff) + j] = new[j] /\ new[j] = r[sent + j]
      BY <1>10, <1>13, Zenon
    <3> QED BY <3>2, <3>3
  <2> QED BY <2>1, <2>2
<1>19. sent + n \in 0..Len(r)
  BY <1>5, <1>9
<1>20. EffectsOK(rows)
  <2>1. PICK x \in 0..Len(given) : x = sent + n
    BY <1>19, Zenon
  <2>2. /\ Len(rows) = started + x /\ \A i \in 1..started : rows[i] = effects[i]
        /\ \A i \in 1..x : rows[started + i] = given[i]
    BY <1>16, <1>17, <1>18, <2>1, Zenon
  <2>3. TypeInv /\ AppliedInv /\ OnceInv
    BY Zenon DEF IInv
  <2> QED BY <2>2, <2>3, FirstRowsOK, Zenon
<1>21. Head(todo).rows = new /\ Len(Head(todo).rows) = n /\ effects \o Head(todo).rows = rows
  BY <1>2, <1>7, <1>8, <1>12, Zenon
<1>22. Len(Tail(todo)) = m - 1 /\ Len(todo) = m /\ Tail(todo) \in Seq(Request)
  BY <1>2, Zenon
<1> QED
  BY <1>2, <1>3, <1>5, <1>9, <1>16, <1>20, <1>21, <1>22, Zenon

\* A step that leaves no call in progress.
LEMMA IdleAfter ==
  ASSUME pc' = "idle", TypeInv', SlotsInv', AppliedInv', OnceInv', OutcomeInv'
  PROVE  IInv'
BY DEF IInv, TodoInv, ModeInv
----------------------------------------------------------------------------
(***************************************************************************)
(* The calls that set up the statement, and those that begin an execute.   *)
(***************************************************************************)
LEMMA StaysQuiet ==
  ASSUME IInv, Idle, pc' = "idle", OptionTypes', TableTypes', SlotsInv',
         UNCHANGED <<call, effects>>, outcome' \in {outcome, "error"},
         Len(bindings) <= Len(bindings'), Slots' \subseteq Slots \union {0, Len(bindings) + 1}
  PROVE  IInv'
<1>1. /\ pc = "idle" /\ TypeInv /\ AppliedInv /\ OnceInv
      /\ UNCHANGED <<todo, total, started, given, created>>
  BY DEF IInv, Idle, call
<1>2. Len(bindings) \in Nat /\ Len(bindings') \in Nat
  BY DEF IInv, SlotsInv
<1>3. AppliedInv' /\ OnceInv'
  BY <1>1, <1>2, StaysIdle
<1>4. TypeInv'
  BY <1>1 DEF TypeInv, CallTypes, Failures
<1>5. OutcomeInv'
  BY <1>1 DEF IInv, OutcomeInv
<1> QED
  BY <1>3, <1>4, <1>5, IdleAfter

LEMMA OptionsMove ==
  ASSUME IInv,
         \/ \E q \in {"good", "bad"} : SetSqlQuery(q)
         \/ \E on \in BOOLEAN : SetTarget(on)
         \/ \E mode \in Modes : SetIngestMode(mode)
  PROVE  IInv'
<1>1. /\ Idle /\ pc' = "idle" /\ pc' = pc
      /\ UNCHANGED <<binding, closed, call, server, outcome>>
  BY DEF SetSqlQuery, SetTarget, SetIngestMode, Idle
<1>2. OptionTypes'
  BY DEF SetSqlQuery, SetTarget, SetIngestMode, OptionTypes, IInv, TypeInv
<1>3. TableTypes' /\ UNCHANGED <<call, effects>>
  BY <1>1 DEF IInv, TypeInv, TableTypes, server
<1>4. SlotsInv' /\ Slots' = Slots /\ bindings' = bindings
  BY <1>1, SlotsKept DEF IInv, Idle
<1>5. Len(bindings) <= Len(bindings')
  BY <1>4 DEF IInv, SlotsInv
<1> QED
  BY <1>1, <1>2, <1>3, <1>4, <1>5, StaysQuiet

LEMMA BindMoves ==
  ASSUME IInv, NEW shape \in Shapes, Bind(shape)
  PROVE  IInv'
<1> PICK n \in Nat : n = Len(bindings)
  BY DEF IInv, SlotsInv
<1>1. /\ Idle /\ pc' = "idle" /\ n < MaxBinds /\ bindings' = Append(bindings, shape)
      /\ UNCHANGED <<options, closed, call, server, outcome>>
  BY DEF Bind, Idle
<1>2. SlotsInv
  BY DEF IInv
<1>3. /\ bindings' \in Seq(Shapes) /\ Len(bindings') = n + 1 /\ bindings'[n + 1] = shape
      /\ \A b \in 1..n : bindings'[b] = bindings[b]
  BY <1>1, <1>2 DEF SlotsInv
<1>4. shape.kind \in {"batch", "stream"}
  BY ConstantsAssumption DEF ShapeType
<1>5. MaxBinds \in Nat /\ bound \in 0..n /\ boundStream \in 0..n
  BY <1>2, ConstantsAssumption DEF SlotsInv
<1>6. PICK old \in 0..n : old = IF shape.kind = "batch" THEN bound ELSE boundStream
  BY <1>5
<1>7. PICK other \in 0..n : other = IF shape.kind = "batch" THEN boundStream ELSE bound
  BY <1>5
<1>8. Slots = {old, other} /\ Slots' = {n + 1, other}
  BY <1>6, <1>7 DEF Slots, Bind
<1>9. old # 0 => old # other
  BY <1>2, <1>6, <1>7 DEF SlotsInv
<1>10. ASSUME NEW b \in 1..MaxBinds
       PROVE  /\ b = n + 1 => held'[b] = 1
              /\ b # n + 1 /\ b = old => held'[b] = held[b] - 1
              /\ b # n + 1 /\ b # old => held'[b] = held[b]
  BY <1>2, <1>6 DEF Bind, SlotsInv
<1>11. DOMAIN held' = 1..MaxBinds
  BY <1>2 DEF Bind, SlotsInv
<1>12. ASSUME NEW b \in 1..MaxBinds
       PROVE  held'[b] = IF b \in Slots' THEN 1 ELSE 0
  <2>1. held[b] = IF b \in Slots THEN 1 ELSE 0
    BY <1>2 DEF SlotsInv, BindingsReleased
  <2>2. CASE b = n + 1
    BY <1>8, <1>10, <2>2
  <2>3. CASE b # n + 1 /\ b = old
    BY <1>8, <1>9, <1>10, <2>1, <2>3
  <2>4. CASE b # n + 1 /\ b # old
    BY <1>8, <1>10, <2>1, <2>4
  <2> QED BY <2>2, <2>3, <2>4
<1>13. held' \in [1..MaxBinds -> Nat]
  <2>1. \A b \in 1..MaxBinds : held'[b] \in Nat
    BY <1>12
  <2>2. held' = [b \in 1..MaxBinds |-> held'[b]]
    BY <1>2 DEF Bind, SlotsInv
  <2> QED BY <2>1, <2>2
<1>14. SlotsInv'
  <2>1. /\ bound' \in 0..(n + 1) /\ boundStream' \in 0..(n + 1)
        /\ bound' # 0 => bindings'[bound'].kind = "batch"
        /\ boundStream' # 0 => bindings'[boundStream'].kind = "stream"
    <3>1. CASE shape.kind = "batch"
      <4>1. bound' = n + 1 /\ boundStream' = boundStream
        BY <3>1 DEF Bind
      <4> QED BY <1>2, <1>3, <1>5, <3>1, <4>1, SMTT(30) DEF SlotsInv
    <3>2. CASE shape.kind = "stream"
      <4>1. boundStream' = n + 1 /\ bound' = bound
        BY <3>2 DEF Bind
      <4> QED BY <1>2, <1>3, <1>5, <3>2, <4>1 DEF SlotsInv
    <3> QED BY <1>4, <3>1, <3>2
  <2>2. closed' = FALSE
    BY <1>1 DEF Idle, IInv, TypeInv, OptionTypes
  <2>3. BindingsReleased'
    BY <1>11, <1>12, <2>2 DEF BindingsReleased
  <2> QED BY <1>1, <1>3, <1>5, <1>13, <2>1, <2>3, SMTT(30) DEF SlotsInv
<1>15. OptionTypes' /\ TableTypes' /\ UNCHANGED <<call, effects>>
  BY <1>1 DEF IInv, TypeInv, OptionTypes, TableTypes, options, server
<1>16. Slots' \subseteq Slots \union {0, Len(bindings) + 1} /\ Len(bindings) <= Len(bindings')
  BY <1>3, <1>8
<1> QED
  BY <1>1, <1>14, <1>15, <1>16, StaysQuiet

LEMMA CloseMoves ==
  ASSUME IInv, Close
  PROVE  IInv'
<1>1. /\ Idle /\ pc' = "idle" /\ closed' = TRUE /\ ClearBound
      /\ UNCHANGED <<options, call, server, outcome>>
  BY DEF Close, Idle
<1>2. SlotsInv' /\ Slots' = {0} /\ bindings' = bindings
  BY <1>1, SlotsCleared DEF IInv
<1>3. OptionTypes' /\ TableTypes' /\ UNCHANGED <<call, effects>>
  BY <1>1 DEF IInv, TypeInv, OptionTypes, TableTypes, options, server
<1>4. Len(bindings) <= Len(bindings')
  BY <1>2 DEF IInv, SlotsInv
<1> QED
  BY <1>1, <1>2, <1>3, <1>4, StaysQuiet

\* An execute that fails before it looks at anything.
LEMMA FailsUnbegun ==
  ASSUME IInv, Idle, pc' = "idle", outcome' = "error", UNCHANGED <<options, closed, binding, call, server>>
  PROVE  IInv'
<1>1. SlotsInv' /\ Slots' = Slots /\ bindings' = bindings
  BY SlotsKept DEF IInv, Idle
<1>2. OptionTypes' /\ TableTypes' /\ UNCHANGED <<call, effects>>
  BY DEF IInv, TypeInv, OptionTypes, TableTypes, options, server
<1>3. Len(bindings) <= Len(bindings')
  BY <1>1 DEF IInv, SlotsInv
<1> QED
  BY <1>1, <1>2, <1>3, StaysQuiet

\* An execute that returns before its first request.
LEMMA BeginsAndReturns ==
  ASSUME IInv, Idle, Begins(<<>>), pc' = "idle", outcome' \in {"ok", "error"},
         outcome' = "ok" => Len(RowsGiven) = 0,
         ClearBound \/ UNCHANGED binding, UNCHANGED <<options, closed, server>>
  PROVE  IInv'
<1>1. SlotsInv' /\ bindings' = bindings /\ Slots' \subseteq Slots \union {0}
  BY SlotsCleared, SlotsKept DEF IInv
<1>2. UNCHANGED <<effects, table, tables, closed, sql, target, ingestMode>> /\ pc = "idle"
  BY DEF server, options, Idle
<1>3. TypeInv /\ SlotsInv /\ OnceInv
  BY DEF IInv
<1>4. /\ AppliedInv' /\ OnceInv' /\ given' = RowsGiven /\ given' \in Seq(Row)
      /\ todo' = <<>> /\ total' = 0 /\ started' = Len(effects) /\ created' = "nothing"
  BY <1>1, <1>2, <1>3, BeginsWell
<1>5. <<>> \in Seq(Request) /\ Len(effects) \in Nat /\ effects \in Seq(Row)
  BY <1>3 DEF TypeInv, CallTypes
<1>6. TypeInv'
  BY <1>2, <1>3, <1>4, <1>5 DEF TypeInv, CallTypes, OptionTypes, TableTypes, Failures
<1>7. OutcomeInv'
  <2>1. outcome' = "ok" => Len(effects') - started' = Len(given') /\ total' = Len(given')
    BY <1>2, <1>4, <1>5
  <2> QED BY <2>1 DEF OutcomeInv
<1> QED
  BY <1>1, <1>4, <1>6, <1>7, IdleAfter

\* An execute that has requests to send.
LEMMA BeginsToSend ==
  ASSUME IInv, Idle, NEW requests \in Seq(Request), Begins(requests),
         pc' \in {"ddl", "append", "update", "query"}, pc' \in {"update", "query"} => ClearBound,
         \E e \in [0..Len(requests) -> Nat] : LaidOut(e, requests, RowsGiven, 0, Marker'),
         pc' \in {"update", "query"} => \A k \in 1..Len(requests) : Len(requests[k].rows) = 1,
         pc' = "ddl" => Mode # "append" /\ tables < MaxTables, pc' = "append" => Mode = "append",
         ClearBound \/ UNCHANGED binding, UNCHANGED <<options, closed, server, outcome>>
  PROVE  IInv'
<1>1. pc' # "idle" /\ pc = "idle" /\ ~closed /\ closed' = closed
  BY DEF Idle
<1>2. UNCHANGED <<effects, table, tables, closed, sql, target, ingestMode, outcome>>
  BY DEF server, options
<1>3. TypeInv /\ SlotsInv /\ OnceInv
  BY DEF IInv
<1>4. SlotsInv' /\ bindings' = bindings /\ Slots' \subseteq Slots \union {0}
  <2>1. CASE ClearBound
    BY <1>1, <1>3, <2>1, SlotsCleared
  <2>2. CASE UNCHANGED binding /\ ~ClearBound
    BY <1>1, <1>3, <2>2, SlotsKept
  <2> QED BY <2>1, <2>2
<1>5. /\ AppliedInv' /\ OnceInv' /\ given' = RowsGiven /\ given' \in Seq(Row)
      /\ todo' = requests /\ total' = 0 /\ started' = Len(effects) /\ created' = "nothing"
  BY <1>1, <1>2, <1>3, <1>4, BeginsWell
<1>6. TypeInv'
  <2>1. Len(effects) \in Nat
    BY <1>3 DEF TypeInv, CallTypes
  <2> QED BY <1>2, <1>3, <1>5, <2>1 DEF TypeInv, CallTypes, OptionTypes, TableTypes
<1>7. TodoInv'
  BY <1>5, Zenon DEF TodoInv
<1>8. Mode' = Mode
  BY <1>2 DEF Mode
<1>9. ModeInv'
  <2>1. pc' = "append" => ingestMode' = "append" /\ created' = "nothing"
    BY <1>2, <1>5 DEF Mode
  <2> QED BY <1>2, <1>5, <1>8, <2>1 DEF ModeInv
<1>10. OutcomeInv'
  BY <1>1 DEF OutcomeInv
<1> QED
  BY <1>4, <1>5, <1>6, <1>7, <1>9, <1>10 DEF IInv

LEMMA PlainMoves ==
  ASSUME IInv, Idle, Plain, UNCHANGED <<options, closed>>
  PROVE  IInv'
<1>1. /\ ~HasBinding /\ Begins(<<>>) /\ pc' = "idle" /\ outcome' \in {"ok", "error"}
      /\ UNCHANGED <<binding, server>>
  BY DEF Plain, Returns
<1>2. Len(RowsGiven) = 0
  <2>1. bound = 0 /\ boundStream = 0 /\ SlotsInv
    BY <1>1 DEF HasBinding, IInv
  <2>2. RowsUpTo(bound, BatchCount(bound)) = 0 /\ RowsUpTo(boundStream, BatchCount(boundStream)) = 0
    BY <2>1 DEF RowsUpTo
  <2>3. Len(BoundRows) = 0
    BY <2>1, <2>2, BoundRowsAre
  <2>4. ~StreamBreaks
    BY <2>1 DEF StreamBreaks
  <2> QED BY <2>1, <2>3, <2>4, GivenRows
<1> QED
  BY <1>1, <1>2, BeginsAndReturns

LEMMA StartIngestMoves ==
  ASSUME IInv, Idle, StartIngest, UNCHANGED <<options, closed>>
  PROVE  IInv'
<1>1. CASE Mode # "append" /\ DdlType = "nested"
  <2>1. Begins(<<>>) /\ pc' = "idle" /\ outcome' = "error" /\ ClearBound /\ UNCHANGED server
    BY <1>1 DEF StartIngest, Returns
  <2> QED BY <2>1, BeginsAndReturns
<1>2. CASE ~(Mode # "append" /\ DdlType = "nested")
  <2>1. /\ Begins(BoundBatches) /\ UNCHANGED <<binding, outcome, server>> /\ tables < MaxTables
        /\ pc' = IF Mode = "append" THEN "append" ELSE "ddl"
    BY <1>2 DEF StartIngest
  <2>2. /\ BoundBatches \in Seq(Request)
        /\ \E e \in [0..Len(BoundBatches) -> Nat] :
             LaidOut(e, BoundBatches, RowsGiven, 0, IF StreamBreaks THEN 1 ELSE 0)
    BY BatchesLaid DEF IInv
  <2>3. Marker' = IF StreamBreaks THEN 1 ELSE 0
    <3>1. StreamBreaks' <=> StreamBreaks
      BY <2>1 DEF StreamBreaks, binding
    <3>2. pc' \in {"ddl", "append"}
      BY <2>1
    <3> QED BY <3>1, <3>2 DEF Marker
  <2>4. \E e \in [0..Len(BoundBatches) -> Nat] : LaidOut(e, BoundBatches, RowsGiven, 0, Marker')
    BY <2>2, <2>3, Zenon
  <2>5. /\ pc' \in {"ddl", "append", "update", "query"} /\ pc' \notin {"update", "query"}
        /\ pc' = "ddl" => Mode # "append" /\ tables < MaxTables
        /\ pc' = "append" => Mode = "append"
    BY <2>1
  <2>6. UNCHANGED <<options, closed, server, outcome>> /\ UNCHANGED binding
    BY <2>1
  <2> QED BY <2>1, <2>2, <2>4, <2>5, <2>6, BeginsToSend
<1> QED
  BY <1>1, <1>2

LEMMA StartRowsMoves ==
  ASSUME IInv, Idle, NEW at \in {"update", "query"}, StartRows(at), UNCHANGED <<options, closed>>
  PROVE  IInv'
<1>1. ClearBound /\ UNCHANGED server
  BY DEF StartRows
<1> DEFINE requests == [j \in DOMAIN BoundRows |-> [type |-> "literal", rows |-> <<BoundRows[j]>>]]
<1>2. \/ Begins(<<>>) /\ pc' = "idle" /\ outcome' = "error"
      \/ ~Unreadable /\ Begins(requests) /\ pc' = at /\ UNCHANGED outcome
  BY DEF StartRows, Returns
<1>3. BoundRows \in Seq(Row)
  BY BoundRowsAre DEF IInv
<1>4. /\ requests \in Seq(Request)
      /\ \A k \in 1..Len(requests) : Len(requests[k].rows) = 1
      /\ \E e \in [0..Len(requests) -> Nat] : LaidOut(e, requests, BoundRows, 0, 0)
  BY <1>3, RowsLaid, Zenon
<1> HIDE DEF requests
<1>5. CASE Begins(<<>>) /\ pc' = "idle" /\ outcome' = "error"
  BY <1>1, <1>5, BeginsAndReturns
<1>6. CASE ~Unreadable /\ Begins(requests) /\ pc' = at /\ UNCHANGED outcome
  <2>1. RowsGiven = BoundRows
    <3>1. ~StreamBreaks
      BY <1>6 DEF Unreadable
    <3>2. RowsGiven = BoundRows \o <<>>
      BY <3>1 DEF RowsGiven
    <3> QED BY <1>3, <3>2
  <2>2. Marker' = 0
    BY <1>6 DEF Marker
  <2>3. \E e \in [0..Len(requests) -> Nat] : LaidOut(e, requests, RowsGiven, 0, Marker')
    BY <1>4, <2>1, <2>2, Zenon
  <2>4. /\ pc' \in {"ddl", "append", "update", "query"} /\ pc' # "ddl" /\ pc' # "append"
        /\ UNCHANGED <<options, closed, server, outcome>>
    BY <1>1, <1>6
  <2> QED BY <1>1, <1>4, <1>6, <2>3, <2>4, BeginsToSend
<1> QED
  BY <1>2, <1>5, <1>6

LEMMA ExecuteMoves ==
  ASSUME IInv, ExecuteUpdate \/ ExecuteQuery
  PROVE  IInv'
<1>1. Idle /\ UNCHANGED <<options, closed>>
  BY DEF ExecuteUpdate, ExecuteQuery
<1>2. CASE BeginFails
  BY <1>1, <1>2, FailsUnbegun DEF BeginFails, Returns
<1>3. CASE Plain
  BY <1>1, <1>3, PlainMoves
<1>4. CASE StartIngest
  BY <1>1, <1>4, StartIngestMoves
<1>5. CASE StartRows("update") \/ StartRows("query")
  BY <1>1, <1>5, StartRowsMoves
<1>6. CASE Returns("error") /\ UNCHANGED <<binding, call, server>>
  BY <1>1, <1>6, FailsUnbegun DEF Returns
<1> QED
  BY <1>2, <1>3, <1>4, <1>5, <1>6 DEF ExecuteUpdate, ExecuteQuery
----------------------------------------------------------------------------
(***************************************************************************)
(* The steps of an execute in progress.                                    *)
(***************************************************************************)

\* A call returns, with what took effect a first part of what it was given.
LEMMA Returning ==
  ASSUME IInv, pc # "idle", pc' = "idle", EffectsOK(effects'), todo' \in Seq(Request),
         UNCHANGED <<options, closed, started, given>>, total' \in Nat,
         created' \in {"nothing", "created", "replaced"}, TableTypes',
         ClearBound \/ (Slots = {0} /\ UNCHANGED binding),
         outcome' \in {"ok"} \union Failures,
         outcome' = "ok" => Len(effects') - started = Len(given) /\ total' = Len(given),
         outcome' = "exists" => Len(effects') = started /\ created' = "nothing"
  PROVE  IInv'
<1>1. SlotsInv' /\ bindings' = bindings /\ Slots' = {0}
  BY SlotsCleared, SlotsKept DEF IInv
<1>2. AppliedInv' /\ OnceInv'
  BY <1>1, Stops DEF IInv
<1>3. TypeInv'
  BY DEF IInv, TypeInv, CallTypes, OptionTypes, options, EffectsOK
<1>4. OutcomeInv'
  BY DEF OutcomeInv
<1> QED
  BY <1>1, <1>2, <1>3, <1>4, IdleAfter

\* What a request that was refused, or whose reply was lost, may have done.
LEMMA Unanswered ==
  ASSUME IInv, pc # "idle", todo # <<>>, NotAnswered(Apply) \/ UNCHANGED server
  PROVE  EffectsOK(effects') /\ TableTypes'
<1>1. CASE UNCHANGED server
  BY <1>1, EffectsAreOK DEF server, IInv, TypeInv, TableTypes
<1>2. CASE Apply
  BY <1>2, RequestApplies DEF Apply, IInv, TypeInv, TableTypes
<1> QED
  BY <1>1, <1>2 DEF NotAnswered

LEMMA DdlMoves ==
  ASSUME IInv, Ddl
  PROVE  IInv'
<1>1. /\ pc = "ddl" /\ pc # "idle" /\ total = 0 /\ created = "nothing"
      /\ Mode # "append" /\ tables < MaxTables /\ EffectsOK(effects)
  BY EffectsAreOK DEF Ddl, IInv, ModeInv
<1>2. UNCHANGED <<options, closed, total, started, given>>
  BY DEF Ddl
<1>3. ASSUME RunsDdl
      PROVE  /\ UNCHANGED effects /\ TableTypes' /\ created' \in {"nothing", "created", "replaced"}
             /\ \/ ingestMode \in {"", "create"} /\ created' = "created"
                \/ ingestMode = "replace" /\ created' \in {"created", "replaced"}
                \/ ingestMode = "create_append" /\ created' \in {"created", "nothing"}
  <2>1. UNCHANGED effects /\ ~Exists
    BY <1>3 DEF RunsDdl
  <2>2. tables \in Nat /\ MaxTables \in Nat /\ table \in 0..tables
    BY ConstantsAssumption DEF IInv, TypeInv, TableTypes
  <2>3. ingestMode \in {"", "create", "replace", "create_append"}
    BY <1>1 DEF IInv, TypeInv, OptionTypes, Modes, Mode
  <2>4. CASE Mode = "create_append" /\ table # 0
    <3>1. UNCHANGED <<table, tables, created>>
      BY <1>3, <2>4 DEF RunsDdl
    <3>2. ingestMode = "create_append"
      BY <2>3, <2>4 DEF Mode
    <3> QED BY <1>1, <2>1, <3>1, <3>2 DEF IInv, TypeInv, TableTypes
  <2>5. CASE ~(Mode = "create_append" /\ table # 0)
    <3>1. /\ table' = tables + 1 /\ tables' = tables + 1
          /\ created' = IF table = 0 THEN "created" ELSE "replaced"
      BY <1>3, <2>5 DEF RunsDdl, NewTable
    <3>2. TableTypes'
      BY <1>1, <2>2, <3>1 DEF TableTypes
    <3>3. ingestMode \in {"", "create", "create_append"} => table = 0
      BY <2>1, <2>5 DEF Mode, Exists
    <3> QED BY <2>1, <2>3, <3>1, <3>2, <3>3
  <2> QED BY <2>4, <2>5
<1>4. CASE /\ RunsDdl
           /\ pc' = "append"
           /\ UNCHANGED <<binding, outcome, todo>>
  <2>1. /\ UNCHANGED effects /\ TableTypes' /\ created' \in {"nothing", "created", "replaced"}
        /\ \/ ingestMode \in {"", "create"} /\ created' = "created"
           \/ ingestMode = "replace" /\ created' \in {"created", "replaced"}
           \/ ingestMode = "create_append" /\ created' \in {"created", "nothing"}
    BY <1>3, <1>4
  <2>2. SlotsInv' /\ bindings' = bindings
    BY <1>1, <1>2, <1>4, SlotsKept DEF IInv, SlotsInv
  <2>3. AppliedInv' /\ OnceInv'
    <3>1. pc' # "idle" /\ Len(effects') = started + total' /\ EffectsOK(effects')
      BY <1>1, <1>2, <1>4, <2>1 DEF IInv, AppliedInv
    <3> QED BY <1>2, <2>2, <3>1, GoesOn DEF IInv
  <2>4. TypeInv'
    BY <1>2, <1>4, <2>1 DEF IInv, TypeInv, CallTypes, OptionTypes, options
  <2>5. TodoInv'
    <3>1. StreamBreaks' <=> StreamBreaks
      BY <1>4 DEF StreamBreaks, binding
    <3>2. Marker' = Marker
      BY <1>1, <1>4, <3>1 DEF Marker
    <3>3. pc' \notin {"idle", "update", "query"}
      BY <1>4
    <3> QED BY <1>1, <1>2, <1>4, <3>2, <3>3, Zenon DEF IInv, TodoInv
  <2>6. ModeInv'
    BY <1>2, <1>4, <2>1 DEF ModeInv, options
  <2>7. OutcomeInv'
    BY <1>4 DEF OutcomeInv
  <2> QED BY <2>2, <2>3, <2>4, <2>5, <2>6, <2>7 DEF IInv
<1>5. ASSUME /\ \/ NotAnswered(FALSE) /\ UNCHANGED created
                \/ "lost" \in Faults /\ RunsDdl
             /\ ClearBound
             /\ Returns("error")
             /\ todo' = <<>>
      PROVE  IInv'
  <2>1. /\ UNCHANGED effects /\ TableTypes' /\ created' \in {"nothing", "created", "replaced"}
    <3>1. CASE UNCHANGED server /\ UNCHANGED created
      BY <1>1, <3>1 DEF server, IInv, TypeInv, TableTypes
    <3> QED BY <1>3, <1>5, <3>1 DEF NotAnswered
  <2>2. /\ EffectsOK(effects') /\ total' \in Nat /\ todo' \in Seq(Request)
        /\ pc' = "idle" /\ outcome' = "error"
    BY <1>1, <1>2, <1>5, <2>1 DEF Returns
  <2> QED BY <1>1, <1>2, <1>5, <2>1, <2>2, Returning DEF Failures
<1>6. ASSUME /\ Exists
             /\ ClearBound
             /\ Returns("exists")
             /\ todo' = <<>>
             /\ UNCHANGED <<server, created>>
      PROVE  IInv'
  <2>1. UNCHANGED effects /\ TableTypes' /\ created' = "nothing"
    BY <1>1, <1>6 DEF server, IInv, TypeInv, TableTypes
  <2>2. /\ EffectsOK(effects') /\ total' \in Nat /\ todo' \in Seq(Request)
        /\ pc' = "idle" /\ outcome' = "exists"
    BY <1>1, <1>2, <1>6, <2>1 DEF Returns
  <2>3. Len(effects') = started
    BY <1>1, <2>1 DEF IInv, AppliedInv, TypeInv, CallTypes
  <2> QED BY <1>1, <1>2, <1>6, <2>1, <2>2, <2>3, Returning DEF Failures
<1> QED
  BY <1>4, <1>5, <1>6 DEF Ddl

\* The request at the head of todo takes effect and the call goes on.
LEMMA Sends ==
  ASSUME IInv, pc \notin {"idle", "ddl"}, todo # <<>>, Apply, todo' = Tail(todo),
         total' = total + Len(Head(todo).rows),
         UNCHANGED <<options, binding, closed, pc, started, given, created, outcome>>
  PROVE  IInv'
<1>1. /\ Len(Head(todo).rows) \in Nat
      /\ EffectsOK(effects \o Head(todo).rows)
      /\ Len(effects \o Head(todo).rows) = started + (total + Len(Head(todo).rows))
      /\ Tail(todo) \in Seq(Request)
      /\ \E e \in [0..Len(Tail(todo)) -> Nat] :
           LaidOut(e, Tail(todo), given, total + Len(Head(todo).rows), Marker)
      /\ \A k \in 1..Len(Tail(todo)) : Tail(todo)[k] = todo[k + 1] /\ k + 1 \in 1..Len(todo)
  BY RequestApplies, Zenon
<1>2. effects' = effects \o Head(todo).rows /\ UNCHANGED <<table, tables>>
  BY DEF Apply
<1>3. EffectsOK(effects') /\ Len(effects') = started + total'
  BY <1>1, <1>2, Zenon
<1>4. SlotsInv' /\ bindings' = bindings /\ Slots' = Slots
  BY SlotsKept DEF IInv, SlotsInv
<1>5. AppliedInv' /\ OnceInv'
  BY <1>3, <1>4, GoesOn DEF IInv
<1>6. TypeInv'
  <2>1. total' \in Nat
    BY <1>1 DEF IInv, TypeInv, CallTypes
  <2>2. effects' \in Seq(Row)
    BY <1>3 DEF EffectsOK
  <2>3. todo' \in Seq(Request)
    BY <1>1, Zenon
  <2> QED BY <1>2, <2>1, <2>2, <2>3, ZenonT(40) DEF IInv, TypeInv, CallTypes, OptionTypes, TableTypes, options
<1>7. TodoInv'
  <2>1. Marker' = Marker
    BY DEF Marker, StreamBreaks, binding
  <2>2. \E e \in [0..Len(todo') -> Nat] : LaidOut(e, todo', given', total', Marker')
    BY <1>1, <2>1, Zenon
  <2>3. pc' \in {"update", "query"} => \A k \in 1..Len(todo') : Len(todo'[k].rows) = 1
    <3> SUFFICES ASSUME pc \in {"update", "query"}, NEW k \in 1..Len(todo')
                 PROVE  Len(todo'[k].rows) = 1
      OBVIOUS
    <3>1. \A i \in 1..Len(todo) : Len(todo[i].rows) = 1
      BY DEF IInv, TodoInv
    <3>2. todo'[k] = todo[k + 1] /\ k + 1 \in 1..Len(todo)
      BY <1>1, Zenon
    <3> QED BY <3>1, <3>2, Zenon
  <2> QED BY <2>2, <2>3, Zenon DEF TodoInv
<1>8. ModeInv' /\ OutcomeInv'
  BY DEF ModeInv, OutcomeInv, IInv, options
<1> QED
  BY <1>4, <1>5, <1>6, <1>7, <1>8 DEF IInv

LEMMA AppendBatchMoves ==
  ASSUME IInv, AppendBatch
  PROVE  IInv'
<1>1. /\ pc = "append" /\ pc \notin {"idle", "ddl"} /\ pc # "idle" /\ todo # <<>>
      /\ UNCHANGED <<options, closed, started, given, created>>
  BY DEF AppendBatch
<1>2. CASE /\ Apply
           /\ todo' = Tail(todo)
           /\ total' = total + Len(Head(todo).rows)
           /\ UNCHANGED <<binding, pc, outcome>>
  BY <1>1, <1>2, Sends
<1>3. CASE /\ NotAnswered(Apply) \/ UNCHANGED server
           /\ pc' = "idle" /\ outcome' \in {"error", "unsupported"}
           /\ ClearBound
           /\ todo' = <<>>
           /\ UNCHANGED total
  <2>1. EffectsOK(effects') /\ TableTypes'
    BY <1>1, <1>3, Unanswered
  <2>2. total' \in Nat /\ todo' \in Seq(Request) /\ created' \in {"nothing", "created", "replaced"}
    BY <1>1, <1>3 DEF IInv, TypeInv, CallTypes
  <2> QED BY <1>1, <1>3, <2>1, <2>2, Returning DEF Failures
<1>4. NotAnswered(table # 0 /\ Apply) => NotAnswered(Apply)
  BY DEF NotAnswered
<1> QED
  BY <1>2, <1>3, <1>4 DEF AppendBatch, Returns

\* Nothing is left to send: the call was given no more rows than it counted,
\* but for the one a stream broke off at.
LEMMA NothingLeft ==
  ASSUME IInv, pc # "idle", todo = <<>>
  PROVE  Len(given) = total + Marker /\ Len(effects) - started = total /\ total \in Nat
<1>1. total \in Nat /\ started \in Nat /\ Len(effects) = started + total
  BY DEF IInv, TypeInv, CallTypes, AppliedInv
<1>2. PICK e \in [0..Len(todo) -> Nat] : LaidOut(e, todo, given, total, Marker)
  BY Zenon DEF IInv, TodoInv
<1>3. Len(todo) = 0
  OBVIOUS
<1>4. e[0] = total /\ Len(given) = e[0] + Marker
  BY <1>2, <1>3, Zenon DEF LaidOut
<1> QED
  BY <1>1, <1>4

LEMMA FinishIngestMoves ==
  ASSUME IInv, FinishIngest
  PROVE  IInv'
<1>1. /\ pc = "append" /\ pc # "idle" /\ todo = <<>> /\ pc' = "idle" /\ ClearBound
      /\ UNCHANGED <<options, closed, call, server>>
      /\ outcome' = IF StreamBreaks THEN "error" ELSE "ok"
  BY DEF FinishIngest, Returns
<1>2. /\ UNCHANGED <<effects, todo, total, started, given, created>> /\ EffectsOK(effects')
      /\ TableTypes' /\ todo' \in Seq(Request) /\ created' \in {"nothing", "created", "replaced"}
  BY <1>1, EffectsAreOK DEF call, server, IInv, TypeInv, CallTypes, TableTypes
<1>3. Len(given) = total + Marker /\ Len(effects) - started = total /\ total \in Nat
  BY <1>1, NothingLeft
<1>4. ~StreamBreaks => Marker = 0
  BY DEF Marker
<1>5. outcome' = "ok" => Len(effects') - started = Len(given) /\ total' = Len(given)
  BY <1>1, <1>2, <1>3, <1>4
<1>6. outcome' \in {"ok"} \union Failures /\ outcome' # "exists"
  BY <1>1 DEF Failures
<1> QED
  BY <1>1, <1>2, <1>3, <1>5, <1>6, Returning

LEMMA RunRowMoves ==
  ASSUME IInv, RunRow
  PROVE  IInv'
<1>1. /\ pc \in {"update", "query"} /\ pc \notin {"idle", "ddl"} /\ pc # "idle" /\ todo # <<>>
      /\ UNCHANGED <<options, binding, closed, started, given, created>>
  BY DEF RunRow
<1>2. CASE /\ Apply
           /\ todo' = Tail(todo)
           /\ total' = total + 1
           /\ UNCHANGED <<pc, outcome>>
  <2>1. Len(Head(todo).rows) = 1
    <3>1. Head(todo) = todo[1] /\ 1 \in 1..Len(todo)
      BY <1>1, RequestApplies, Zenon
    <3> QED BY <1>1, <3>1 DEF IInv, TodoInv
  <2> QED BY <1>1, <1>2, <2>1, Sends
<1>3. CASE /\ NotAnswered(Apply) \/ UNCHANGED server
           /\ pc' = "idle" /\ outcome' = "error"
           /\ todo' = <<>>
           /\ UNCHANGED total
  <2>1. EffectsOK(effects') /\ TableTypes'
    BY <1>1, <1>3, Unanswered
  <2>2. total' \in Nat /\ todo' \in Seq(Request) /\ created' \in {"nothing", "created", "replaced"}
    BY <1>1, <1>3 DEF IInv, TypeInv, CallTypes
  <2>3. Slots = {0}
    BY <1>1 DEF IInv, SlotsInv
  <2> QED BY <1>1, <1>3, <2>1, <2>2, <2>3, Returning DEF Failures
<1> QED
  BY <1>2, <1>3 DEF RunRow, Returns

LEMMA FinishRowsMoves ==
  ASSUME IInv, FinishRows
  PROVE  IInv'
<1>1. /\ pc \in {"update", "query"} /\ pc # "idle" /\ todo = <<>> /\ pc' = "idle"
      /\ UNCHANGED <<options, binding, closed, call, server>> /\ outcome' = "ok"
  BY DEF FinishRows, Returns
<1>2. /\ UNCHANGED <<effects, todo, total, started, given, created>> /\ EffectsOK(effects')
      /\ TableTypes' /\ todo' \in Seq(Request) /\ created' \in {"nothing", "created", "replaced"}
  BY <1>1, EffectsAreOK DEF call, server, IInv, TypeInv, CallTypes, TableTypes
<1>3. Len(given) = total + Marker /\ Len(effects) - started = total /\ total \in Nat
  BY <1>1, NothingLeft
<1>4. Marker = 0 /\ Slots = {0}
  BY <1>1 DEF Marker, IInv, SlotsInv
<1>5. Len(effects') - started = Len(given) /\ total' = Len(given)
  BY <1>1, <1>2, <1>3, <1>4
<1> QED
  BY <1>1, <1>2, <1>3, <1>4, <1>5, Returning

LEMMA OthersMove ==
  ASSUME IInv, Others
  PROVE  IInv'
<1>1. UNCHANGED <<options, binding, closed, pc, call, effects, outcome>>
  BY DEF Others
<1>2. TableTypes' /\ (pc = "ddl" => tables' < MaxTables)
  <2>1. tables \in Nat /\ MaxTables \in Nat /\ tables <= MaxTables /\ table \in 0..tables
    BY ConstantsAssumption DEF IInv, TypeInv, TableTypes
  <2>2. pc = "ddl" => tables < MaxTables
    BY DEF IInv, ModeInv
  <2> QED BY <2>1, <2>2 DEF Others, NewTable, TableTypes
<1>3. TypeInv' /\ SlotsInv'
  <2>1. UNCHANGED <<bound, boundStream, bindings, held>>
    BY <1>1 DEF binding
  <2>2. SlotsInv'
    BY <1>1, <2>1, SlotsStay DEF IInv
  <2>3. CallTypes'
    BY <1>1, Zenon DEF IInv, TypeInv, CallTypes, call
  <2>4. OptionTypes'
    BY <1>1, Zenon DEF IInv, TypeInv, OptionTypes, options
  <2> QED BY <1>2, <2>2, <2>3, <2>4 DEF TypeInv
<1>4. AppliedInv' /\ OnceInv'
  BY <1>1 DEF IInv, AppliedInv, OnceInv, Slots, binding, call
<1>5. TodoInv'
  <2>1. Marker' = Marker
    BY <1>1 DEF Marker, StreamBreaks, binding
  <2>2. UNCHANGED <<pc, todo, given, total>>
    BY <1>1 DEF call
  <2> QED BY <2>1, <2>2, Zenon DEF IInv, TodoInv
<1>6. ModeInv' /\ OutcomeInv'
  BY <1>1, <1>2 DEF IInv, ModeInv, OutcomeInv, Mode, options, call
<1> QED
  BY <1>3, <1>4, <1>5, <1>6 DEF IInv
----------------------------------------------------------------------------
(***************************************************************************)
(* The inductive invariant, and what follows from it.                      *)
(***************************************************************************)
LEMMA InitIInv == Init => IInv
<1> SUFFICES ASSUME Init PROVE IInv
  OBVIOUS
<1>1. /\ effects = <<>> /\ given = <<>> /\ todo = <<>> /\ bindings = <<>> /\ pc = "idle"
      /\ bound = 0 /\ boundStream = 0 /\ started = 0 /\ total = 0 /\ outcome = "none"
      /\ held = [b \in 1..MaxBinds |-> 0]
  BY DEF Init
<1>2. MaxBinds \in Nat /\ MaxTables \in Nat
  BY ConstantsAssumption
<1>3. TypeInv
  <2>1. /\ effects \in Seq(Row) /\ given \in Seq(Row) /\ todo \in Seq(Request)
        /\ created = "nothing" /\ table = 0 /\ tables = 0
    <3>1. <<>> \in Seq(Row) /\ <<>> \in Seq(Request)
      OBVIOUS
    <3> QED BY <1>1, <3>1, Zenon DEF Init
  <2>2. CallTypes
    BY <1>1, <2>1 DEF CallTypes
  <2>3. OptionTypes
    BY DEF Init, OptionTypes
  <2>4. TableTypes
    BY <1>2, <2>1 DEF TableTypes
  <2> QED BY <2>2, <2>3, <2>4 DEF TypeInv
<1>4. SlotsInv
  <2>1. BindingsReleased
    <3>1. Slots = {0} /\ closed = FALSE
      BY DEF Init, Slots
    <3>2. DOMAIN held = 1..MaxBinds /\ \A b \in 1..MaxBinds : held[b] = 0 /\ b # 0
      BY <1>1
    <3> QED BY <3>1, <3>2 DEF BindingsReleased
  <2>2. held \in [1..MaxBinds -> Nat]
    BY <1>1
  <2>3. bindings \in Seq(Shapes) /\ Len(bindings) = 0
    BY <1>1
  <2> QED BY <1>1, <1>2, <2>1, <2>2, <2>3 DEF SlotsInv
<1>5. AppliedInv /\ OnceInv
  BY <1>1 DEF AppliedInv, OnceInv
<1>6. TodoInv /\ ModeInv /\ OutcomeInv
  BY <1>1 DEF TodoInv, ModeInv, OutcomeInv
<1> QED
  BY <1>3, <1>4, <1>5, <1>6 DEF IInv

LEMMA StepIInv == IInv /\ [Next]_vars => IInv'
<1> SUFFICES ASSUME IInv, [Next]_vars PROVE IInv'
  OBVIOUS
<1>1. CASE Call
  BY <1>1, OptionsMove, BindMoves, CloseMoves, ExecuteMoves DEF Call
<1>2. CASE Progress
  BY <1>2, DdlMoves, AppendBatchMoves, FinishIngestMoves, RunRowMoves, FinishRowsMoves DEF Progress
<1>3. CASE Others
  BY <1>3, OthersMove
<1>4. CASE UNCHANGED vars
  <2>1. UNCHANGED <<options, binding, closed, pc, call, server, outcome>>
    BY <1>4 DEF vars
  <2>2. TypeInv' /\ SlotsInv'
    <3>1. UNCHANGED <<bound, boundStream, bindings, held>>
      BY <2>1 DEF binding
    <3>2. SlotsInv'
      BY <2>1, <3>1, SlotsStay DEF IInv
    <3>3. CallTypes'
      BY <2>1, Zenon DEF IInv, TypeInv, CallTypes, call, server
    <3>4. OptionTypes'
      BY <2>1, Zenon DEF IInv, TypeInv, OptionTypes, options
    <3>5. TableTypes'
      BY <2>1, Zenon DEF IInv, TypeInv, TableTypes, server
    <3> QED BY <3>2, <3>3, <3>4, <3>5 DEF TypeInv
  <2>3. AppliedInv' /\ OnceInv'
    BY <2>1, ZenonT(40) DEF IInv, AppliedInv, OnceInv, Slots, binding, call, server
  <2>4. Marker' = Marker /\ UNCHANGED <<pc, todo, given, total>>
    BY <2>1 DEF Marker, StreamBreaks, binding, call
  <2>5. TodoInv'
    BY <2>4, Zenon DEF IInv, TodoInv
  <2>6. ModeInv' /\ OutcomeInv'
    BY <2>1 DEF IInv, ModeInv, OutcomeInv, Mode, options, call, server
  <2> QED BY <2>2, <2>3, <2>5, <2>6 DEF IInv
<1> QED
  BY <1>1, <1>2, <1>3, <1>4 DEF Next

THEOREM AlwaysIInv == Spec => []IInv
BY InitIInv, StepIInv, PTL DEF Spec

LEMMA SliceIs ==
  ASSUME NEW S, NEW s \in Seq(S), NEW a \in 0..Len(s)
  PROVE  /\ SubSeq(s, a + 1, Len(s)) \in Seq(S)
         /\ Len(SubSeq(s, a + 1, Len(s))) = Len(s) - a
         /\ \A i \in 1..(Len(s) - a) : SubSeq(s, a + 1, Len(s))[i] = s[a + i]
<1> PICK n \in Nat : n = Len(s)
  OBVIOUS
<1>1. \A i \in (a + 1)..n : s[i] \in S
  OBVIOUS
<1>2. a + 1 \in Int /\ n \in Int
  OBVIOUS
<1>3. /\ SubSeq(s, a + 1, n) \in Seq(S)
      /\ Len(SubSeq(s, a + 1, n)) = IF a + 1 <= n THEN n - (a + 1) + 1 ELSE 0
      /\ \A i \in 1..(n - (a + 1) + 1) : SubSeq(s, a + 1, n)[i] = s[(a + 1) + i - 1]
  BY <1>1, <1>2, SubSeqProperties
<1>4. /\ (IF a + 1 <= n THEN n - (a + 1) + 1 ELSE 0) = n - a
      /\ n - (a + 1) + 1 = n - a
      /\ \A i \in 1..(n - a) : (a + 1) + i - 1 = a + i
  OBVIOUS
<1> QED
  BY <1>3, <1>4

LEMMA SameRows ==
  ASSUME NEW S, NEW s \in Seq(S), NEW t \in Seq(S), Len(s) = Len(t), \A i \in 1..Len(s) : s[i] = t[i]
  PROVE  s = t
OBVIOUS

LEMMA AppliedIs ==
  ASSUME IInv
  PROVE  /\ Applied \in Seq(Row) /\ Len(Applied) = Len(effects) - started
         /\ Len(Applied) \in 0..Len(given) /\ given \in Seq(Row)
         /\ \A i \in 1..Len(Applied) : Applied[i] = given[i]
<1>1. /\ effects \in Seq(Row) /\ given \in Seq(Row) /\ started \in Nat
      /\ Len(effects) - started \in 0..Len(given)
      /\ \A i \in 1..(Len(effects) - started) : effects[started + i] = given[i]
  BY DEF IInv, TypeInv, CallTypes, AppliedInv
<1>2. started \in 0..Len(effects)
  BY <1>1
<1>3. /\ Applied \in Seq(Row) /\ Len(Applied) = Len(effects) - started
      /\ \A i \in 1..(Len(effects) - started) : Applied[i] = effects[started + i]
  BY <1>1, <1>2, SliceIs, Zenon DEF Applied
<1> QED
  BY <1>1, <1>3, Zenon

\* An execute that fails in the middle, at a refused row, a lost reply or a
\* stream that breaks off, has applied a first part of its rows, in order.
THEOREM AlwaysFirstPart == Spec => []FirstPart
<1>1. IInv => FirstPart
  <2> SUFFICES ASSUME IInv PROVE FirstPart
    OBVIOUS
  <2>1. PICK s \in Seq(Row), t \in Seq(Row) : s = Applied /\ t = given
    BY AppliedIs, Zenon
  <2>2. PICK n \in 0..Len(t) : n = Len(s)
    BY <2>1, AppliedIs, Zenon
  <2>3. \A i \in 1..n : s[i] = t[i]
    BY <2>1, <2>2, AppliedIs, Zenon
  <2>4. n <= Len(t) /\ n \in Nat /\ n \in Int /\ 1 \in Int
    OBVIOUS
  <2>5. (\A i \in 1..n : s[i] \in Row) /\ (\A i \in 1..n : t[i] \in Row)
    BY <2>2
  <2>6. /\ SubSeq(s, 1, n) \in Seq(Row)
        /\ Len(SubSeq(s, 1, n)) = IF 1 <= n THEN n - 1 + 1 ELSE 0
        /\ \A i \in 1..(n - 1 + 1) : SubSeq(s, 1, n)[i] = s[1 + i - 1]
    BY <2>4, <2>5, SubSeqProperties
  <2>7. /\ SubSeq(t, 1, n) \in Seq(Row)
        /\ Len(SubSeq(t, 1, n)) = IF 1 <= n THEN n - 1 + 1 ELSE 0
        /\ \A i \in 1..(n - 1 + 1) : SubSeq(t, 1, n)[i] = t[1 + i - 1]
    BY <2>4, <2>5, SubSeqProperties
  <2>8. (IF 1 <= n THEN n - 1 + 1 ELSE 0) = n /\ n - 1 + 1 = n /\ \A i \in 1..n : 1 + i - 1 = i
    OBVIOUS
  <2>9. \A i \in 1..Len(SubSeq(s, 1, n)) : SubSeq(s, 1, n)[i] = SubSeq(t, 1, n)[i]
    BY <2>3, <2>6, <2>7, <2>8
  <2>10. SubSeq(s, 1, n) = SubSeq(t, 1, n)
    BY <2>6, <2>7, <2>9, SameRows, Zenon
  <2> QED BY <2>1, <2>2, <2>4, <2>10, Zenon DEF FirstPart, IsPrefix
<1> QED
  BY <1>1, AlwaysIInv, PTL

\* An execute that returns without an error has applied every row it was
\* given and counted them: it neither stops early nor overlooks that the
\* stream broke off.
THEOREM AlwaysOkMeansAll == Spec => []OkMeansAll
<1>1. IInv => OkMeansAll
  <2> SUFFICES ASSUME IInv, pc = "idle", outcome = "ok"
               PROVE  Applied = given /\ total = Len(given)
    BY DEF OkMeansAll
  <2>1. Len(effects) - started = Len(given) /\ total = Len(given)
    BY DEF IInv, OutcomeInv
  <2>2. PICK s \in Seq(Row), t \in Seq(Row) : s = Applied /\ t = given
    BY AppliedIs, Zenon
  <2>3. Len(s) = Len(t) /\ \A i \in 1..Len(s) : s[i] = t[i]
    BY <2>1, <2>2, AppliedIs, Zenon
  <2>4. s = t
    BY <2>3, SameRows, Zenon
  <2> QED BY <2>1, <2>2, <2>4
<1> QED
  BY <1>1, AlwaysIInv, PTL

\* No row takes effect twice, however often the application executes the
\* statement again after a failure: an execution that sent something has let
\* go of its bindings.
THEOREM AlwaysNothingTwice == Spec => []NothingTwice
<1>1. IInv => NothingTwice
  <2> SUFFICES ASSUME IInv PROVE NothingTwice
    OBVIOUS
  <2>1. DOMAIN effects = 1..Len(effects)
    BY DEF IInv, TypeInv, CallTypes
  <2>2. \A i, j \in 1..Len(effects) : effects[i] = effects[j] => i = j
    BY DEF IInv, OnceInv
  <2> QED BY <2>1, <2>2, Zenon DEF NothingTwice, IsInjective
<1> QED
  BY <1>1, AlwaysIInv, PTL

\* Batches are appended to a table the call's mode allows, and "create"
\* against a table that is there changes nothing.
THEOREM AlwaysModeKept == Spec => []ModeKept
<1>1. IInv => ModeKept
  <2> SUFFICES ASSUME IInv PROVE ModeKept
    OBVIOUS
  <2>1. pc = "idle" /\ outcome = "exists" => Len(effects) = started /\ created = "nothing"
    BY DEF IInv, OutcomeInv
  <2>2. pc = "idle" /\ outcome = "exists" => Applied = <<>>
    <3> SUFFICES ASSUME pc = "idle", outcome = "exists" PROVE Applied = <<>>
      OBVIOUS
    <3>1. started \in Nat
      BY DEF IInv, TypeInv, CallTypes
    <3>2. PICK s \in Seq(Row) : s = Applied /\ Len(s) = 0
      <4>1. Len(effects) - started = 0
        BY <2>1, <3>1
      <4> QED BY <4>1, AppliedIs, Zenon
    <3>3. s = <<>>
      BY <3>2
    <3> QED BY <3>2, <3>3
  <2> QED BY <2>1, <2>2 DEF ModeKept, IInv, ModeInv
<1> QED
  BY <1>1, AlwaysIInv, PTL

\* The driver holds one reference on what is bound, none on what it has
\* replaced or used up, and with the statement closed none at all.
THEOREM AlwaysBindingsOK == Spec => []BindingsOK
<1>1. IInv => BindingsOK
  <2> SUFFICES ASSUME IInv PROVE BindingsOK
    OBVIOUS
  <2>1. DOMAIN bindings = 1..Len(bindings) /\ \A b \in 1..Len(bindings) : bindings[b] \in Shapes
    BY DEF IInv, SlotsInv
  <2>2. started \in 0..Len(effects)
    BY DEF IInv, TypeInv, CallTypes, AppliedInv
  <2>3. TypeOK
    BY <2>1, <2>2 DEF IInv, TypeInv, CallTypes, OptionTypes, TableTypes, SlotsInv, TypeOK
  <2> QED BY <2>3 DEF BindingsOK, IInv, SlotsInv
<1> QED
  BY <1>1, AlwaysIInv, PTL
============================================================================
