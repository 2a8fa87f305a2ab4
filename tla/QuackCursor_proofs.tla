------------------------ MODULE QuackCursor_proofs ------------------------
(***************************************************************************)
(* Proofs about QuackCursor, for any number of readers, any results and    *)
(* any faults.  What a reader needs beyond the properties is where its     *)
(* server stands: batch sent[r] was the last one served, everything up to  *)
(* it is delivered or buffered, in order, and all of the buffer is of that *)
(* batch while the reader streams.  A step moves one reader (OneMoves), so *)
(* the invariant is kept reader by reader.                                 *)
(***************************************************************************)
EXTENDS QuackCursor, TLAPS

\* Where a call is open, or may still be made, on the cursor.
Open == {"ready", "next", "fetch", "take", "drain"}

\* How the place of the call, the count, the record and the sticky fields fit.
CallInv(r) ==
  /\ pc[r] \in {"ready", "next", "fetch", "take"} <=> refs[r] > 0
  /\ pc[r] # "ready" => current[r] = 0
  /\ pc[r] \notin {"ready", "over"} => ~err[r] /\ ~done[r]
  /\ pc[r] \in {"new", "drain"} => delivered[r] = <<>>
  /\ pc[r] = "new" => buffered[r] = <<>> /\ sent[r] = 0
  /\ current[r] # 0 => /\ ~done[r] /\ ~err[r]
                       /\ delivered[r] # <<>> /\ current[r] = delivered[r][Len(delivered[r])]

\* Where the server stands, and what an empty buffer means.
PlaceInv(r) ==
  /\ pc[r] \in Open /\ ~err[r] => /\ sent[r] \in 1..(Batches(r) + 1)
                                  /\ needsMore[r] <=> sent[r] < Batches(r)
  /\ pc[r] = "fetch" => buffered[r] = <<>> /\ needsMore[r]
  /\ pc[r] = "take" /\ needsMore[r] /\ buffered[r] = <<>> =>
       UpTo(r, sent[r]) = UpTo(r, sent[r] - 1)

\* s goes up, and stays between two numbers.
Rising(s) == \A i, j \in DOMAIN s : i < j => s[i] < s[j]
Between(s, low, high) == \A i \in DOMAIN s : low < s[i] /\ s[i] <= high
In(c, s) == \E i \in DOMAIN s : s[i] = c

\* Delivered, then buffered: all in order, none past what was sent.
OrderInv(r) ==
  /\ Rising(delivered[r]) /\ Rising(buffered[r])
  /\ \A i \in DOMAIN delivered[r], k \in DOMAIN buffered[r] : delivered[r][i] < buffered[r][k]
  /\ Between(delivered[r], 0, UpTo(r, sent[r]))
  /\ Between(buffered[r], 0, UpTo(r, sent[r]))
  /\ refs[r] > 0 /\ buffered[r] # <<>> =>
       /\ sent[r] \in 1..(Batches(r) + 1)
       /\ Between(buffered[r], UpTo(r, sent[r] - 1), UpTo(r, sent[r]))

\* Due, chunk by chunk (batches are numbered from 1).
IsDue(r, c) ==
  /\ c \in 1..Total(r) /\ c \notin result[r].hollow
  /\ \A i \in skipped[r] \ {0} : c <= UpTo(r, i - 1) \/ c > UpTo(r, i)

\* Nothing due was left out before a delivered chunk.
NoGap(r) ==
  \A c \in Nat, i \in DOMAIN delivered[r] :
    IsDue(r, c) /\ c < delivered[r][i] => In(c, delivered[r])

\* Nothing due that was sent is gone.
AllHeld(r) ==
  \A c \in Nat :
    IsDue(r, c) /\ c <= UpTo(r, sent[r]) => In(c, delivered[r]) \/ In(c, buffered[r])

\* All that is due was delivered; or all of it up to an empty batch.
AllGiven(r) == \A c \in Nat : IsDue(r, c) => In(c, delivered[r])

GivenSoFar(r) ==
  /\ needsMore[r] /\ sent[r] # 0 /\ UpTo(r, sent[r]) = UpTo(r, sent[r] - 1)
  /\ \A c \in Nat : IsDue(r, c) /\ c <= UpTo(r, sent[r]) => In(c, delivered[r])

CompleteInv(r) ==
  /\ NoGap(r)
  /\ pc[r] \in Open /\ ~err[r] => AllHeld(r)
  /\ done[r] /\ ~err[r] => AllGiven(r) \/ GivenSoFar(r)

ReaderInv(r) == CallInv(r) /\ PlaceInv(r) /\ OrderInv(r) /\ CompleteInv(r)
IInv == TypeOK /\ \A r \in Readers : ReaderInv(r)
----------------------------------------------------------------------------
\* What UpTo and its kin are, from ResultsAssumption.
LEMMA UpToIs ==
  ASSUME TypeOK, NEW r \in Readers
  PROVE  /\ Batches(r) \in Nat \ {0}
         /\ Total(r) \in Nat
         /\ \A i \in Nat : UpTo(r, i) \in Nat
         /\ \A i \in Nat : UpTo(r, i) <= UpTo(r, i + 1)
         /\ \A i \in Nat : i >= Batches(r) => UpTo(r, i) = Total(r)
<1> DEFINE cut == result[r].cut
<1>1. /\ cut \in Seq(Nat) /\ Len(cut) > 0
      /\ \A i \in 1..(Len(cut) - 1) : cut[i] <= cut[i + 1]
  BY ResultsAssumption DEF TypeOK, ResultType
<1>2. \A i \in 1..Len(cut) : cut[i] \in Nat
  BY <1>1
<1>3. Batches(r) = Len(cut) /\ Total(r) = cut[Len(cut)]
  BY DEF Batches, Total
<1> HIDE DEF cut
<1>4. \A i \in Nat : UpTo(r, i) = IF i = 0 THEN 0 ELSE IF i > Len(cut) THEN cut[Len(cut)] ELSE cut[i]
  BY <1>3 DEF UpTo, cut
<1>5. Len(cut) \in Nat
  BY <1>1
<1> QED
  BY <1>1, <1>2, <1>3, <1>4, <1>5, SMTT(30)

\* One step of UpTo.
LEMMA UpToRises ==
  ASSUME TypeOK, NEW r \in Readers, NEW i \in Nat
  PROVE  UpTo(r, i) \in Nat /\ UpTo(r, i + 1) \in Nat /\ UpTo(r, i) <= UpTo(r, i + 1)
<1>1. i + 1 \in Nat
  OBVIOUS
<1> QED
  BY <1>1, UpToIs

\* A batch is its chunks, in order.
LEMMA BatchIs ==
  ASSUME TypeOK, NEW r \in Readers, NEW i \in Nat \ {0}
  PROVE  /\ Batch(r, i) \in Seq(Nat)
         /\ Rising(Batch(r, i))
         /\ Between(Batch(r, i), UpTo(r, i - 1), UpTo(r, i))
         /\ \A c \in Nat : UpTo(r, i - 1) < c /\ c <= UpTo(r, i) => In(c, Batch(r, i))
         /\ Batch(r, i) = <<>> => UpTo(r, i) = UpTo(r, i - 1)
<1> DEFINE low == UpTo(r, i - 1)  n == UpTo(r, i) - UpTo(r, i - 1)
<1>1. low \in Nat /\ n \in Nat /\ UpTo(r, i) = low + n
  BY UpToIs
<1>2. Batch(r, i) = [k \in 1..n |-> low + k]
  BY DEF Batch
<1> HIDE DEF low, n
<1>3. /\ Batch(r, i) \in Seq(Nat) /\ Len(Batch(r, i)) = n /\ DOMAIN Batch(r, i) = 1..n
      /\ \A k \in 1..n : Batch(r, i)[k] = low + k
  BY <1>1, <1>2
<1>4. Rising(Batch(r, i))
  BY <1>1, <1>3 DEF Rising
<1>5. Between(Batch(r, i), low, low + n)
  BY <1>1, <1>3 DEF Between
<1>6. ASSUME NEW c \in Nat, low < c, c <= low + n PROVE In(c, Batch(r, i))
  <2>1. c - low \in 1..n /\ Batch(r, i)[c - low] = c
    BY <1>1, <1>3, <1>6
  <2> QED
    BY <2>1, <1>3 DEF In
<1>7. Batch(r, i) = <<>> => n = 0
  BY <1>1, <1>3
<1>8. UpTo(r, i - 1) = low
  BY DEF low
<1> QED
  BY <1>1, <1>3, <1>4, <1>5, <1>6, <1>7, <1>8

\* Two rising sequences, one after the other.
LEMMA ConcatRises ==
  ASSUME NEW s \in Seq(Nat), NEW t \in Seq(Nat)
  PROVE  /\ s \o t \in Seq(Nat)
         /\ \A c : In(c, s \o t) <=> In(c, s) \/ In(c, t)
         /\ Rising(s) /\ Rising(t) /\ (\A i \in DOMAIN s, j \in DOMAIN t : s[i] < t[j]) => Rising(s \o t)
         /\ \A k \in DOMAIN (s \o t) : In((s \o t)[k], s) \/ In((s \o t)[k], t)
<1>1. /\ s \o t \in Seq(Nat) /\ Len(s \o t) = Len(s) + Len(t)
      /\ \A k \in 1..(Len(s) + Len(t)) : (s \o t)[k] = IF k <= Len(s) THEN s[k] ELSE t[k - Len(s)]
  OBVIOUS
<1>2. /\ DOMAIN s = 1..Len(s) /\ DOMAIN t = 1..Len(t) /\ DOMAIN (s \o t) = 1..(Len(s) + Len(t))
      /\ Len(s) \in Nat /\ Len(t) \in Nat
  BY <1>1
<1>3. \A k \in DOMAIN s : k \in DOMAIN (s \o t) /\ (s \o t)[k] = s[k]
  BY <1>1, <1>2
<1>4. ASSUME NEW k \in DOMAIN t
      PROVE  Len(s) + k \in DOMAIN (s \o t) /\ (s \o t)[Len(s) + k] = t[k]
  <2>1. k \in 1..Len(t) /\ Len(s) + k \in 1..(Len(s) + Len(t)) /\ ~(Len(s) + k <= Len(s))
    BY <1>2
  <2>2. (Len(s) + k) - Len(s) = k
    BY <1>2, <2>1
  <2> QED
    BY <1>1, <1>2, <2>1, <2>2
<1>5. \A k \in DOMAIN (s \o t) : In((s \o t)[k], s) \/ In((s \o t)[k], t)
  <2> SUFFICES ASSUME NEW k \in DOMAIN (s \o t) PROVE In((s \o t)[k], s) \/ In((s \o t)[k], t)
    OBVIOUS
  <2>1. CASE k <= Len(s)
    BY <2>1, <1>1, <1>2 DEF In
  <2>2. CASE k > Len(s)
    <3>1. k - Len(s) \in DOMAIN t /\ (s \o t)[k] = t[k - Len(s)]
      BY <2>2, <1>1, <1>2
    <3> QED
      BY <3>1 DEF In
  <2> QED
    BY <2>1, <2>2, <1>2
<1>6. \A c : In(c, s \o t) <=> In(c, s) \/ In(c, t)
  BY <1>3, <1>4, <1>5, ZenonT(40) DEF In
<1>7. ASSUME Rising(s), Rising(t), \A i \in DOMAIN s, j \in DOMAIN t : s[i] < t[j]
      PROVE  Rising(s \o t)
  <2> SUFFICES ASSUME NEW i \in DOMAIN (s \o t), NEW j \in DOMAIN (s \o t), i < j
               PROVE  (s \o t)[i] < (s \o t)[j]
    BY DEF Rising
  <2>1. CASE j <= Len(s)
    BY <2>1, <1>1, <1>2, <1>7 DEF Rising
  <2>2. CASE i <= Len(s) /\ j > Len(s)
    BY <2>2, <1>1, <1>2, <1>7
  <2>3. CASE i > Len(s)
    <3>1. i - Len(s) \in DOMAIN t /\ j - Len(s) \in DOMAIN t /\ i - Len(s) < j - Len(s)
      BY <2>3, <1>2
    <3>2. (s \o t)[i] = t[i - Len(s)] /\ (s \o t)[j] = t[j - Len(s)]
      BY <2>3, <1>1, <1>2
    <3> QED
      BY <3>1, <3>2, <1>7 DEF Rising
  <2> QED
    BY <2>1, <2>2, <2>3, <1>2, SMTT(30)
<1> QED
  BY <1>1, <1>5, <1>6, <1>7

\* A rising sequence without its first element.
LEMMA TailRises ==
  ASSUME NEW s \in Seq(Nat), s # <<>>
  PROVE  /\ Head(s) \in Nat /\ Tail(s) \in Seq(Nat)
         /\ 1 \in DOMAIN s /\ Head(s) = s[1]
         /\ \A k \in DOMAIN Tail(s) : k + 1 \in DOMAIN s /\ k + 1 > 1 /\ Tail(s)[k] = s[k + 1]
         /\ \A c : In(c, s) <=> c = Head(s) \/ In(c, Tail(s))
         /\ Rising(s) => Rising(Tail(s))
<1>1. /\ Head(s) \in Nat /\ Tail(s) \in Seq(Nat) /\ 1 \in DOMAIN s /\ Head(s) = s[1]
      /\ DOMAIN s = 1..Len(s) /\ DOMAIN Tail(s) = 1..(Len(s) - 1) /\ Len(s) \in Nat \ {0}
  OBVIOUS
<1>2. \A k \in DOMAIN Tail(s) : k + 1 \in DOMAIN s /\ k + 1 > 1 /\ Tail(s)[k] = s[k + 1]
  BY <1>1
<1>3. \A c : In(c, s) <=> c = Head(s) \/ In(c, Tail(s))
  <2> SUFFICES ASSUME NEW c, NEW j \in DOMAIN s, s[j] = c, j # 1 PROVE In(c, Tail(s))
    BY <1>1, <1>2 DEF In
  <2>1. j - 1 \in DOMAIN Tail(s) /\ Tail(s)[j - 1] = c
    BY <1>1
  <2> QED
    BY <2>1 DEF In
<1>4. Rising(s) => Rising(Tail(s))
  BY <1>1, <1>2 DEF Rising
<1> QED
  BY <1>1, <1>2, <1>3, <1>4

\* A rising sequence and one more element.
LEMMA AppendRises ==
  ASSUME NEW s \in Seq(Nat), NEW e \in Nat
  PROVE  /\ Append(s, e) \in Seq(Nat) /\ Append(s, e) # <<>>
         /\ Append(s, e)[Len(Append(s, e))] = e
         /\ \A k \in DOMAIN Append(s, e) : Append(s, e)[k] = e \/ (k \in DOMAIN s /\ Append(s, e)[k] = s[k])
         /\ \A c : In(c, Append(s, e)) <=> c = e \/ In(c, s)
         /\ Rising(s) /\ (\A k \in DOMAIN s : s[k] < e) => Rising(Append(s, e))
<1>1. /\ Append(s, e) \in Seq(Nat) /\ Len(Append(s, e)) = Len(s) + 1
      /\ DOMAIN Append(s, e) = 1..(Len(s) + 1) /\ DOMAIN s = 1..Len(s) /\ Len(s) \in Nat
      /\ Append(s, e)[Len(s) + 1] = e
      /\ \A k \in 1..Len(s) : Append(s, e)[k] = s[k]
  OBVIOUS
<1>2. \A k \in DOMAIN Append(s, e) : Append(s, e)[k] = e \/ (k \in DOMAIN s /\ Append(s, e)[k] = s[k])
  BY <1>1
<1>3. \A c : In(c, Append(s, e)) <=> c = e \/ In(c, s)
  BY <1>1, <1>2, SMTT(30) DEF In
<1>4. Rising(s) /\ (\A k \in DOMAIN s : s[k] < e) => Rising(Append(s, e))
  BY <1>1 DEF Rising
<1>5. Append(s, e) # <<>>
  BY <1>1
<1> QED
  BY <1>1, <1>2, <1>3, <1>4, <1>5
----------------------------------------------------------------------------
\* Types.
LEMMA ExchangeTypeOK ==
  ASSUME TypeOK, NEW r \in Readers, Prepared(r) \/ Fetched(r)
  PROVE  /\ result' \in [Readers -> Results] /\ sent' \in [Readers -> Nat] /\ session' \in BOOLEAN
         /\ buffered' \in [Readers -> Seq(Nat)] /\ needsMore' \in [Readers -> BOOLEAN]
         /\ closed' \in [Readers -> BOOLEAN] /\ skipped' \in [Readers -> SUBSET Nat]
<1>1. ASSUME NEW i \in Nat \ {0}, Received(r, i)
      PROVE  /\ sent' \in [Readers -> Nat] /\ buffered' \in [Readers -> Seq(Nat)]
             /\ needsMore' \in [Readers -> BOOLEAN]
  <2>1. Batch(r, i) \in Seq(Nat) /\ buffered[r] \in Seq(Nat)
    BY BatchIs DEF TypeOK
  <2>2. buffered[r] \o Batch(r, i) \in Seq(Nat)
    BY <2>1
  <2>3. (i < Batches(r)) \in BOOLEAN
    BY UpToIs
  <2> QED
    BY <1>1, <2>2, <2>3 DEF Received, TypeOK
<1>2. sent[r] + 1 \in Nat \ {0} /\ sent[r] + 2 \in Nat \ {0}
  BY DEF TypeOK
<1>3. CASE Prepared(r)
  BY <1>1, <1>3 DEF Prepared, TypeOK
<1>4. CASE Fetched(r)
  <2>1. /\ sent' \in [Readers -> Nat] /\ buffered' \in [Readers -> Seq(Nat)]
        /\ needsMore' \in [Readers -> BOOLEAN]
    BY <1>1, <1>2, <1>4 DEF Fetched
  <2>2. skipped[r] \union {sent[r] + 1} \in SUBSET Nat
    BY <1>2 DEF TypeOK
  <2>3. skipped' \in [Readers -> SUBSET Nat]
    BY <1>4, <2>2 DEF Fetched, TypeOK
  <2> QED
    BY <1>4, <2>1, <2>3 DEF Fetched, TypeOK
<1> QED
  BY <1>3, <1>4

\* An exchange that fails keeps the types.
LEMMA FailTypeOK ==
  ASSUME TypeOK, NEW r \in Readers, ExchangeFails(r)
  PROVE  /\ result' \in [Readers -> Results] /\ sent' \in [Readers -> Nat] /\ session' \in BOOLEAN
         /\ needsMore' \in [Readers -> BOOLEAN] /\ skipped' \in [Readers -> SUBSET Nat]
<1>1. sent[r] + 1 \in Nat
  BY DEF TypeOK
<1>2. sent' \in [Readers -> Nat]
  BY <1>1 DEF ExchangeFails, TypeOK
<1> QED
  BY <1>2 DEF ExchangeFails, TypeOK

\* Every step keeps the types.
LEMMA StepTypeOK ==
  ASSUME TypeOK, [Next]_vars
  PROVE  TypeOK'
<1> DEFINE
  Served == /\ result' \in [Readers -> Results] /\ sent' \in [Readers -> Nat] /\ session' \in BOOLEAN
            /\ needsMore' \in [Readers -> BOOLEAN] /\ skipped' \in [Readers -> SUBSET Nat]
  Cached == buffered' \in [Readers -> Seq(Nat)] /\ closed' \in [Readers -> BOOLEAN]
  Rest == /\ refs' \in [Readers -> 0..MaxRefs] /\ pc' \in [Readers -> Pcs]
          /\ err' \in [Readers -> BOOLEAN] /\ current' \in [Readers -> Nat]
          /\ done' \in [Readers -> BOOLEAN] /\ canceled' \in [Readers -> BOOLEAN]
          /\ delivered' \in [Readers -> Seq(Nat)]
<1>0. ASSUME NEW r \in Readers
      PROVE  /\ Prepared(r) \/ Fetched(r) => Served /\ Cached
             /\ ExchangeFails(r) => Served
             /\ CloseCursor(r) \/ UNCHANGED <<buffered, closed>> => Cached
  <2>1. CloseCursor(r) \/ UNCHANGED <<buffered, closed>> => Cached
    <3>1. <<>> \in Seq(Nat)
      OBVIOUS
    <3> QED
      BY <3>1, ZenonT(40) DEF CloseCursor, TypeOK
  <2> QED
    BY <2>1, ExchangeTypeOK, FailTypeOK
<1>a. Served /\ Cached /\ Rest => TypeOK'
  BY DEF TypeOK
<1>b. UNCHANGED <<srv, needsMore, skipped>> => Served
  BY DEF TypeOK, srv
<1>c. ASSUME NEW r \in Readers, NEW to \in Pcs, Goto(r, to) PROVE pc' \in [Readers -> Pcs]
  BY <1>c DEF Goto, TypeOK
<1>1. ASSUME NEW r \in Readers, Prepare(r) PROVE TypeOK'
  <2>1. Rest
    <3>1. 1 \in 0..MaxRefs
      BY ResultsAssumption
    <3> QED
      BY <1>1, <3>1 DEF Prepare, Goto, TypeOK, Pcs
  <2>2. Served /\ Cached
    BY <1>1, <1>0 DEF Prepare
  <2> QED
    BY <1>a, <2>1, <2>2
<1>2. ASSUME NEW r \in Readers, NextRecord(r) \/ NextChunk(r) \/ TakeNone(r) \/ Cancel(r) PROVE TypeOK'
  <2>1. CASE NextRecord(r)
    BY <1>b, <2>1 DEF TypeOK, Pcs, NextRecord, Goto, cursor, app
  <2>2. CASE NextChunk(r)
    BY <1>b, <2>2 DEF TypeOK, Pcs, NextChunk, Goto, cursor, app
  <2>3. CASE TakeNone(r)
    BY <1>b, <2>3 DEF TypeOK, Pcs, TakeNone, Goto, cursor, app
  <2>4. CASE Cancel(r)
    BY <1>b, <2>4 DEF TypeOK, Cancel, cursor, reader, app
  <2> QED
    BY <1>2, <2>1, <2>2, <2>3, <2>4
<1>3. ASSUME NEW r \in Readers, FetchMore(r) PROVE TypeOK'
  <2>1. Rest
    BY <1>3 DEF FetchMore, Goto, TypeOK, Pcs
  <2>2. Served /\ Cached
    BY <1>3, <1>0 DEF FetchMore
  <2> QED
    BY <1>a, <2>1, <2>2
<1>4. ASSUME NEW r \in Readers, TakeChunk(r) PROVE TypeOK'
  <2>1. Head(buffered[r]) \in Nat /\ Tail(buffered[r]) \in Seq(Nat)
    BY <1>4 DEF TakeChunk, TypeOK
  <2>2. Append(delivered[r], Head(buffered[r])) \in Seq(Nat)
    BY <2>1 DEF TypeOK
  <2>3. Rest
    <3>1. pc' \in [Readers -> Pcs]
      BY <1>4, ZenonT(40) DEF TakeChunk, Goto, TypeOK, Pcs
    <3>2. current' \in [Readers -> Nat] /\ delivered' \in [Readers -> Seq(Nat)] /\ err' \in [Readers -> BOOLEAN]
      <4> DEFINE chunk == Head(buffered[r])
      <4>1. \/ UNCHANGED <<current, delivered, err>>
            \/ /\ current' = [current EXCEPT ![r] = chunk]
               /\ delivered' = [delivered EXCEPT ![r] = Append(@, chunk)]
               /\ UNCHANGED err
            \/ err' = [err EXCEPT ![r] = TRUE] /\ UNCHANGED <<current, delivered>>
        BY <1>4 DEF TakeChunk
      <4> QED
        BY <2>1, <2>2, <4>1, ZenonT(120) DEF TypeOK
    <3> QED
      BY <1>4, <3>1, <3>2 DEF TakeChunk, TypeOK
  <2>4. Served /\ Cached
    BY <1>4, <1>b, <2>1 DEF TakeChunk, TypeOK
  <2> QED
    BY <1>a, <2>3, <2>4
<1>5. ASSUME NEW r \in Readers, Retain(r) PROVE TypeOK'
  <2>1. refs[r] + 1 \in 0..MaxRefs
    BY <1>5, ResultsAssumption DEF Retain
  <2> QED
    BY <1>5, <2>1 DEF TypeOK, Retain, srv, cursor, app
<1>6. ASSUME NEW r \in Readers, Release(r) PROVE TypeOK'
  <2>1. refs[r] - 1 \in 0..MaxRefs
    BY <1>6, ResultsAssumption DEF Release, TypeOK
  <2>2. Rest
    <3>1. refs' \in [Readers -> 0..MaxRefs]
      BY <1>6, <2>1 DEF Release, TypeOK
    <3>2. pc' \in [Readers -> Pcs] /\ current' \in [Readers -> Nat]
      <4>1. CASE refs[r] = 1
        <5>1. Goto(r, "over") /\ current' = [current EXCEPT ![r] = 0]
          BY <1>6, <4>1 DEF Release
        <5>2. "over" \in Pcs
          BY DEF Pcs
        <5> QED
          BY <1>c, <5>1, <5>2 DEF TypeOK
      <4>2. CASE refs[r] # 1
        BY <1>6, <4>2 DEF Release, TypeOK
      <4> QED
        BY <4>1, <4>2
    <3> QED
      BY <1>6, <3>1, <3>2 DEF Release, TypeOK, app
  <2>3. Served /\ Cached
    BY <1>6, <1>0, <1>b DEF Release, app
  <2> QED
    BY <1>a, <2>2, <2>3
<1>7. ASSUME NEW r \in Readers, DrainFetch(r) PROVE TypeOK'
  <2>1. Rest
    BY <1>7 DEF DrainFetch, Goto, TypeOK, Pcs
  <2>2. Served /\ Cached
    BY <1>7, <1>0 DEF DrainFetch
  <2> QED
    BY <1>a, <2>1, <2>2
<1>8. ASSUME NEW r \in Readers, DrainDone(r) PROVE TypeOK'
  <2>1. Rest
    BY <1>8 DEF DrainDone, Goto, TypeOK, Pcs
  <2>2. Served /\ Cached
    BY <1>8, <1>0, <1>b DEF DrainDone
  <2> QED
    BY <1>a, <2>1, <2>2
<1>9. CASE SessionClose
  BY <1>9 DEF SessionClose, TypeOK, cursor, reader, app
<1>10. CASE UNCHANGED vars
  BY <1>10 DEF vars, TypeOK, srv, cursor, reader, app
<1> QED
  BY <1>1, <1>2, <1>3, <1>4, <1>5, <1>6, <1>7, <1>8, <1>9, <1>10 DEF Next, Step
----------------------------------------------------------------------------
\* What the steps have in common: the results stay as they are.
LEMMA SameResult ==
  ASSUME NEW r \in Readers, result' = result
  PROVE  /\ Batches(r)' = Batches(r) /\ Total(r)' = Total(r)
         /\ \A i : UpTo(r, i)' = UpTo(r, i)
<1>1. Batches(r)' = Batches(r)
  BY DEF Batches
<1>2. Total(r)' = Total(r)
  BY <1>1 DEF Total
<1> QED
  BY <1>1, <1>2 DEF UpTo

\* A skipped batch is due no more, and nothing becomes due.
LEMMA DueShrinks ==
  ASSUME NEW r \in Readers, result' = result, skipped[r] \subseteq skipped'[r]
  PROVE  \A c : IsDue(r, c)' => IsDue(r, c)
<1>1. ASSUME NEW c, IsDue(r, c)' PROVE IsDue(r, c)
  <2>1. c \in 1..Total(r) /\ c \notin result[r].hollow
    BY <1>1, SameResult DEF IsDue
  <2>2. ASSUME NEW i \in skipped[r] \ {0} PROVE c <= UpTo(r, i - 1) \/ c > UpTo(r, i)
    BY <1>1, SameResult DEF IsDue
  <2> QED
    BY <2>1, <2>2 DEF IsDue
<1> QED
  BY <1>1

\* A step that gives the application nothing and takes in no batch.
LEMMA DataStays ==
  ASSUME TypeOK, NEW r \in Readers, OrderInv(r), NoGap(r),
         result' = result, delivered'[r] = delivered[r], skipped'[r] = skipped[r],
         sent'[r] \in {sent[r], sent[r] + 1},
         buffered'[r] \in {buffered[r], <<>>},
         refs'[r] > 0 /\ buffered'[r] # <<>> => refs[r] > 0 /\ sent'[r] = sent[r]
  PROVE  /\ OrderInv(r)' /\ NoGap(r)'
         /\ AllHeld(r) /\ sent'[r] = sent[r] /\ buffered'[r] = buffered[r] => AllHeld(r)'
         /\ AllGiven(r) => AllGiven(r)'
         /\ GivenSoFar(r) /\ sent'[r] = sent[r] /\ needsMore'[r] = needsMore[r] => GivenSoFar(r)'
<1>1. \A c : IsDue(r, c)' => IsDue(r, c)
  BY DueShrinks
<1>2. Batches(r)' = Batches(r) /\ \A i : UpTo(r, i)' = UpTo(r, i)
  BY SameResult
<1>3. /\ UpTo(r, sent[r]) \in Nat /\ UpTo(r, sent'[r]) \in Nat
      /\ UpTo(r, sent[r]) <= UpTo(r, sent'[r])
  <2>1. sent[r] \in Nat
    BY DEF TypeOK
  <2>2. UpTo(r, sent[r]) \in Nat /\ UpTo(r, sent[r] + 1) \in Nat /\ UpTo(r, sent[r]) <= UpTo(r, sent[r] + 1)
    BY <2>1, UpToRises
  <2>3. CASE sent'[r] = sent[r]
    BY <2>2, <2>3
  <2>4. CASE sent'[r] = sent[r] + 1
    BY <2>2, <2>4
  <2> QED
    BY <2>3, <2>4
<1>4. /\ delivered[r] \in Seq(Nat) /\ buffered[r] \in Seq(Nat)
      /\ \A i \in DOMAIN delivered[r] : delivered[r][i] \in Nat
      /\ \A i \in DOMAIN buffered[r] : buffered[r][i] \in Nat
  BY DEF TypeOK
<1>5. DOMAIN <<>> = {}
  OBVIOUS
<1>6. Between(delivered[r], 0, UpTo(r, sent'[r]))
  BY <1>3, <1>4 DEF OrderInv, Between
<1>7. Between(buffered'[r], 0, UpTo(r, sent'[r]))
  <2>1. CASE buffered'[r] = <<>>
    BY <1>5, <2>1 DEF Between
  <2>2. CASE buffered'[r] = buffered[r]
    BY <1>3, <1>4, <2>2 DEF OrderInv, Between
  <2> QED
    BY <2>1, <2>2
<1>8. /\ Rising(delivered[r]) /\ Rising(buffered'[r])
      /\ \A i \in DOMAIN delivered[r], k \in DOMAIN buffered'[r] : delivered[r][i] < buffered'[r][k]
  BY <1>5 DEF OrderInv, Rising
<1>9. ASSUME refs'[r] > 0, buffered'[r] # <<>>
      PROVE  /\ sent'[r] \in 1..(Batches(r) + 1)
             /\ Between(buffered'[r], UpTo(r, sent'[r] - 1), UpTo(r, sent'[r]))
  BY <1>9 DEF OrderInv
<1>10. OrderInv(r)'
  BY <1>2, <1>6, <1>7, <1>8, <1>9 DEF OrderInv, Rising, Between
<1>11. NoGap(r)'
  BY <1>1 DEF NoGap, In
<1>12. ASSUME AllHeld(r), sent'[r] = sent[r], buffered'[r] = buffered[r] PROVE AllHeld(r)'
  BY <1>1, <1>2, <1>12 DEF AllHeld, In
<1>13. AllGiven(r) => AllGiven(r)'
  BY <1>1 DEF AllGiven, In
<1>14. ASSUME GivenSoFar(r), sent'[r] = sent[r], needsMore'[r] = needsMore[r] PROVE GivenSoFar(r)'
  BY <1>1, <1>2, <1>14 DEF GivenSoFar, In
<1> QED
  BY <1>10, <1>11, <1>12, <1>13, <1>14

\* Nothing of reader q moves.
Kept(q) ==
  /\ result' = result
  /\ sent'[q] = sent[q] /\ skipped'[q] = skipped[q] /\ delivered'[q] = delivered[q]
  /\ buffered'[q] = buffered[q] /\ needsMore'[q] = needsMore[q]
  /\ pc'[q] = pc[q] /\ refs'[q] = refs[q] /\ current'[q] = current[q]
  /\ done'[q] = done[q] /\ err'[q] = err[q]

\* A reader that does not move keeps its invariant.
LEMMA KeptInv ==
  ASSUME TypeOK, NEW q \in Readers, ReaderInv(q), Kept(q)
  PROVE  ReaderInv(q)'
<1>1. CallInv(q)'
  BY DEF ReaderInv, CallInv, Kept
<1>2. PlaceInv(q)'
  BY SameResult DEF ReaderInv, PlaceInv, Kept
<1>3. OrderInv(q)' /\ CompleteInv(q)'
  <2>1. OrderInv(q) /\ NoGap(q)
    BY DEF ReaderInv, CompleteInv
  <2>2. /\ result' = result /\ delivered'[q] = delivered[q] /\ skipped'[q] = skipped[q]
        /\ sent'[q] = sent[q] /\ buffered'[q] = buffered[q] /\ refs'[q] = refs[q]
        /\ needsMore'[q] = needsMore[q]
    BY DEF Kept
  <2>3. /\ OrderInv(q)' /\ NoGap(q)'
        /\ AllHeld(q) => AllHeld(q)'
        /\ AllGiven(q) => AllGiven(q)'
        /\ GivenSoFar(q) => GivenSoFar(q)'
    BY <2>1, <2>2, DataStays
  <2> QED
    BY <2>3 DEF ReaderInv, CompleteInv, Kept
<1> QED
  BY <1>1, <1>2, <1>3 DEF ReaderInv

\* A step that takes in batch i, the next one or the one after it.
LEMMA ReceivedInv ==
  ASSUME TypeOK, NEW r \in Readers, OrderInv(r), NoGap(r), AllHeld(r),
         NEW i \in {sent[r] + 1, sent[r] + 2}, Received(r, i),
         result' = result, delivered'[r] = delivered[r],
         skipped[r] \subseteq skipped'[r],
         i = sent[r] + 2 => sent[r] + 1 \in skipped'[r],
         i <= Batches(r) + 1,
         buffered[r] = <<>> \/ refs'[r] = 0
  PROVE  /\ OrderInv(r)' /\ NoGap(r)' /\ AllHeld(r)'
         /\ sent'[r] = i /\ sent'[r] \in 1..(Batches(r)' + 1)
         /\ needsMore'[r] <=> sent'[r] < Batches(r)'
         /\ buffered'[r] = <<>> => UpTo(r, sent[r])' = UpTo(r, sent[r] - 1)'
<1> DEFINE b == buffered[r]  n == Batch(r, i)  s == sent[r]
           low == UpTo(r, i - 1)  high == UpTo(r, i)  was == UpTo(r, s)
<1>1. \A c : IsDue(r, c)' => IsDue(r, c)
  BY DueShrinks
<1>2. Batches(r)' = Batches(r) /\ \A k : UpTo(r, k)' = UpTo(r, k)
  BY SameResult
<1>3. /\ s \in Nat /\ i \in Nat \ {0} /\ i - 1 \in Nat /\ (i - 1 = s \/ i - 1 = s + 1)
      /\ b \in Seq(Nat) /\ delivered[r] \in Seq(Nat) /\ Batches(r) \in Nat \ {0}
  <2>1. Batches(r) \in Nat \ {0}
    BY UpToIs
  <2>2. s \in Nat /\ b \in Seq(Nat) /\ delivered[r] \in Seq(Nat)
    BY DEF TypeOK
  <2>3. i = s + 1 \/ i = s + 2
    OBVIOUS
  <2> HIDE DEF s
  <2> QED
    BY <2>1, <2>2, <2>3
<1>4. was \in Nat /\ low \in Nat /\ high \in Nat /\ was <= low /\ low <= high
  <2>1. was \in Nat /\ UpTo(r, s + 1) \in Nat /\ was <= UpTo(r, s + 1)
    BY <1>3, UpToRises
  <2>2. low \in Nat /\ UpTo(r, (i - 1) + 1) \in Nat /\ low <= UpTo(r, (i - 1) + 1)
    BY <1>3, UpToRises
  <2>3. (i - 1) + 1 = i
    BY <1>3
  <2>4. low = was \/ low = UpTo(r, s + 1)
    BY <1>3
  <2> QED
    BY <2>1, <2>2, <2>3, <2>4
<1>5. /\ n \in Seq(Nat) /\ Rising(n) /\ Between(n, low, high)
      /\ \A c \in Nat : low < c /\ c <= high => In(c, n)
      /\ n = <<>> => high = low
  BY <1>3, BatchIs
<1>6. /\ Rising(b) /\ Rising(delivered[r]) /\ Between(b, 0, was) /\ Between(delivered[r], 0, was)
      /\ \A j \in DOMAIN delivered[r], k \in DOMAIN b : delivered[r][j] < b[k]
  BY DEF OrderInv
<1>7. sent'[r] = i /\ buffered'[r] = b \o n /\ needsMore'[r] = (i < Batches(r))
  BY DEF Received, TypeOK
<1>8. ASSUME NEW c \in Nat, IsDue(r, c)' PROVE c <= was \/ c > low
  <2>a. CASE i - 1 = s
    <3>1. low = was
      BY <2>a
    <3> HIDE DEF low, was
    <3> QED
      BY <1>4, <3>1
  <2> SUFFICES ASSUME i - 1 = s + 1 PROVE c <= was \/ c > low
    BY <1>3, <2>a
  <2>1. (s + 1) - 1 = s /\ i - 1 = s + 1 /\ s + 1 # 0 /\ i = s + 2
    <3>1. s \in Nat /\ i \in Nat
      BY <1>3
    <3> HIDE DEF s
    <3> QED
      BY <3>1
  <2>2. PICK j \in skipped'[r] \ {0} : j = s + 1 /\ j = i - 1 /\ j - 1 = s
    BY <2>1
  <2>3. c <= UpTo(r, j - 1)' \/ c > UpTo(r, j)'
    BY <1>8 DEF IsDue
  <2> QED
    BY <1>2, <2>2, <2>3
<1> HIDE DEF b, n, s, low, high, was
<1>9. /\ b \o n \in Seq(Nat)
      /\ \A c : In(c, b \o n) <=> In(c, b) \/ In(c, n)
      /\ \A k \in DOMAIN (b \o n) : In((b \o n)[k], b) \/ In((b \o n)[k], n)
      /\ Rising(b) /\ Rising(n) /\ (\A j \in DOMAIN b, k \in DOMAIN n : b[j] < n[k]) => Rising(b \o n)
  BY <1>3, <1>5, ConcatRises
<1>10. \A c : In(c, b) => c \in Nat /\ 0 < c /\ c <= was /\ \A j \in DOMAIN delivered[r] : delivered[r][j] < c
  <2>1. \A k \in DOMAIN b : b[k] \in Nat
    BY <1>3
  <2> QED
    BY <1>6, <2>1 DEF In, Between
<1>11. \A c : In(c, n) => c \in Nat /\ low < c /\ c <= high
  <2>1. \A k \in DOMAIN n : n[k] \in Nat
    BY <1>5
  <2> QED
    BY <1>5, <2>1 DEF In, Between
<1>12. \A j \in DOMAIN delivered[r] : delivered[r][j] \in Nat /\ 0 < delivered[r][j] /\ delivered[r][j] <= was
  BY <1>3, <1>6 DEF Between
<1>13. Rising(b \o n)
  <2>1. \A j \in DOMAIN b : b[j] \in Nat /\ b[j] <= was
    BY <1>3, <1>6 DEF Between
  <2>2. \A k \in DOMAIN n : n[k] \in Nat /\ low < n[k]
    BY <1>5 DEF Between
  <2> QED
    BY <1>4, <1>5, <1>6, <1>9, <2>1, <2>2
<1>14. ASSUME NEW k \in DOMAIN (b \o n)
       PROVE  /\ (b \o n)[k] \in Nat /\ 0 < (b \o n)[k] /\ (b \o n)[k] <= high
              /\ \A j \in DOMAIN delivered[r] : delivered[r][j] < (b \o n)[k]
  <2>1. CASE In((b \o n)[k], b)
    BY <1>4, <1>10, <2>1
  <2>2. CASE In((b \o n)[k], n)
    BY <1>4, <1>11, <1>12, <2>2, SMTT(30)
  <2> QED
    BY <1>9, <2>1, <2>2
<1>15. Between(delivered[r], 0, high) /\ Between(b \o n, 0, high)
  BY <1>4, <1>12, <1>14 DEF Between
<1>16. ASSUME refs'[r] > 0 PROVE Between(b \o n, low, high)
  <2>1. b = <<>>
    BY <1>16 DEF b
  <2>2. b \o n = n
    BY <1>5, <2>1
  <2> QED
    BY <1>5, <2>2
<1>17. UpTo(r, sent[r])' = high /\ UpTo(r, sent[r] - 1)' = low
  BY <1>2, <1>7 DEF low, high
<1>18. sent'[r] \in 1..(Batches(r) + 1)
  BY <1>3, <1>7
<1>19. OrderInv(r)'
  BY <1>2, <1>6, <1>7, <1>13, <1>14, <1>15, <1>16, <1>17, <1>18 DEF OrderInv, Rising, Between
<1>20. NoGap(r)'
  BY <1>1 DEF NoGap, In
<1>21. AllHeld(r)'
  <2> SUFFICES ASSUME NEW c \in Nat, IsDue(r, c)', c <= high
               PROVE  In(c, delivered[r]) \/ In(c, b \o n)
    BY <1>7, <1>17 DEF AllHeld, In
  <2>1. CASE c <= was
    BY <1>1, <1>9, <2>1 DEF AllHeld, was, s, b
  <2>2. CASE c > low
    BY <1>5, <1>9, <2>2
  <2> QED
    BY <1>8, <2>1, <2>2
<1>22. b \o n = <<>> => n = <<>>
  <2>1. ASSUME n # <<>> PROVE Len(b \o n) # 0
    BY <1>3, <1>5, <2>1
  <2> QED
    BY <2>1
<1> QED
  BY <1>2, <1>5, <1>7, <1>17, <1>18, <1>19, <1>20, <1>21, <1>22
----------------------------------------------------------------------------
\* The actions, each on the reader it is about.

\* An exchange of r that was served: FetchMore and DrainFetch.
LEMMA FetchedInv ==
  ASSUME TypeOK, NEW r \in Readers, ReaderInv(r), Fetched(r),
         pc[r] \in {"fetch", "drain"}, needsMore[r], UNCHANGED <<refs, delivered>>
  PROVE  /\ result' = result
         /\ OrderInv(r)' /\ NoGap(r)' /\ AllHeld(r)'
         /\ sent'[r] \in 1..(Batches(r)' + 1)
         /\ needsMore'[r] <=> sent'[r] < Batches(r)'
         /\ buffered'[r] = <<>> => UpTo(r, sent[r])' = UpTo(r, sent[r] - 1)'
<1>1. sent[r] \in Nat /\ Batches(r) \in Nat /\ refs[r] \in Nat
  <2>1. Batches(r) \in Nat
    BY UpToIs
  <2> QED
    BY <2>1, ResultsAssumption DEF TypeOK
<1>2. /\ OrderInv(r) /\ NoGap(r) /\ AllHeld(r) /\ sent[r] < Batches(r)
      /\ buffered[r] = <<>> \/ refs[r] = 0
  BY <1>1 DEF ReaderInv, CompleteInv, PlaceInv, CallInv, Open
<1>3. PICK i \in {sent[r] + 1, sent[r] + 2} :
        /\ Received(r, i) /\ skipped[r] \subseteq skipped'[r]
        /\ i = sent[r] + 2 => sent[r] + 1 \in skipped'[r]
  <2>1. CASE Received(r, sent[r] + 1) /\ UNCHANGED skipped
    BY <1>1, <2>1
  <2>2. CASE /\ Received(r, sent[r] + 2)
             /\ skipped' = [skipped EXCEPT ![r] = @ \union {sent[r] + 1}]
    <3>1. skipped'[r] = skipped[r] \union {sent[r] + 1}
      BY <2>2 DEF TypeOK
    <3> QED
      BY <2>2, <3>1
  <2> QED
    BY <2>1, <2>2 DEF Fetched
<1>4. i <= Batches(r) + 1
  BY <1>1, <1>2
<1>5. result' = result /\ delivered'[r] = delivered[r] /\ refs'[r] = refs[r]
  BY DEF Fetched
<1> QED
  BY <1>2, <1>3, <1>4, <1>5, ReceivedInv

\* One lemma per action.
LEMMA PrepareInv ==
  ASSUME TypeOK, NEW r \in Readers, ReaderInv(r), Prepare(r)
  PROVE  ReaderInv(r)'
<1>1. /\ pc[r] = "new" /\ refs[r] = 0 /\ current[r] = 0 /\ ~err[r] /\ ~done[r]
      /\ delivered[r] = <<>> /\ buffered[r] = <<>> /\ sent[r] = 0
  <2>1. refs[r] \in Nat
    BY ResultsAssumption DEF TypeOK
  <2> QED
    BY <2>1 DEF Prepare, ReaderInv, CallInv
<1>2. /\ result' = result /\ delivered'[r] = delivered[r] /\ skipped'[r] = skipped[r]
      /\ current'[r] = current[r] /\ done'[r] = done[r]
  BY DEF Prepare, Prepared, ExchangeFails
<1>3. OrderInv(r) /\ NoGap(r)
  BY DEF ReaderInv, CompleteInv
<1>4. CASE Prepared(r) /\ UNCHANGED err /\ \/ Goto(r, "ready") /\ refs' = [refs EXCEPT ![r] = 1]
                                           \/ Goto(r, "drain") /\ UNCHANGED refs
  <2>1. AllHeld(r)
    <3>1. UpTo(r, sent[r]) = 0
      BY <1>1 DEF UpTo
    <3> QED
      BY <3>1 DEF AllHeld, IsDue
  <2>2. Received(r, 1) /\ 1 \in {sent[r] + 1, sent[r] + 2} /\ 1 <= Batches(r) + 1 /\ 1 # sent[r] + 2
    BY <1>1, <1>4, UpToIs DEF Prepared
  <2>3. /\ OrderInv(r)' /\ NoGap(r)' /\ AllHeld(r)'
        /\ sent'[r] \in 1..(Batches(r)' + 1)
        /\ needsMore'[r] <=> sent'[r] < Batches(r)'
    BY <1>1, <1>2, <1>3, <2>1, <2>2, ReceivedInv
  <2>4. \/ pc'[r] = "ready" /\ refs'[r] = 1
        \/ pc'[r] = "drain" /\ refs'[r] = 0
    BY <1>1, <1>4 DEF Goto, TypeOK
  <2>5. err'[r] = FALSE
    BY <1>1, <1>4
  <2>6. CallInv(r)'
    BY <1>1, <1>2, <2>4, <2>5 DEF CallInv
  <2>7. PlaceInv(r)'
    BY <2>3, <2>4 DEF PlaceInv
  <2> QED
    BY <1>1, <1>2, <2>3, <2>6, <2>7 DEF ReaderInv, CompleteInv
<1>5. CASE ExchangeFails(r) /\ Goto(r, "over") /\ err' = [err EXCEPT ![r] = TRUE]
           /\ UNCHANGED <<buffered, closed, refs>>
  <2>1. sent'[r] \in {sent[r], sent[r] + 1}
    BY <1>5 DEF ExchangeFails, TypeOK
  <2>2. buffered'[r] = buffered[r] /\ refs'[r] = refs[r] /\ pc'[r] = "over" /\ err'[r]
    BY <1>5 DEF Goto, TypeOK
  <2>3. OrderInv(r)' /\ NoGap(r)'
    BY <1>1, <1>2, <1>3, <2>1, <2>2, DataStays
  <2>4. CallInv(r)' /\ PlaceInv(r)'
    BY <1>1, <1>2, <2>2 DEF CallInv, PlaceInv, Open
  <2> QED
    BY <1>1, <1>2, <2>2, <2>3, <2>4 DEF ReaderInv, CompleteInv, Open
<1> QED
  BY <1>4, <1>5 DEF Prepare

\* NextRecord, NextChunk, TakeNone, Retain, Release: no exchange.
LEMMA InsideInv ==
  ASSUME TypeOK, NEW r \in Readers, ReaderInv(r),
         UNCHANGED <<result, sent, needsMore, err, delivered, skipped>>,
         buffered'[r] \in {buffered[r], <<>>},
         refs'[r] > 0 => refs[r] > 0
  PROVE  /\ OrderInv(r)' /\ NoGap(r)'
         /\ AllHeld(r) /\ buffered'[r] = buffered[r] => AllHeld(r)'
         /\ AllGiven(r) => AllGiven(r)'
         /\ GivenSoFar(r) => GivenSoFar(r)'
<1>1. OrderInv(r) /\ NoGap(r)
  BY DEF ReaderInv, CompleteInv
<1> QED
  BY <1>1, DataStays

LEMMA NextRecordInv ==
  ASSUME TypeOK, NEW r \in Readers, ReaderInv(r), NextRecord(r)
  PROVE  ReaderInv(r)'
<1>1. /\ UNCHANGED <<result, sent, needsMore, err, delivered, skipped, done, refs, buffered>>
      /\ pc[r] = "ready" /\ pc'[r] = "next" /\ ~err[r] /\ ~done[r] /\ refs[r] > 0 /\ current'[r] = 0
  BY DEF NextRecord, Goto, TypeOK, srv, cursor, app
<1>2. /\ OrderInv(r)' /\ NoGap(r)'
      /\ AllHeld(r) => AllHeld(r)'
  BY <1>1, InsideInv
<1>3. CallInv(r)'
  BY <1>1 DEF CallInv
<1>4. PlaceInv(r)'
  BY <1>1, SameResult DEF PlaceInv, ReaderInv, Open
<1> QED
  BY <1>1, <1>2, <1>3, <1>4 DEF ReaderInv, CompleteInv, Open

LEMMA NextChunkInv ==
  ASSUME TypeOK, NEW r \in Readers, ReaderInv(r), NextChunk(r)
  PROVE  ReaderInv(r)'
<1>1. /\ UNCHANGED <<result, sent, needsMore, err, delivered, skipped, done, refs, buffered, current>>
      /\ pc[r] = "next"
      /\ \/ pc'[r] = "fetch" /\ buffered[r] = <<>> /\ needsMore[r]
         \/ pc'[r] = "take" /\ ~(buffered[r] = <<>> /\ needsMore[r])
  BY DEF NextChunk, Goto, TypeOK, srv, cursor, app
<1>2. /\ OrderInv(r)' /\ NoGap(r)'
      /\ AllHeld(r) => AllHeld(r)'
  BY <1>1, InsideInv
<1>3. CallInv(r)'
  BY <1>1 DEF CallInv, ReaderInv
<1>4. PlaceInv(r)'
  BY <1>1, SameResult DEF PlaceInv, ReaderInv, Open
<1> QED
  BY <1>1, <1>2, <1>3, <1>4 DEF ReaderInv, CallInv, CompleteInv, Open

LEMMA FetchMoreInv ==
  ASSUME TypeOK, NEW r \in Readers, ReaderInv(r), FetchMore(r)
  PROVE  ReaderInv(r)'
<1>1. /\ pc[r] = "fetch" /\ ~err[r] /\ ~done[r] /\ refs[r] > 0 /\ current[r] = 0
      /\ buffered[r] = <<>> /\ needsMore[r]
  BY DEF FetchMore, ReaderInv, CallInv, PlaceInv
<1>2. UNCHANGED <<refs, current, done, delivered>>
  BY DEF FetchMore
<1>3. CASE Fetched(r) /\ Goto(r, "take") /\ UNCHANGED err
  <2>1. pc'[r] = "take" /\ ~err'[r]
    BY <1>1, <1>3 DEF Goto, TypeOK
  <2>2. /\ OrderInv(r)' /\ NoGap(r)' /\ AllHeld(r)'
        /\ sent'[r] \in 1..(Batches(r)' + 1)
        /\ needsMore'[r] <=> sent'[r] < Batches(r)'
        /\ buffered'[r] = <<>> => UpTo(r, sent[r])' = UpTo(r, sent[r] - 1)'
    BY <1>1, <1>2, <1>3, FetchedInv
  <2>3. CallInv(r)' /\ PlaceInv(r)'
    BY <1>1, <1>2, <2>1, <2>2 DEF CallInv, PlaceInv
  <2> QED
    BY <1>1, <1>2, <2>2, <2>3 DEF ReaderInv, CompleteInv
<1>4. CASE ExchangeFails(r) /\ Goto(r, "ready") /\ err' = [err EXCEPT ![r] = TRUE]
           /\ UNCHANGED <<buffered, closed>>
  <2>1. pc'[r] = "ready" /\ err'[r]
    BY <1>4 DEF Goto, TypeOK
  <2>2. /\ sent'[r] \in {sent[r], sent[r] + 1} /\ result' = result /\ skipped' = skipped
        /\ OrderInv(r) /\ NoGap(r)
    BY <1>4 DEF ExchangeFails, TypeOK, ReaderInv, CompleteInv
  <2>3. OrderInv(r)' /\ NoGap(r)'
    BY <1>1, <1>2, <1>4, <2>2, DataStays
  <2>4. CallInv(r)' /\ PlaceInv(r)'
    BY <1>1, <1>2, <2>1 DEF CallInv, PlaceInv
  <2> QED
    BY <2>1, <2>3, <2>4 DEF ReaderInv, CompleteInv
<1> QED
  BY <1>3, <1>4 DEF FetchMore

LEMMA TakeNoneInv ==
  ASSUME TypeOK, NEW r \in Readers, ReaderInv(r), TakeNone(r)
  PROVE  ReaderInv(r)'
<1>1. /\ UNCHANGED <<result, sent, needsMore, err, delivered, skipped, refs, buffered, current>>
      /\ pc[r] = "take" /\ pc'[r] = "ready" /\ done'[r] /\ buffered[r] = <<>>
  BY DEF TakeNone, Goto, TypeOK, srv, cursor, app
<1>2. refs[r] > 0 /\ ~err[r] /\ ~done[r] /\ current[r] = 0 /\ AllHeld(r)
  BY <1>1 DEF ReaderInv, CallInv, CompleteInv, Open
<1>3. /\ OrderInv(r)' /\ NoGap(r)'
      /\ AllHeld(r) => AllHeld(r)'
      /\ AllGiven(r) => AllGiven(r)'
      /\ GivenSoFar(r) => GivenSoFar(r)'
  BY <1>1, InsideInv
<1>4. CallInv(r)'
  BY <1>1, <1>2 DEF CallInv
<1>5. PlaceInv(r)'
  BY <1>1, <1>2, SameResult DEF PlaceInv, ReaderInv, Open
<1>6. sent[r] \in 1..(Batches(r) + 1) /\ (needsMore[r] <=> sent[r] < Batches(r))
  BY <1>1, <1>2 DEF ReaderInv, PlaceInv, Open
<1>7. \A c \in Nat : IsDue(r, c) /\ c <= UpTo(r, sent[r]) => In(c, delivered[r])
  <2>1. \A c : ~In(c, buffered[r])
    BY <1>1 DEF In
  <2> QED
    BY <1>2, <2>1 DEF AllHeld
<1>8. AllGiven(r) \/ GivenSoFar(r)
  <2>1. CASE needsMore[r]
    BY <1>1, <1>6, <1>7, <2>1 DEF GivenSoFar, ReaderInv, PlaceInv
  <2>2. CASE ~needsMore[r]
    <3>1. UpTo(r, sent[r]) = Total(r) /\ Total(r) \in Nat
      <4>1. sent[r] \in Nat /\ Batches(r) \in Nat
        BY UpToIs DEF TypeOK
      <4> QED
        BY <1>6, <2>2, <4>1, UpToIs
    <3>2. \A c \in Nat : IsDue(r, c) => c <= Total(r)
      BY <3>1 DEF IsDue
    <3> QED
      BY <1>7, <3>1, <3>2 DEF AllGiven
  <2> QED
    BY <2>1, <2>2
<1> QED
  BY <1>1, <1>2, <1>3, <1>4, <1>5, <1>8 DEF ReaderInv, CompleteInv

LEMMA TakeChunkInv ==
  ASSUME TypeOK, NEW r \in Readers, ReaderInv(r), TakeChunk(r)
  PROVE  ReaderInv(r)'
<1> DEFINE b == buffered[r]  d == delivered[r]  chunk == Head(buffered[r])  rest == Tail(buffered[r])
           was == UpTo(r, sent[r])
<1>1. /\ UNCHANGED <<result, sent, needsMore, done, skipped, refs>>
      /\ pc[r] = "take" /\ b # <<>> /\ buffered'[r] = rest
  BY DEF TakeChunk, TypeOK, srv
<1>2. refs[r] > 0 /\ ~err[r] /\ ~done[r] /\ current[r] = 0 /\ AllHeld(r) /\ NoGap(r) /\ OrderInv(r)
  BY <1>1 DEF ReaderInv, CallInv, CompleteInv, Open
<1>3. /\ sent[r] \in 1..(Batches(r) + 1) /\ (needsMore[r] <=> sent[r] < Batches(r))
  BY <1>1, <1>2 DEF ReaderInv, PlaceInv, Open
<1>4. \/ /\ chunk \in result[r].hollow
         /\ pc'[r] = "next" /\ current'[r] = current[r] /\ delivered'[r] = d /\ err'[r] = err[r]
      \/ /\ pc'[r] = "ready" /\ current'[r] = chunk /\ delivered'[r] = Append(d, chunk) /\ err'[r] = err[r]
      \/ /\ pc'[r] = "ready" /\ err'[r] /\ current'[r] = current[r] /\ delivered'[r] = d
  BY DEF TakeChunk, Goto, TypeOK
<1>5. Batches(r)' = Batches(r) /\ \A k : UpTo(r, k)' = UpTo(r, k)
  BY <1>1, SameResult
<1>6. \A c : IsDue(r, c)' => IsDue(r, c)
  BY <1>1, DueShrinks
<1>7. d \in Seq(Nat) /\ b \in Seq(Nat)
  BY DEF TypeOK
<1>8. /\ Rising(d) /\ Rising(b) /\ \A i \in DOMAIN d, k \in DOMAIN b : d[i] < b[k]
      /\ Between(d, 0, was) /\ Between(b, 0, was) /\ Between(b, UpTo(r, sent[r] - 1), was)
  BY <1>1, <1>2 DEF OrderInv
<1>9. /\ chunk \in Nat /\ rest \in Seq(Nat) /\ 1 \in DOMAIN b /\ chunk = b[1] /\ Rising(rest)
      /\ \A k \in DOMAIN rest : k + 1 \in DOMAIN b /\ k + 1 > 1 /\ rest[k] = b[k + 1]
      /\ \A c : In(c, b) <=> c = chunk \/ In(c, rest)
  BY <1>1, <1>7, <1>8, TailRises
<1>10. /\ \A k \in DOMAIN rest : chunk < rest[k] /\ \A i \in DOMAIN d : d[i] < rest[k]
       /\ \A i \in DOMAIN d : d[i] < chunk
  BY <1>8, <1>9 DEF Rising
<1>11. 0 < chunk /\ chunk <= was /\ Between(rest, 0, was) /\ Between(rest, UpTo(r, sent[r] - 1), was)
  BY <1>8, <1>9 DEF Between
<1>12. CallInv(r)'
  <2>1. CASE delivered'[r] = Append(d, chunk) /\ current'[r] = chunk /\ pc'[r] = "ready" /\ err'[r] = err[r]
    <3>1. delivered'[r] # <<>> /\ delivered'[r][Len(delivered'[r])] = chunk
      <4>1. d \in Seq(Nat) /\ chunk \in Nat
        BY <1>7, <1>9
      <4> HIDE DEF d, chunk
      <4>2. Append(d, chunk) # <<>> /\ Append(d, chunk)[Len(Append(d, chunk))] = chunk
        BY <4>1, AppendRises
      <4> QED
        BY <2>1, <4>2
    <3> QED
      BY <1>1, <1>2, <2>1, <3>1 DEF CallInv
  <2>2. CASE current'[r] = current[r]
    BY <1>1, <1>2, <1>4, <2>2 DEF CallInv
  <2> QED
    BY <1>4, <2>1, <2>2
<1>13. PlaceInv(r)'
  BY <1>1, <1>3, <1>4, <1>5 DEF PlaceInv
<1> HIDE DEF b, d, chunk, rest, was
<1>14. /\ delivered'[r] \in {d, Append(d, chunk)}
       /\ delivered'[r] \in Seq(Nat) /\ Rising(delivered'[r]) /\ Between(delivered'[r], 0, was)
       /\ \A i \in DOMAIN delivered'[r], k \in DOMAIN rest : delivered'[r][i] < rest[k]
  <2>1. CASE delivered'[r] = d
    BY <1>7, <1>8, <1>10, <2>1
  <2>2. CASE delivered'[r] = Append(d, chunk)
    <3> DEFINE a == Append(d, chunk)
    <3>1. /\ a \in Seq(Nat) /\ Rising(a)
          /\ \A k \in DOMAIN a : a[k] = chunk \/ (k \in DOMAIN d /\ a[k] = d[k])
      BY <1>7, <1>8, <1>9, <1>10, AppendRises
    <3> HIDE DEF a
    <3>2. Between(a, 0, was) /\ \A i \in DOMAIN a, k \in DOMAIN rest : a[i] < rest[k]
      BY <1>8, <1>10, <1>11, <3>1 DEF Between
    <3> QED
      BY <2>2, <3>1, <3>2 DEF a
  <2> QED
    BY <1>4, <2>1, <2>2
<1>15. UpTo(r, sent[r])' = was /\ UpTo(r, sent[r] - 1)' = UpTo(r, sent[r] - 1)
  BY <1>1, <1>5 DEF was
<1>16. OrderInv(r)'
  BY <1>1, <1>3, <1>5, <1>9, <1>11, <1>14, <1>15 DEF OrderInv
<1>17. \A c \in Nat : IsDue(r, c) /\ c <= was => In(c, d) \/ c = chunk \/ In(c, rest)
  BY <1>2, <1>9 DEF AllHeld, was, d, b
<1>18. \A c : In(c, Append(d, chunk)) <=> c = chunk \/ In(c, d)
  BY <1>7, <1>9, AppendRises
<1>19. NoGap(r)'
  <2>1. CASE delivered'[r] = d
    BY <1>2, <1>6, <2>1 DEF NoGap, d
  <2>2. CASE delivered'[r] = Append(d, chunk)
    <3> SUFFICES ASSUME NEW c \in Nat, NEW i \in DOMAIN delivered'[r], IsDue(r, c)', c < delivered'[r][i]
                 PROVE  In(c, Append(d, chunk))
      BY <2>2 DEF NoGap
    <3>1. delivered'[r][i] = chunk \/ (i \in DOMAIN d /\ delivered'[r][i] = d[i])
      BY <1>7, <1>9, <2>2, AppendRises
    <3>2. CASE i \in DOMAIN d /\ delivered'[r][i] = d[i]
      BY <1>2, <1>6, <1>18, <3>2 DEF NoGap, d
    <3>3. CASE delivered'[r][i] = chunk
      <4>1. ~In(c, rest) /\ c # chunk
        <5>1. \A k \in DOMAIN rest : rest[k] \in Nat /\ chunk < rest[k]
          BY <1>9, <1>10
        <5> QED
          BY <1>9, <3>3, <5>1 DEF In
      <4>2. c <= was
        <5>1. was \in Nat
          <6>1. sent[r] \in Nat
            BY DEF TypeOK
          <6> QED
            BY <6>1, UpToRises DEF was
        <5> QED
          BY <1>9, <1>11, <3>3, <5>1
      <4> QED
        BY <1>6, <1>17, <1>18, <4>1, <4>2
    <3> QED
      BY <3>1, <3>2, <3>3
  <2> QED
    BY <1>14, <2>1, <2>2
<1>20. ASSUME ~err'[r] PROVE AllHeld(r)'
  <2> SUFFICES ASSUME NEW c \in Nat, IsDue(r, c)', c <= was
               PROVE  In(c, delivered'[r]) \/ In(c, rest)
    BY <1>1, <1>15 DEF AllHeld, rest
  <2>1. IsDue(r, c) /\ (In(c, d) \/ c = chunk \/ In(c, rest))
    BY <1>6, <1>17
  <2>2. CASE c = chunk
    <3>1. c \notin result[r].hollow
      BY <2>1 DEF IsDue
    <3> QED
      BY <1>4, <1>18, <1>20, <2>2, <3>1
  <2>3. CASE c # chunk
    BY <1>14, <1>18, <2>1, <2>3
  <2> QED
    BY <2>2, <2>3
<1> QED
  BY <1>1, <1>2, <1>12, <1>13, <1>16, <1>19, <1>20 DEF ReaderInv, CompleteInv

LEMMA RetainInv ==
  ASSUME TypeOK, NEW r \in Readers, ReaderInv(r), Retain(r)
  PROVE  ReaderInv(r)'
<1>1. /\ UNCHANGED <<result, sent, needsMore, err, delivered, skipped, buffered, pc, current, done>>
      /\ pc[r] = "ready" /\ refs[r] > 0 /\ refs'[r] > 0
  BY ResultsAssumption DEF Retain, TypeOK, srv, cursor, app
<1>2. /\ OrderInv(r)' /\ NoGap(r)'
      /\ AllHeld(r) => AllHeld(r)'
      /\ AllGiven(r) => AllGiven(r)'
      /\ GivenSoFar(r) => GivenSoFar(r)'
  BY <1>1, InsideInv
<1>3. CallInv(r)'
  BY <1>1 DEF CallInv, ReaderInv
<1>4. PlaceInv(r)'
  BY <1>1, SameResult DEF PlaceInv, ReaderInv
<1> QED
  BY <1>1, <1>2, <1>3, <1>4 DEF ReaderInv, CompleteInv

LEMMA ReleaseInv ==
  ASSUME TypeOK, NEW r \in Readers, ReaderInv(r), Release(r)
  PROVE  ReaderInv(r)'
<1>1. /\ UNCHANGED <<result, sent, needsMore, err, delivered, skipped, done>>
      /\ pc[r] = "ready" /\ refs[r] > 0 /\ refs'[r] = refs[r] - 1 /\ refs[r] \in Nat
  BY ResultsAssumption DEF Release, TypeOK, srv, app
<1>2. \/ /\ refs'[r] = 0 /\ buffered'[r] = <<>> /\ current'[r] = 0 /\ pc'[r] = "over"
      \/ /\ refs'[r] > 0
         /\ buffered'[r] = buffered[r] /\ current'[r] = current[r] /\ pc'[r] = pc[r]
  <2>1. CASE refs[r] = 1
    BY <1>1, <2>1 DEF Release, CloseCursor, Goto, TypeOK
  <2>2. CASE refs[r] # 1
    BY <1>1, <2>2 DEF Release
  <2> QED
    BY <2>1, <2>2
<1>3. /\ OrderInv(r)' /\ NoGap(r)'
      /\ AllHeld(r) /\ buffered'[r] = buffered[r] => AllHeld(r)'
      /\ AllGiven(r) => AllGiven(r)'
      /\ GivenSoFar(r) => GivenSoFar(r)'
  BY <1>1, <1>2, InsideInv
<1>4. CallInv(r)'
  BY <1>1, <1>2 DEF CallInv, ReaderInv
<1>5. PlaceInv(r)'
  BY <1>1, <1>2, SameResult DEF PlaceInv, ReaderInv, Open
<1> QED
  BY <1>1, <1>2, <1>3, <1>4, <1>5 DEF ReaderInv, CompleteInv, Open

LEMMA DrainFetchInv ==
  ASSUME TypeOK, NEW r \in Readers, ReaderInv(r), DrainFetch(r)
  PROVE  ReaderInv(r)'
<1>1. /\ pc[r] = "drain" /\ needsMore[r] /\ ~err[r] /\ ~done[r] /\ current[r] = 0
      /\ delivered[r] = <<>> /\ ~(refs[r] > 0)
  BY DEF DrainFetch, ReaderInv, CallInv
<1>2. UNCHANGED <<refs, current, done, delivered>>
  BY DEF DrainFetch
<1>3. CASE Fetched(r) /\ UNCHANGED <<pc, err>>
  <2>1. /\ OrderInv(r)' /\ NoGap(r)' /\ AllHeld(r)'
        /\ sent'[r] \in 1..(Batches(r)' + 1)
        /\ needsMore'[r] <=> sent'[r] < Batches(r)'
    BY <1>1, <1>2, <1>3, FetchedInv
  <2>2. CallInv(r)' /\ PlaceInv(r)'
    BY <1>1, <1>2, <1>3, <2>1 DEF CallInv, PlaceInv
  <2> QED
    BY <1>1, <1>2, <1>3, <2>1, <2>2 DEF ReaderInv, CompleteInv
<1>4. CASE ExchangeFails(r) /\ CloseCursor(r) /\ Goto(r, "over") /\ err' = [err EXCEPT ![r] = TRUE]
  <2>1. pc'[r] = "over" /\ err'[r] /\ buffered'[r] = <<>>
    BY <1>4 DEF Goto, CloseCursor, TypeOK
  <2>2. /\ sent'[r] \in {sent[r], sent[r] + 1} /\ result' = result /\ skipped' = skipped
        /\ OrderInv(r) /\ NoGap(r)
    BY <1>4 DEF ExchangeFails, TypeOK, ReaderInv, CompleteInv
  <2>3. OrderInv(r)' /\ NoGap(r)'
    BY <1>2, <2>1, <2>2, DataStays
  <2>4. CallInv(r)' /\ PlaceInv(r)'
    BY <1>1, <1>2, <2>1 DEF CallInv, PlaceInv, Open
  <2> QED
    BY <2>1, <2>3, <2>4 DEF ReaderInv, CompleteInv
<1> QED
  BY <1>3, <1>4 DEF DrainFetch

LEMMA DrainDoneInv ==
  ASSUME TypeOK, NEW r \in Readers, ReaderInv(r), DrainDone(r)
  PROVE  ReaderInv(r)'
<1>1. /\ pc[r] = "drain" /\ ~needsMore[r] /\ pc'[r] = "over" /\ done'[r]
      /\ buffered'[r] = <<>> /\ delivered'[r] = buffered[r]
      /\ UNCHANGED <<result, sent, needsMore, refs, current, err, skipped>>
  BY DEF DrainDone, CloseCursor, Goto, TypeOK, srv
<1>2. /\ delivered[r] = <<>> /\ ~(refs[r] > 0) /\ ~err[r] /\ current[r] = 0
      /\ OrderInv(r) /\ AllHeld(r)
      /\ sent[r] \in 1..(Batches(r) + 1) /\ (needsMore[r] <=> sent[r] < Batches(r))
  BY <1>1 DEF ReaderInv, CallInv, PlaceInv, CompleteInv, Open
<1>3. Batches(r)' = Batches(r) /\ \A k : UpTo(r, k)' = UpTo(r, k)
  BY <1>1, SameResult
<1>4. \A c : IsDue(r, c)' => IsDue(r, c)
  BY <1>1, DueShrinks
<1>5. \A c \in Nat : IsDue(r, c) => c <= UpTo(r, sent[r])
  <2>1. sent[r] \in Nat /\ Batches(r) \in Nat /\ Total(r) \in Nat
    BY UpToIs DEF TypeOK
  <2>2. UpTo(r, sent[r]) = Total(r)
    <3>1. sent[r] >= Batches(r)
      BY <1>1, <1>2, <2>1
    <3> QED
      BY <2>1, <3>1, UpToIs
  <2> QED
    BY <2>1, <2>2 DEF IsDue
<1>6. \A c \in Nat : IsDue(r, c) => In(c, delivered'[r])
  <2>1. \A c : ~In(c, delivered[r])
    BY <1>2 DEF In
  <2> QED
    BY <1>1, <1>2, <1>5, <2>1 DEF AllHeld
<1>7. CompleteInv(r)'
  BY <1>1, <1>4, <1>6 DEF CompleteInv, NoGap, AllGiven, In, Open
<1>8. OrderInv(r)'
  <2>1. DOMAIN <<>> = {}
    OBVIOUS
  <2>2. /\ Rising(buffered[r]) /\ Between(buffered[r], 0, UpTo(r, sent[r]))
        /\ UpTo(r, sent[r])' = UpTo(r, sent[r])
    BY <1>1, <1>2, <1>3 DEF OrderInv
  <2> QED
    BY <1>1, <1>2, <2>1, <2>2 DEF OrderInv, Rising, Between
<1>9. CallInv(r)' /\ PlaceInv(r)'
  BY <1>1, <1>2 DEF CallInv, PlaceInv, Open
<1> QED
  BY <1>7, <1>8, <1>9 DEF ReaderInv
----------------------------------------------------------------------------
\* A step is of one reader; cancelling and closing are of none.
LEMMA OneMoves ==
  ASSUME TypeOK, [Next]_vars
  PROVE  \/ \A q \in Readers : Kept(q)
         \/ \E r \in Readers :
              /\ \/ Prepare(r) \/ NextRecord(r) \/ NextChunk(r) \/ FetchMore(r) \/ TakeNone(r)
                 \/ TakeChunk(r) \/ Retain(r) \/ Release(r) \/ DrainFetch(r) \/ DrainDone(r)
              /\ \A q \in Readers : q # r => Kept(q)
<1> DEFINE Only(r) == \A q \in Readers : q # r => Kept(q)
<1>a. ASSUME NEW r \in Readers, NEW q \in Readers, q # r
      PROVE  /\ Prepared(r) \/ Fetched(r) =>
                  /\ result' = result /\ sent'[q] = sent[q] /\ skipped'[q] = skipped[q]
                  /\ buffered'[q] = buffered[q] /\ needsMore'[q] = needsMore[q]
             /\ ExchangeFails(r) =>
                  /\ result' = result /\ sent'[q] = sent[q] /\ skipped'[q] = skipped[q]
                  /\ needsMore'[q] = needsMore[q]
             /\ \A to : Goto(r, to) => pc'[q] = pc[q]
             /\ CloseCursor(r) => buffered'[q] = buffered[q]
  BY <1>a, SMTT(30) DEF Prepared, Fetched, Received, ExchangeFails, Goto, CloseCursor, TypeOK
<1>1. ASSUME NEW r \in Readers, Prepare(r) PROVE Only(r)
  BY <1>1, <1>a DEF Prepare, Kept, TypeOK
<1>2. ASSUME NEW r \in Readers, NextRecord(r) PROVE Only(r)
  BY <1>2, <1>a DEF NextRecord, Kept, TypeOK, srv, cursor, app
<1>3. ASSUME NEW r \in Readers, NextChunk(r) PROVE Only(r)
  BY <1>3, <1>a DEF NextChunk, Kept, TypeOK, srv, cursor, app
<1>4. ASSUME NEW r \in Readers, FetchMore(r) PROVE Only(r)
  BY <1>4, <1>a DEF FetchMore, Kept, TypeOK
<1>5. ASSUME NEW r \in Readers, TakeNone(r) PROVE Only(r)
  BY <1>5, <1>a DEF TakeNone, Kept, TypeOK, srv, cursor, app
<1>6. ASSUME NEW r \in Readers, TakeChunk(r) PROVE Only(r)
  BY <1>6, <1>a, SMTT(30) DEF TakeChunk, Kept, TypeOK, srv
<1>7. ASSUME NEW r \in Readers, Retain(r) PROVE Only(r)
  BY <1>7 DEF Retain, Kept, TypeOK, srv, cursor, app
<1>8. ASSUME NEW r \in Readers, Release(r) PROVE Only(r)
  BY <1>8, <1>a DEF Release, Kept, TypeOK, srv, app
<1>9. ASSUME NEW r \in Readers, DrainFetch(r) PROVE Only(r)
  BY <1>9, <1>a DEF DrainFetch, Kept, TypeOK
<1>10. ASSUME NEW r \in Readers, DrainDone(r) PROVE Only(r)
  BY <1>10, <1>a DEF DrainDone, Kept, TypeOK, srv
<1>11. ASSUME NEW r \in Readers, Cancel(r) PROVE \A q \in Readers : Kept(q)
  BY <1>11 DEF Cancel, Kept, srv, cursor, reader, app
<1>12. CASE SessionClose
  BY <1>12 DEF SessionClose, Kept, cursor, reader, app
<1>13. CASE UNCHANGED vars
  BY <1>13 DEF vars, Kept, srv, cursor, reader, app
<1> HIDE DEF Only
<1>14. CASE Next
  <2>1. CASE \E r \in Readers :
               \/ Prepare(r) \/ NextRecord(r) \/ NextChunk(r) \/ FetchMore(r) \/ TakeNone(r)
               \/ TakeChunk(r) \/ Retain(r) \/ Release(r) \/ DrainFetch(r) \/ DrainDone(r)
    BY <2>1, <1>1, <1>2, <1>3, <1>4, <1>5, <1>6, <1>7, <1>8, <1>9, <1>10 DEF Only
  <2> QED
    BY <1>11, <1>12, <1>14, <2>1 DEF Next, Step
<1> QED
  BY <1>13, <1>14

\* The invariant holds at first.
LEMMA InitInv ==
  ASSUME Init
  PROVE  IInv
<1>1. TypeOK
  BY ResultsAssumption DEF Init, TypeOK, Pcs
<1>2. ASSUME NEW r \in Readers PROVE ReaderInv(r)
  <2>1. /\ sent[r] = 0 /\ buffered[r] = <<>> /\ delivered[r] = <<>> /\ pc[r] = "new" /\ refs[r] = 0
        /\ current[r] = 0 /\ ~done[r] /\ ~err[r]
    BY DEF Init
  <2>2. DOMAIN <<>> = {}
    OBVIOUS
  <2>3. CallInv(r) /\ PlaceInv(r)
    BY <2>1 DEF CallInv, PlaceInv, Open
  <2>4. OrderInv(r)
    BY <2>1, <2>2 DEF OrderInv, Rising, Between
  <2>5. CompleteInv(r)
    BY <2>1, <2>2 DEF CompleteInv, NoGap, Open
  <2> QED
    BY <2>3, <2>4, <2>5 DEF ReaderInv
<1> QED
  BY <1>1, <1>2 DEF IInv

\* The invariant is kept by every step.
LEMMA StepInv ==
  ASSUME IInv, [Next]_vars
  PROVE  IInv'
<1>1. TypeOK /\ TypeOK'
  BY StepTypeOK DEF IInv
<1>2. ASSUME NEW q \in Readers, Kept(q) PROVE ReaderInv(q)'
  BY <1>1, <1>2, KeptInv DEF IInv
<1>3. ASSUME NEW r \in Readers,
             \/ Prepare(r) \/ NextRecord(r) \/ NextChunk(r) \/ FetchMore(r) \/ TakeNone(r)
             \/ TakeChunk(r) \/ Retain(r) \/ Release(r) \/ DrainFetch(r) \/ DrainDone(r)
      PROVE  ReaderInv(r)'
  <2>1. ReaderInv(r)
    BY DEF IInv
  <2> QED
    BY <1>1, <1>3, <2>1, PrepareInv, NextRecordInv, NextChunkInv, FetchMoreInv, TakeNoneInv,
       TakeChunkInv, RetainInv, ReleaseInv, DrainFetchInv, DrainDoneInv
<1>4. \A q \in Readers : ReaderInv(q)'
  BY <1>1, <1>2, <1>3, OneMoves
<1> QED
  BY <1>1, <1>4 DEF IInv

\* The invariant holds for ever.
LEMMA AlwaysInv == Spec => []IInv
<1>1. Init => IInv
  BY InitInv
<1>2. IInv /\ [Next]_vars => IInv'
  BY StepInv
<1> QED
  BY <1>1, <1>2, PTL DEF Spec
----------------------------------------------------------------------------
\* The fields of a reader agree: its record is the last one delivered, and
\* an ended, failed or released reader has none (streamingRecordReader).
THEOREM ReadersAgree == Spec => []ReaderOK
<1>1. IInv => ReaderOK
  <2> SUFFICES ASSUME IInv PROVE ReaderOK
    OBVIOUS
  <2>1. ASSUME NEW r \in Readers, current[r] # 0
        PROVE  /\ refs[r] > 0 /\ ~done[r] /\ ~err[r]
               /\ delivered[r] # <<>> /\ current[r] = delivered[r][Len(delivered[r])]
    BY <2>1 DEF IInv, ReaderInv, CallInv
  <2> QED
    BY <2>1 DEF IInv, ReaderOK, CurrentIsLast
<1> QED
  BY <1>1, AlwaysInv, PTL

\* Due in the invariant's words.
LEMMA DueIs ==
  ASSUME TypeOK, NEW r \in Readers
  PROVE  \A c \in Due(r) : c \in Nat /\ c <= Total(r) /\ IsDue(r, c)
<1> SUFFICES ASSUME NEW c \in Due(r) PROVE c \in Nat /\ c <= Total(r) /\ IsDue(r, c)
  OBVIOUS
<1>1. Total(r) \in Nat
  BY UpToIs
<1>2. c \in 1..Total(r) /\ c \notin result[r].hollow
  BY DEF Due
<1>3. ASSUME NEW i \in skipped[r] \ {0} PROVE c <= UpTo(r, i - 1) \/ c > UpTo(r, i)
  <2>1. c \notin (UpTo(r, i - 1) + 1)..UpTo(r, i)
    BY DEF Due
  <2>2. i - 1 \in Nat /\ (i - 1) + 1 = i
    BY DEF TypeOK
  <2>3. UpTo(r, i - 1) \in Nat /\ UpTo(r, i) \in Nat
    BY <2>2, UpToRises
  <2> QED
    BY <1>1, <1>2, <2>1, <2>3
<1> QED
  BY <1>1, <1>2, <1>3 DEF IsDue

\* The application receives a result's chunks in the server's order, none
\* twice and none left out: nextChunk hands the buffer out from the front
\* and fetches the next batch only behind it.
THEOREM ChunksInOrder == Spec => []InOrder
<1>1. IInv => InOrder
  <2> SUFFICES ASSUME IInv, NEW r \in Readers, NEW i \in DOMAIN delivered[r],
                      NEW before, before = {delivered[r][j] : j \in 1..(i - 1)}
               PROVE  /\ \A c \in before : c < delivered[r][i]
                      /\ \A c \in Due(r) : c < delivered[r][i] => c \in before
    BY DEF InOrder
  <2>1. /\ delivered[r] \in Seq(Nat) /\ DOMAIN delivered[r] = 1..Len(delivered[r])
        /\ Len(delivered[r]) \in Nat
    BY DEF IInv, TypeOK
  <2>2. Rising(delivered[r]) /\ NoGap(r) /\ TypeOK
    BY DEF IInv, ReaderInv, OrderInv, CompleteInv
  <2>3. ASSUME NEW c \in before PROVE c < delivered[r][i]
    <3>1. PICK j \in 1..(i - 1) : c = delivered[r][j]
      BY <2>3
    <3>2. j \in DOMAIN delivered[r] /\ j < i
      BY <2>1
    <3> QED
      BY <2>2, <3>1, <3>2 DEF Rising
  <2>4. ASSUME NEW c \in Due(r), c < delivered[r][i] PROVE c \in before
    <3>1. c \in Nat /\ IsDue(r, c)
      BY <2>2, DueIs
    <3>2. PICK j \in DOMAIN delivered[r] : delivered[r][j] = c
      BY <2>2, <2>4, <3>1 DEF NoGap, In
    <3>3. delivered[r][i] \in Nat
      BY <2>1
    <3>4. j # i /\ ~(i < j)
      BY <2>2, <2>4, <3>1, <3>2, <3>3 DEF Rising
    <3>5. j \in 1..(i - 1)
      BY <2>1, <3>4
    <3> QED
      BY <3>2, <3>5
  <2> QED
    BY <2>3, <2>4
<1> QED
  BY <1>1, AlwaysInv, PTL

\* A reader or a drain that ended without an error has given everything the
\* server produced, but for the FETCH_RESPONSE without chunks that nextChunk
\* takes for the end.
THEOREM NothingMissing == Spec => []EndMeansAll
<1>1. IInv => EndMeansAll
  <2> SUFFICES ASSUME IInv, NEW r \in Readers, done[r], ~err[r]
               PROVE  \/ Due(r) \subseteq Given(r)
                      \/ /\ needsMore[r] /\ Batch(r, sent[r]) = <<>>
                         /\ \A c \in Due(r) : c <= UpTo(r, sent[r]) => c \in Given(r)
    BY DEF EndMeansAll
  <2>1. TypeOK /\ (AllGiven(r) \/ GivenSoFar(r))
    BY DEF IInv, ReaderInv, CompleteInv
  <2>2. \A c : In(c, delivered[r]) => c \in Given(r)
    BY DEF In, Given
  <2>3. \A c \in Due(r) : c \in Nat /\ IsDue(r, c)
    BY <2>1, DueIs
  <2>4. CASE AllGiven(r)
    BY <2>2, <2>3, <2>4 DEF AllGiven
  <2>5. CASE GivenSoFar(r)
    <3>1. UpTo(r, sent[r]) \in Nat /\ UpTo(r, sent[r]) = UpTo(r, sent[r] - 1)
      <4>1. sent[r] \in Nat
        BY <2>1 DEF TypeOK
      <4> QED
        BY <2>1, <2>5, <4>1, UpToRises DEF GivenSoFar
    <3>2. Batch(r, sent[r]) = <<>>
      <4>1. 1..(UpTo(r, sent[r]) - UpTo(r, sent[r] - 1)) = {}
        BY <3>1
      <4> QED
        BY <4>1 DEF Batch
    <3> QED
      BY <2>2, <2>3, <2>5, <3>2 DEF GivenSoFar
  <2> QED
    BY <2>1, <2>4, <2>5
<1> QED
  BY <1>1, AlwaysInv, PTL

\* A streaming reader holds chunks of one batch only: the bound of
\* session.go:66-69 on a cursor's memory.
THEOREM BoundedBuffer == Spec => []OneBatchBuffered
<1>1. IInv => OneBatchBuffered
  <2> SUFFICES ASSUME IInv, NEW r \in Readers, refs[r] > 0
               PROVE  \E i \in 1..(Batches(r) + 1) :
                        {buffered[r][k] : k \in DOMAIN buffered[r]}
                          \subseteq (UpTo(r, i - 1) + 1)..UpTo(r, i)
    BY DEF OneBatchBuffered
  <2>1. TypeOK /\ Batches(r) \in Nat \ {0}
    BY UpToIs DEF IInv
  <2>2. CASE buffered[r] = <<>>
    <3>1. DOMAIN buffered[r] = {} /\ 1 \in 1..(Batches(r) + 1)
      BY <2>1, <2>2
    <3> QED
      BY <3>1
  <2>3. CASE buffered[r] # <<>>
    <3>1. /\ sent[r] \in 1..(Batches(r) + 1)
          /\ Between(buffered[r], UpTo(r, sent[r] - 1), UpTo(r, sent[r]))
      BY <2>3 DEF IInv, ReaderInv, OrderInv
    <3>2. UpTo(r, sent[r] - 1) \in Nat /\ UpTo(r, sent[r]) \in Nat
      <4>1. sent[r] - 1 \in Nat /\ (sent[r] - 1) + 1 = sent[r]
        BY <2>1, <3>1
      <4> QED
        BY <2>1, <4>1, UpToRises
    <3>3. \A k \in DOMAIN buffered[r] : buffered[r][k] \in Nat
      BY <2>1 DEF TypeOK
    <3>4. \A k \in DOMAIN buffered[r] :
            buffered[r][k] \in (UpTo(r, sent[r] - 1) + 1)..UpTo(r, sent[r])
      BY <3>1, <3>2, <3>3 DEF Between
    <3> QED
      BY <3>1, <3>4
  <2> QED
    BY <2>2, <2>3
<1> QED
  BY <1>1, AlwaysInv, PTL

\* After an error or the end a reader delivers nothing more and asks the
\* server for nothing more (the first test of Next).
THEOREM StoppedForGood == Spec => StopsForGood
<1>1. ASSUME IInv, [Next]_vars, NEW r \in Readers, err[r] \/ done[r]
      PROVE  UNCHANGED <<delivered[r], sent[r]>>
  <2>1. TypeOK /\ pc[r] \in {"ready", "over"}
    BY <1>1 DEF IInv, ReaderInv, CallInv
  <2>2. CASE Kept(r)
    BY <2>2 DEF Kept
  <2>3. CASE \/ Prepare(r) \/ NextRecord(r) \/ NextChunk(r) \/ FetchMore(r) \/ TakeNone(r)
             \/ TakeChunk(r) \/ Retain(r) \/ Release(r) \/ DrainFetch(r) \/ DrainDone(r)
    <3>1. Retain(r) \/ Release(r)
      BY <1>1, <2>1, <2>3 DEF Prepare, NextRecord, NextChunk, FetchMore, TakeNone, TakeChunk,
         DrainFetch, DrainDone
    <3> QED
      BY <3>1 DEF Retain, Release, srv, app
  <2> QED
    BY <1>1, <2>1, <2>2, <2>3, OneMoves
<1>2. IInv /\ [Next]_vars =>
        [\A r \in Readers : err[r] \/ done[r] => UNCHANGED <<delivered[r], sent[r]>>]_vars
  BY <1>1
<1> QED
  BY <1>2, AlwaysInv, PTL DEF Spec, StopsForGood
============================================================================
