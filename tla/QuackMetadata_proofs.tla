------------------------ MODULE QuackMetadata_proofs ------------------------
(***************************************************************************)
(* For any catalogs, any filters and any changes by others: GetObjects     *)
(* lists, in the order of the tree, only what was there and was asked for, *)
(* and when it succeeds all that was there from its start to its end.      *)
(*                                                                         *)
(* The queries to come divide up what is still to be listed: each covers   *)
(* the part of the tree below its path, the parts lie in order, and what   *)
(* is in none of them is listed already or needs not be.                   *)
(*                                                                         *)
(* A table that nobody changes is listed with its own columns and keys:    *)
(* the queries for the keys and the columns of two schemas never mix.      *)
(***************************************************************************)
EXTENDS QuackMetadata, Facts

AnyPath == Path(1) \union Path(2) \union Path(3)

Lists == {"catalogs", "schemas", "tables"}  \* asks for what is below its path
Enters == {"catalog", "schema", "columns"}  \* has the entry of its path to make
Loads == {"primary keys", "foreign keys"}
SameSchema(p, q) == p[1] = q[1] /\ p[2] = q[2]

Asks == [kind : Lists \union Enters \union Loads, path : Seq(Int),
         type : {""} \union {d.type : d \in Definitions}]

Depth(kind) ==
  CASE kind = "catalogs" -> 0
    [] kind \in {"catalog", "schemas"} -> 1
    [] kind \in {"schema", "tables"} \union Loads -> 2
    [] kind = "columns" -> 3

\* What is asked for lies at its level, was wanted, and if it is to be entered was there.
AskOK(a) ==
  /\ Len(a.path) = Depth(a.kind)
  /\ Wanted(a.path)
  /\ a.kind \in Lists => Len(a.path) < Levels[call.depth]
  /\ a.kind \in Enters => Was(a)

\* The paths that an ask, or the asks its rows lead to, may enter.
Begins(a, p) == Len(a) <= Len(p) /\ Agree(a, p, Len(a))
Cover(a) == {p \in Seq(Int) : /\ Begins(a.path, p)
                              /\ a.kind \in Lists \union Enters
                              /\ a.kind \in Lists => Len(a.path) < Len(p)}

\* What was listed and then what may still be goes along the tree.
Ordered(listed, asks) ==
  /\ \A i, j \in DOMAIN listed : i < j => Before(listed[i].path, listed[j].path)
  /\ \A i \in DOMAIN listed, k \in DOMAIN asks : \A q \in Cover(asks[k]) : Before(listed[i].path, q)
  /\ \A k, l \in DOMAIN asks : k < l =>
       \A p \in Cover(asks[k]), q \in Cover(asks[l]) : Before(p, q)

\* What is due is listed or still covered.
Reached(p) == Listed(p) \/ \E k \in DOMAIN todo : p \in Cover(todo[k])
Complete == pc = "walking" \/ outcome = "ok" => \A p \in AnyPath : Due(p) => Reached(p)

IsList(s) == \E S : s \in Seq(S)

WalkInv ==
  /\ todo \in Seq(Asks)
  /\ pc = "walking" => IsWalk /\ outcome = "none"
  /\ IsWalk => /\ IsList(found)
               /\ \A k \in DOMAIN todo : AskOK(todo[k])
               /\ \A i \in DOMAIN found : Was(found[i])
               /\ Ordered(found, todo)
               /\ Complete

IInv == TypeOK /\ WalkInv
----------------------------------------------------------------------------
(***************************************************************************)
(* Lists and the order of the tree.                                        *)
(***************************************************************************)
LEMMA Concat ==
  ASSUME NEW S, NEW s \in Seq(S), NEW t \in Seq(S)
  PROVE  /\ s \o t \in Seq(S)
         /\ Len(s) \in Nat /\ Len(t) \in Nat /\ DOMAIN s = 1..Len(s) /\ DOMAIN t = 1..Len(t)
         /\ DOMAIN (s \o t) = 1..(Len(s) + Len(t))
         /\ \A i \in 1..Len(s) : (s \o t)[i] = s[i]
         /\ \A i \in 1..Len(t) : (s \o t)[Len(s) + i] = t[i]
         /\ \A i \in DOMAIN (s \o t) : i \in 1..Len(s) \/ \E j \in 1..Len(t) : i = Len(s) + j
<1>1. s \o t \in Seq(S) /\ Len(s \o t) = Len(s) + Len(t)
  OBVIOUS
<1>2. Len(s) \in Nat /\ Len(t) \in Nat /\ DOMAIN s = 1..Len(s) /\ DOMAIN t = 1..Len(t)
  OBVIOUS
<1>3. DOMAIN (s \o t) = 1..(Len(s) + Len(t))
  BY <1>1
<1>4. \A i \in 1..Len(s) : (s \o t)[i] = s[i]
  OBVIOUS
<1>5. \A i \in 1..Len(t) : (s \o t)[Len(s) + i] = t[i]
  OBVIOUS
<1>6. ASSUME NEW i \in DOMAIN (s \o t), i \notin 1..Len(s)
      PROVE  \E j \in 1..Len(t) : i = Len(s) + j
  <2>1. i - Len(s) \in 1..Len(t) /\ i = Len(s) + (i - Len(s))
    BY <1>2, <1>3, <1>6
  <2> QED
    BY <2>1
<1> QED
  BY <1>1, <1>2, <1>3, <1>4, <1>5, <1>6

LEMMA PairIs ==
  ASSUME NEW S, NEW x \in S, NEW y \in S
  PROVE  <<x, y>> \in Seq(S) /\ Len(<<x, y>>) = 2 /\ <<x, y>>[1] = x /\ <<x, y>>[2] = y
OBVIOUS

LEMMA AppendPair ==
  ASSUME NEW a \in Int, NEW b \in Int, NEW x \in Int
  PROVE  Append(<<a, b>>, x) = <<a, b, x>>
<1> DEFINE pair == <<a, b>>
           more == Append(pair, x)
<1>1. pair \in Seq(Int) /\ Len(pair) = 2 /\ pair[1] = a /\ pair[2] = b
  BY PairIs
<1> HIDE DEF pair
<1>2. /\ more \in Seq(Int) /\ Len(more) = Len(pair) + 1
      /\ more[Len(pair) + 1] = x /\ \A k \in 1..Len(pair) : more[k] = pair[k]
  <2>1. /\ Append(pair, x) \in Seq(Int) /\ Len(Append(pair, x)) = Len(pair) + 1
        /\ Append(pair, x)[Len(pair) + 1] = x
    BY <1>1, AppendIs, ZenonT(40)
  <2>2. \A q \in Seq(Int) : \A k \in 1..Len(q) : Append(q, x)[k] = q[k]
    OBVIOUS
  <2>3. \A k \in 1..Len(pair) : Append(pair, x)[k] = pair[k]
    BY <1>1, <2>2, Zenon
  <2> QED
    BY <2>1, <2>3
<1> HIDE DEF more
<1>3. more[1] = a /\ more[2] = b
  BY <1>1, <1>2
<1>4. 2 + 1 = 3
  OBVIOUS
<1>5. Len(more) = 3 /\ more[3] = x
  BY <1>1, <1>2, <1>4, Zenon
<1>6. more = <<a, b, x>>
  <2>1. more \in [1..Len(more) -> Int]
    BY <1>2
  <2>2. more \in [1..3 -> Int]
    BY <1>5, <2>1, Zenon
  <2>3. more = <<more[1], more[2], more[3]>>
    BY <2>2
  <2> QED
    BY <1>3, <1>5, <2>3
<1> QED
  BY <1>6 DEF pair, more

LEMMA TailIs ==
  ASSUME NEW S, NEW s \in Seq(S), s # <<>>
  PROVE  /\ Head(s) \in S /\ Tail(s) \in Seq(S)
         /\ 1 \in DOMAIN s /\ s[1] = Head(s)
         /\ \A k \in DOMAIN Tail(s) : Tail(s)[k] = s[k + 1] /\ k + 1 \in DOMAIN s /\ 1 < k + 1
         /\ \A k \in DOMAIN s : k = 1 \/ (k - 1 \in DOMAIN Tail(s) /\ Tail(s)[k - 1] = s[k])
OBVIOUS

\* Two branches of one place are in the order of their names.
LEMMA BranchesInOrder ==
  ASSUME NEW path \in Seq(Int), NEW x \in Int, NEW y \in Int, x < y,
         NEW p \in Seq(Int), NEW q \in Seq(Int),
         Begins(Append(path, x), p), Begins(Append(path, y), q)
  PROVE  Before(p, q)
<1> DEFINE n == Len(path)
           a == Append(path, x)
           b == Append(path, y)
<1>1. n \in Nat /\ a \in Seq(Int) /\ b \in Seq(Int) /\ Len(a) = n + 1 /\ Len(b) = n + 1
  OBVIOUS
<1>2. a[n + 1] = x /\ b[n + 1] = y /\ \A k \in 1..n : a[k] = b[k]
  OBVIOUS
<1> HIDE DEF a, b, n
<1>3. /\ n + 1 <= Len(p) /\ \A k \in 1..(n + 1) : a[k] = p[k]
      /\ n + 1 <= Len(q) /\ \A k \in 1..(n + 1) : b[k] = q[k]
  BY <1>1 DEF Begins, Agree, a, b
<1>4. n + 1 \in DOMAIN p \intersect DOMAIN q
  BY <1>1, <1>3, SMTT(30)
<1>5. p[n + 1] < q[n + 1]
  BY <1>1, <1>2, <1>3, SMTT(30)
<1>6. Agree(p, q, (n + 1) - 1)
  <2>1. (n + 1) - 1 = n /\ \A k \in 1..n : k \in 1..(n + 1)
    BY <1>1
  <2>2. \A k \in 1..n : p[k] = q[k]
    BY <1>2, <1>3, <2>1
  <2> QED
    BY <2>1, <2>2 DEF Agree
<1> QED
  BY <1>4, <1>5, <1>6 DEF Before
\* A path above another comes before it, and what lies below a part of a branch
\* lies below the branch.
LEMMA AboveIsBefore ==
  ASSUME NEW a \in Seq(Int), NEW p \in Seq(Int), Begins(a, p), Len(a) < Len(p)
  PROVE  Before(a, p)
BY DEF Begins, Before

LEMMA AppendBegins ==
  ASSUME NEW a \in Seq(Int), NEW x \in Int, NEW p \in Seq(Int)
  PROVE  Begins(Append(a, x), p) <=>
           Begins(a, p) /\ Len(a) < Len(p) /\ p[Len(a) + 1] = x
<1> DEFINE b == Append(a, x)
           n == Len(a)
<1>1. n \in Nat /\ Len(p) \in Nat /\ b \in Seq(Int) /\ Len(b) = n + 1 /\ b[n + 1] = x
  OBVIOUS
<1>2. \A k \in 1..n : b[k] = a[k]
  OBVIOUS
<1> HIDE DEF b, n
<1>3. Begins(b, p) <=> n + 1 <= Len(p) /\ \A k \in 1..(n + 1) : b[k] = p[k]
  BY <1>1 DEF Begins, Agree
<1>4. Begins(a, p) <=> n <= Len(p) /\ \A k \in 1..n : a[k] = p[k]
  BY DEF Begins, Agree, n
<1>5. (\A k \in 1..(n + 1) : b[k] = p[k]) <=> (\A k \in 1..n : b[k] = p[k]) /\ b[n + 1] = p[n + 1]
  BY <1>1, SMTT(30)
<1> QED
  BY <1>1, <1>2, <1>3, <1>4, <1>5, SMTT(30) DEF b, n

LEMMA BeginsItself == ASSUME NEW a \in Seq(Int) PROVE Begins(a, a)
BY DEF Begins, Agree

LEMMA AllBeginEmpty == ASSUME NEW p \in Seq(Int) PROVE Begins(<<>>, p)
BY DEF Begins, Agree

LEMMA AnyPathIsSeq ==
  ASSUME NEW p \in AnyPath
  PROVE  p \in Seq(Int) /\ Len(p) \in 1..3
<1>1. ASSUME NEW n \in 1..3, p \in [1..n -> Int]
      PROVE  p \in Seq(Int) /\ Len(p) = n
  BY <1>1
<1> QED
  BY <1>1 DEF AnyPath, Path
----------------------------------------------------------------------------
(***************************************************************************)
(* A query makes way for the asks its rows call for.                       *)
(***************************************************************************)

\* What takes the place of an ask covers no more than it did, in order.
Fits(a, asks, entries) ==
  /\ \A i \in DOMAIN entries : entries[i].path \in Cover(a)
  /\ \A k \in DOMAIN asks : Cover(asks[k]) \subseteq Cover(a)
  /\ Ordered(entries, asks)

LEMMA StaysOrdered ==
  ASSUME NEW listed, NEW entries, IsList(listed), IsList(entries),
         NEW asks \in Seq(Asks), asks # <<>>, NEW queries \in Seq(Asks),
         Ordered(listed, asks), Fits(Head(asks), queries, entries)
  PROVE  Ordered(listed \o entries, queries \o Tail(asks))
<1> DEFINE f == listed \o entries
           rest == Tail(asks)
           t == queries \o rest
           h == Head(asks)
<1>1. PICK S : listed \in Seq(S) /\ entries \in Seq(S)
  <2>1. PICK A : listed \in Seq(A)
    BY DEF IsList
  <2>2. PICK B : entries \in Seq(B)
    BY DEF IsList
  <2>3. listed \in Seq(A \union B) /\ entries \in Seq(A \union B)
    BY <2>1, <2>2
  <2> QED
    BY <2>3
<1>2. /\ 1 \in DOMAIN asks /\ asks[1] = h /\ rest \in Seq(Asks)
      /\ \A k \in DOMAIN rest : rest[k] = asks[k + 1] /\ k + 1 \in DOMAIN asks /\ 1 < k + 1
  BY TailIs
<1> HIDE DEF h, rest
<1>3. \A i \in DOMAIN f : \/ i \in DOMAIN listed /\ f[i] = listed[i]
                          \/ \E j \in DOMAIN entries : i = Len(listed) + j /\ f[i] = entries[j]
  BY <1>1, Concat
<1>t. PICK R : queries \in Seq(R) /\ rest \in Seq(R)
  BY <1>2
<1>4. \A k \in DOMAIN t : \/ k \in DOMAIN queries /\ t[k] = queries[k]
                          \/ \E j \in DOMAIN rest : k = Len(queries) + j /\ t[k] = rest[j]
  BY <1>t, Concat
<1>5. /\ Len(listed) \in Nat /\ DOMAIN listed = 1..Len(listed)
      /\ Len(entries) \in Nat /\ DOMAIN entries = 1..Len(entries)
      /\ Len(queries) \in Nat /\ DOMAIN queries = 1..Len(queries)
      /\ Len(rest) \in Nat /\ DOMAIN rest = 1..Len(rest)
      /\ \A k \in DOMAIN asks : k \in Nat
  BY <1>1, <1>2, Concat
<1> HIDE DEF f, t
<1>6. \A i \in DOMAIN listed : \A q \in Cover(h) : Before(listed[i].path, q)
  BY <1>2 DEF Ordered
<1>7. \A l \in DOMAIN rest : \A p \in Cover(h), q \in Cover(rest[l]) : Before(p, q)
  BY <1>2 DEF Ordered
<1>8. ASSUME NEW i \in DOMAIN f, NEW j \in DOMAIN f, i < j
      PROVE  Before(f[i].path, f[j].path)
  <2>1. CASE j \in DOMAIN listed /\ f[j] = listed[j]
    <3>1. i \in DOMAIN listed /\ f[i] = listed[i]
      BY <1>3, <1>5, <1>8, <2>1
    <3> QED
      BY <1>8, <2>1, <3>1 DEF Ordered
  <2>2. CASE \E l \in DOMAIN entries : j = Len(listed) + l /\ f[j] = entries[l]
    <3>1. PICK l \in DOMAIN entries : j = Len(listed) + l /\ f[j] = entries[l]
      BY <2>2
    <3>2. CASE i \in DOMAIN listed /\ f[i] = listed[i]
      BY <1>6, <3>1, <3>2 DEF Fits, h
    <3>3. CASE \E k \in DOMAIN entries : i = Len(listed) + k /\ f[i] = entries[k]
      <4>1. PICK k \in DOMAIN entries : i = Len(listed) + k /\ f[i] = entries[k]
        BY <3>3
      <4>2. k < l
        BY <1>5, <1>8, <3>1, <4>1
      <4> QED
        BY <3>1, <4>1, <4>2 DEF Fits, Ordered
    <3> QED
      BY <1>3, <3>2, <3>3
  <2> QED
    BY <1>3, <2>1, <2>2
<1>9. ASSUME NEW i \in DOMAIN f, NEW k \in DOMAIN t, NEW q \in Cover(t[k])
      PROVE  Before(f[i].path, q)
  <2>1. CASE k \in DOMAIN queries /\ t[k] = queries[k]
    <3>1. q \in Cover(h)
      BY <1>9, <2>1 DEF Fits, h
    <3> QED
      BY <1>3, <1>6, <1>9, <2>1, <3>1 DEF Fits, Ordered
  <2>2. CASE \E j \in DOMAIN rest : k = Len(queries) + j /\ t[k] = rest[j]
    <3>1. PICK j \in DOMAIN rest : t[k] = rest[j]
      BY <2>2
    <3>2. \A m \in DOMAIN listed : Before(listed[m].path, q)
      BY <1>2, <1>9, <3>1 DEF Ordered
    <3>3. \A m \in DOMAIN entries : Before(entries[m].path, q)
      BY <1>7, <1>9, <3>1 DEF Fits, h
    <3> QED
      BY <1>3, <3>2, <3>3
  <2> QED
    BY <1>4, <2>1, <2>2
<1>10. ASSUME NEW k \in DOMAIN t, NEW l \in DOMAIN t, k < l,
              NEW p \in Cover(t[k]), NEW q \in Cover(t[l])
       PROVE  Before(p, q)
  <2>1. CASE l \in DOMAIN queries /\ t[l] = queries[l]
    <3>1. k \in DOMAIN queries /\ t[k] = queries[k]
      BY <1>4, <1>5, <1>10, <2>1
    <3> QED
      BY <1>10, <2>1, <3>1 DEF Fits, Ordered
  <2>2. CASE \E j \in DOMAIN rest : l = Len(queries) + j /\ t[l] = rest[j]
    <3>1. PICK j \in DOMAIN rest : l = Len(queries) + j /\ t[l] = rest[j]
      BY <2>2
    <3>2. CASE k \in DOMAIN queries /\ t[k] = queries[k]
      BY <1>7, <1>10, <3>1, <3>2 DEF Fits, h
    <3>3. CASE \E i \in DOMAIN rest : k = Len(queries) + i /\ t[k] = rest[i]
      <4>1. PICK i \in DOMAIN rest : k = Len(queries) + i /\ t[k] = rest[i]
        BY <3>3
      <4>2. i + 1 < j + 1
        BY <1>5, <1>10, <3>1, <4>1
      <4> QED
        BY <1>2, <1>10, <3>1, <4>1, <4>2 DEF Ordered
    <3> QED
      BY <1>4, <3>2, <3>3
  <2> QED
    BY <1>4, <2>1, <2>2
<1> QED
  BY <1>8, <1>9, <1>10 DEF Ordered, f, t, rest

\* What was there, and is due, has been so for less of the call before.
LEMMA CallGoesOn ==
  ASSUME call' = call, past \subseteq past'
  PROVE  /\ IsWalk' = IsWalk
         /\ \A e : Was(e) => Was(e)'
         /\ \A a : AskOK(a) => AskOK(a)'
         /\ \A p : Due(p)' => Due(p)
<1>1. IsWalk' = IsWalk
  BY DEF IsWalk
<1>2. ASSUME NEW p PROVE Wanted(p)' <=> Wanted(p)
  BY DEF Wanted
<1>3. ASSUME NEW e, Was(e) PROVE Was(e)'
  BY <1>2, <1>3 DEF Was
<1>4. ASSUME NEW a, AskOK(a) PROVE AskOK(a)'
  BY <1>2, <1>3, <1>4 DEF AskOK
<1>5. ASSUME NEW p, Due(p)' PROVE Due(p)
  BY <1>2, <1>5 DEF Due
<1> QED
  BY <1>1, <1>3, <1>4, <1>5

\* What a query gives: asks and entries in its place that were wanted and leave
\* out nothing that is due.
Takes(queries, entries) ==
  /\ queries \in Seq(Asks) /\ IsList(entries)
  /\ \A k \in DOMAIN queries : AskOK(queries[k])
  /\ \A i \in DOMAIN entries : Was(entries[i])
  /\ Fits(Head(todo), queries, entries)
  /\ \A p \in AnyPath \intersect Cover(Head(todo)) : Due(p) =>
       \/ \E i \in DOMAIN entries : entries[i].path = p
       \/ \E k \in DOMAIN queries : p \in Cover(queries[k])

LEMMA ListJoins == ASSUME NEW s, NEW t, IsList(s), IsList(t) PROVE IsList(s \o t)
<1>1. PICK A : s \in Seq(A)
  BY DEF IsList
<1>2. PICK B : t \in Seq(B)
  BY DEF IsList
<1>3. s \in Seq(A \union B) /\ t \in Seq(A \union B)
  BY <1>1, <1>2
<1> QED
  BY <1>3, Concat DEF IsList

Moves(queries, entries) ==
  /\ todo' = queries \o Tail(todo) /\ found' = found \o entries
  /\ UNCHANGED <<world, call, pc, outcome, past, changes>>

LEMMA TakenKeeps ==
  ASSUME IInv, pc = "walking", todo # <<>>,
         NEW queries, NEW entries, Takes(queries, entries), Moves(queries, entries)
  PROVE  IInv'
<1> DEFINE rest == Tail(todo)
<1>1. /\ todo' = queries \o rest /\ found' = found \o entries
      /\ UNCHANGED <<world, call, pc, outcome, past, changes>>
  BY DEF Moves
<1>2. IsWalk /\ outcome = "none" /\ todo \in Seq(Asks) /\ queries \in Seq(Asks)
  BY DEF IInv, WalkInv, Takes
<1>3. /\ Head(todo) \in Asks /\ rest \in Seq(Asks) /\ 1 \in DOMAIN todo /\ todo[1] = Head(todo)
      /\ \A k \in DOMAIN rest : rest[k] = todo[k + 1] /\ k + 1 \in DOMAIN todo
      /\ \A k \in DOMAIN todo : k = 1 \/ (k - 1 \in DOMAIN rest /\ rest[k - 1] = todo[k])
  BY <1>2, TailIs
<1>4. IsList(found) /\ IsList(entries)
  BY <1>2 DEF IInv, WalkInv, Takes
<1>5. Ordered(found', todo')
  BY <1>1, <1>2, <1>4, StaysOrdered DEF IInv, WalkInv, Takes
<1> HIDE DEF rest
<1>6. todo' \in Seq(Asks)
  BY <1>1, <1>2, <1>3, Concat
<1>7. IsList(found')
  BY <1>1, <1>4, ListJoins
<1>8. /\ \A k \in DOMAIN queries : k \in DOMAIN todo' /\ todo'[k] = queries[k]
      /\ \A k \in DOMAIN rest : Len(queries) + k \in DOMAIN todo' /\ todo'[Len(queries) + k] = rest[k]
      /\ \A k \in DOMAIN todo' : \/ k \in DOMAIN queries /\ todo'[k] = queries[k]
                                 \/ \E j \in DOMAIN rest : todo'[k] = rest[j]
  <2>1. PICK R : queries \in Seq(R) /\ rest \in Seq(R)
    BY <1>2, <1>3
  <2> QED
    BY <1>1, <2>1, Concat
<1>9. /\ \A i \in DOMAIN found : i \in DOMAIN found' /\ found'[i] = found[i]
      /\ \A i \in DOMAIN entries : \E j \in DOMAIN found' : found'[j] = entries[i]
      /\ \A i \in DOMAIN found' : \/ i \in DOMAIN found /\ found'[i] = found[i]
                                  \/ \E j \in DOMAIN entries : found'[i] = entries[j]
  <2>1. PICK A : found \in Seq(A)
    BY <1>4 DEF IsList
  <2>2. PICK B : entries \in Seq(B)
    BY <1>4 DEF IsList
  <2>3. found \in Seq(A \union B) /\ entries \in Seq(A \union B)
    BY <2>1, <2>2
  <2>4. found' \in Seq(A \union B)
    BY <1>1, <2>3, Concat
  <2>5. /\ Len(found) \in Nat /\ Len(entries) \in Nat
        /\ DOMAIN found = 1..Len(found) /\ DOMAIN entries = 1..Len(entries)
        /\ DOMAIN found' = 1..(Len(found) + Len(entries))
        /\ \A i \in 1..Len(found) : found'[i] = found[i]
        /\ \A i \in 1..Len(entries) : found'[Len(found) + i] = entries[i]
        /\ \A i \in DOMAIN found' : i \in 1..Len(found) \/ \E j \in 1..Len(entries) : i = Len(found) + j
    BY <1>1, <2>3, Concat
  <2>6. \A i \in DOMAIN found : i \in DOMAIN found' /\ found'[i] = found[i]
    BY <2>5
  <2>7. \A i \in DOMAIN entries : Len(found) + i \in DOMAIN found' /\ found'[Len(found) + i] = entries[i]
    BY <2>5
  <2> QED
    BY <2>5, <2>6, <2>7
<1>10. /\ \A e : Was(e) => Was(e)'
       /\ \A a : AskOK(a) => AskOK(a)'
       /\ \A p : Due(p)' => Due(p)
  BY <1>1, CallGoesOn
<1>11. ASSUME NEW k \in DOMAIN todo' PROVE AskOK(todo[k])'
  <2>1. CASE k \in DOMAIN queries /\ todo'[k] = queries[k]
    BY <1>10, <2>1 DEF Takes
  <2>2. CASE \E j \in DOMAIN rest : todo'[k] = rest[j]
    BY <1>2, <1>3, <1>10, <2>2 DEF IInv, WalkInv
  <2> QED
    BY <1>8, <2>1, <2>2
<1>12. ASSUME NEW i \in DOMAIN found' PROVE Was(found[i])'
  BY <1>2, <1>9, <1>10 DEF IInv, WalkInv, Takes
<1>13. ASSUME NEW p \in AnyPath, Due(p)' PROVE Reached(p)'
  <2>1. Due(p) /\ Reached(p)
    BY <1>2, <1>10, <1>13 DEF IInv, WalkInv, Complete
  <2>2. CASE Listed(p)
    BY <1>9, <2>2 DEF Listed, Reached
  <2>3. CASE p \in Cover(Head(todo))
    <3>1. CASE \E i \in DOMAIN entries : entries[i].path = p
      BY <1>9, <3>1 DEF Listed, Reached
    <3>2. CASE \E k \in DOMAIN queries : p \in Cover(queries[k])
      BY <1>8, <3>2 DEF Reached, Cover, Begins, Agree
    <3> QED
      BY <2>1, <2>3, <3>1, <3>2 DEF Takes
  <2>4. CASE \E k \in DOMAIN todo : k # 1 /\ p \in Cover(todo[k])
    <3>1. PICK k \in DOMAIN rest : p \in Cover(rest[k])
      BY <1>3, <2>4
    <3> QED
      BY <1>8, <3>1 DEF Reached, Cover, Begins, Agree
  <2> QED
    BY <1>3, <2>1, <2>2, <2>3, <2>4 DEF Reached
<1>14. TypeOK'
  BY <1>1, <1>2 DEF IInv, TypeOK, IsWorld
<1> QED
  BY <1>1, <1>2, <1>5, <1>6, <1>7, <1>11, <1>12, <1>13, <1>14, CallGoesOn
     DEF IInv, WalkInv, Complete

LEMMA GoKeeps ==
  ASSUME IInv, pc = "walking", todo # <<>>,
         NEW queries, NEW entries, Takes(queries, entries), Go(queries, entries)
  PROVE  IInv'
BY TakenKeeps DEF Go, Moves

\* Within a schema its tables' keys and columns are asked for.
Inside == Loads \union {"columns"}

\* A step above that: of no table does it ask for the columns, or leave them out.
Above(queries, entries) ==
  /\ \A k \in DOMAIN queries : queries[k].kind \notin Inside
  /\ \A i \in DOMAIN entries : Len(entries[i].path) = 3 => ~IncludeColumns

Outer ==
  /\ pc = "walking" /\ todo # <<>> /\ Head(todo).kind \notin Inside
  /\ \E queries, entries : Takes(queries, entries) /\ Go(queries, entries) /\ Above(queries, entries)

LEMMA OuterKeeps == IInv /\ Outer => IInv'
BY GoKeeps DEF Outer

LEMMA EachKind ==
  ASSUME NEW kind, kind \notin Inside, NEW paths, NEW k \in DOMAIN Each(kind, paths)
  PROVE  Each(kind, paths)[k].kind \notin Inside
BY DEF Each, Ask
----------------------------------------------------------------------------
(***************************************************************************)
(* What each query gives.                                                  *)
(***************************************************************************)
LEMMA Depths ==
  /\ Depth("catalogs") = 0 /\ Depth("catalog") = 1 /\ Depth("schemas") = 1
  /\ Depth("schema") = 2 /\ Depth("tables") = 2
  /\ Depth("primary keys") = 2 /\ Depth("foreign keys") = 2
  /\ Depth("columns") = 3
BY DEF Depth, Loads

LEMMA NextAsk ==
  ASSUME IInv, NEW kind, IsNext(kind)
  PROVE  /\ pc = "walking" /\ todo # <<>> /\ IsWalk
         /\ Head(todo) \in Asks /\ Head(todo).kind = kind /\ Head(todo).path \in Seq(Int)
         /\ AskOK(Head(todo)) /\ Len(Head(todo).path) = Depth(kind) /\ Wanted(Head(todo).path)
         /\ IsWorld(world) /\ world \in past
         /\ Levels[call.depth] \in 1..3
<1>1. pc = "walking" /\ todo # <<>> /\ Head(todo).kind = kind
  BY DEF IsNext
<1>2. IsWalk /\ todo \in Seq(Asks)
  BY <1>1 DEF IInv, WalkInv
<1>3. Head(todo) \in Asks /\ 1 \in DOMAIN todo /\ todo[1] = Head(todo)
  BY <1>1, <1>2, TailIs
<1>4. AskOK(Head(todo))
  BY <1>2, <1>3 DEF IInv, WalkInv
<1>5. call.depth \in DOMAIN Levels
  BY <1>2, CallsAssumption DEF IInv, TypeOK, IsWalk
<1>6. Levels[call.depth] \in 1..3
  BY <1>5 DEF Levels
<1>8. Len(Head(todo).path) = Depth(kind) /\ Wanted(Head(todo).path)
  BY <1>1, <1>4 DEF AskOK
<1>7. Head(todo).path \in Seq(Int)
  BY <1>3 DEF Asks
<1> QED
  BY <1>1, <1>2, <1>3, <1>4, <1>6, <1>7, <1>8 DEF IInv, TypeOK

LEMMA WantedBranch ==
  ASSUME NEW path \in Seq(Int), NEW x \in Int, Wanted(path), Levels[call.depth] \in 1..3,
         Len(path) < Levels[call.depth],
         Passes(<<call.catalog, call.schema, call.name>>[Len(path) + 1], x)
  PROVE  Wanted(Append(path, x))
<1> DEFINE b == Append(path, x)
           n == Len(path)
<1>1. n \in Nat /\ n + 1 <= Levels[call.depth] /\ Len(b) = n + 1 /\ DOMAIN b = 1..(n + 1)
  OBVIOUS
<1>2. DOMAIN path = 1..n /\ b[n + 1] = x /\ \A k \in 1..n : b[k] = path[k]
  OBVIOUS
<1> HIDE DEF b, n
<1>3. ASSUME NEW k \in DOMAIN b
      PROVE  Passes(<<call.catalog, call.schema, call.name>>[k], b[k])
  <2>1. CASE k = n + 1
    BY <1>2, <2>1 DEF n
  <2>2. CASE k # n + 1
    <3>1. k \in DOMAIN path /\ b[k] = path[k]
      BY <1>1, <1>2, <1>3, <2>2
    <3> QED
      BY <3>1 DEF Wanted
  <2> QED
    BY <2>1, <2>2
<1>4. Wanted(b)
  BY <1>1, <1>3 DEF Wanted
<1> QED
  BY <1>4 DEF b

\* What is there has a schema that is there, and a catalog.
LEMMA HasParents ==
  ASSUME IsWorld(world), NEW p \in AnyPath, Exists(world, p)
  PROVE  /\ \E q \in world.places : q[1] = p[1]
         /\ Len(p) > 1 => <<p[1], p[2]>> \in world.places
         /\ Len(p) = 3 => p \in DOMAIN world.tables
<1>1. p \in Seq(Int) /\ Len(p) \in 1..3
  BY AnyPathIsSeq
<1>2. CASE Len(p) = 1
  BY <1>1, <1>2 DEF Exists
<1>3. CASE Len(p) = 2
  <2>1. p \in world.places
    BY <1>1, <1>3 DEF Exists
  <2>2. p = <<p[1], p[2]>>
    BY <1>1, <1>3
  <2> QED
    BY <1>3, <2>1, <2>2
<1>4. CASE Len(p) = 3
  <2>1. p \in DOMAIN world.tables
    BY <1>1, <1>4 DEF Exists
  <2>2. <<p[1], p[2]>> \in world.places
    BY <2>1 DEF IsWorld
  <2> QED
    BY <1>4, <2>1, <2>2
<1> QED
  BY <1>1, <1>2, <1>3, <1>4

\* S names what is due below the path of an ask, as far as its next part goes.
NamesDue(S) ==
  \A p \in AnyPath \intersect Cover(Head(todo)) : Due(p) => p[Len(Head(todo).path) + 1] \in S

LEMMA BranchesFit ==
  ASSUME NEW a \in Asks, a.kind \in Lists, NEW rows \in Seq(Int), Increasing(rows),
         NEW asks \in Seq(Asks), DOMAIN asks = DOMAIN rows,
         \A i \in DOMAIN rows : asks[i].path = Append(a.path, rows[i]) /\ asks[i].kind \in Enters
  PROVE  /\ Fits(a, asks, <<>>)
         /\ \A p \in Cover(a), i \in DOMAIN rows : p[Len(a.path) + 1] = rows[i] => p \in Cover(asks[i])
<1>1. a.path \in Seq(Int)
  BY DEF Asks
<1>2. ASSUME NEW i \in DOMAIN rows, NEW p \in Seq(Int)
      PROVE  /\ p \in Cover(asks[i]) <=> Begins(Append(a.path, rows[i]), p)
             /\ p \in Cover(a) <=> Begins(a.path, p) /\ Len(a.path) < Len(p)
  BY <1>2 DEF Cover, Lists, Enters
<1>3. \A i \in DOMAIN rows : rows[i] \in Int /\ i \in Nat
  OBVIOUS
<1>4. ASSUME NEW i \in DOMAIN rows, NEW p \in Cover(asks[i])
      PROVE  p \in Cover(a)
  <2>1. p \in Seq(Int)
    BY DEF Cover
  <2> QED
    BY <1>1, <1>2, <1>3, <2>1, AppendBegins
<1>5. ASSUME NEW i \in DOMAIN rows, NEW j \in DOMAIN rows, i < j,
             NEW p \in Cover(asks[i]), NEW q \in Cover(asks[j])
      PROVE  Before(p, q)
  <2>1. p \in Seq(Int) /\ q \in Seq(Int)
    BY DEF Cover
  <2>2. Begins(Append(a.path, rows[i]), p) /\ Begins(Append(a.path, rows[j]), q)
    BY <1>2, <2>1
  <2>3. rows[i] < rows[j]
    BY <1>5 DEF Increasing
  <2> QED
    BY <1>1, <1>3, <2>1, <2>2, <2>3, BranchesInOrder
<1>6. Fits(a, asks, <<>>)
  <2>1. \A i \in DOMAIN <<>> : FALSE
    OBVIOUS
  <2>2. Ordered(<<>>, asks)
    BY <1>5, <2>1 DEF Ordered
  <2> QED
    BY <1>4, <2>1, <2>2 DEF Fits
<1>7. ASSUME NEW p \in Cover(a), NEW i \in DOMAIN rows, p[Len(a.path) + 1] = rows[i]
      PROVE  p \in Cover(asks[i])
  <2>1. p \in Seq(Int)
    BY DEF Cover
  <2> QED
    BY <1>1, <1>2, <1>3, <1>7, <2>1, AppendBegins
<1> QED
  BY <1>6, <1>7

LEMMA NoList == IsList(<<>>) /\ <<>> \in Seq(Asks) /\ Len(<<>>) = 0 /\ (\A i \in DOMAIN <<>> : FALSE)
<1>1. <<>> \in Seq(Int)
  OBVIOUS
<1> QED
  BY <1>1 DEF IsList

\* One ask for each name.
LEMMA BranchesTake ==
  ASSUME IInv, NEW kind \in Lists, IsNext(kind),
         NEW S, S \subseteq Int, IsFiniteSet(S), NamesDue(S), NEW rows \in Listing(S),
         NEW asks \in Seq(Asks), DOMAIN asks = DOMAIN rows,
         \A i \in DOMAIN rows : /\ asks[i].path = Append(Head(todo).path, rows[i])
                                /\ asks[i].kind \in Enters
                                /\ Depth(asks[i].kind) = Len(Head(todo).path) + 1
                                /\ Was(asks[i])
  PROVE  Takes(asks, <<>>)
<1> DEFINE h == Head(todo)
<1>1. h \in Asks /\ h.kind \in Lists /\ h.path \in Seq(Int)
  BY NextAsk
<1>2. /\ rows \in Seq(S) /\ rows \in Seq(Int) /\ Increasing(rows)
      /\ \A v \in S : \E i \in DOMAIN rows : rows[i] = v
  BY ListsAll, ZenonT(40)
<1>3. \A i \in DOMAIN rows : rows[i] \in Int
  BY <1>2
<1> HIDE DEF h
<1>4. /\ Fits(h, asks, <<>>)
      /\ \A p \in Cover(h), i \in DOMAIN rows : p[Len(h.path) + 1] = rows[i] => p \in Cover(asks[i])
  BY <1>1, <1>2, BranchesFit DEF h
<1>5. ASSUME NEW k \in DOMAIN asks PROVE AskOK(asks[k])
  <2>1. /\ asks[k].path = Append(h.path, rows[k]) /\ asks[k].kind \in Enters
        /\ Depth(asks[k].kind) = Len(h.path) + 1 /\ Was(asks[k])
    BY DEF h
  <2>2. Len(asks[k].path) = Len(h.path) + 1
    BY <1>1, <1>3, <2>1
  <2>3. asks[k].kind \notin Lists
    BY <2>1 DEF Lists, Enters
  <2>4. Wanted(asks[k].path)
    BY <2>1 DEF Was
  <2> QED
    BY <2>1, <2>2, <2>3, <2>4 DEF AskOK
<1>6. ASSUME NEW p \in AnyPath \intersect Cover(h), Due(p)
      PROVE  \E k \in DOMAIN asks : p \in Cover(asks[k])
  <2>1. p[Len(h.path) + 1] \in S
    BY <1>6 DEF NamesDue, h
  <2> QED
    BY <1>2, <1>4, <2>1
<1> QED
  BY <1>4, <1>5, <1>6, NoList DEF Takes, h

\* Or its entry at once, where nothing lies below it.
LEMMA LeavesTake ==
  ASSUME IInv, IsNext("tables"),
         NEW S, S \subseteq Int, IsFiniteSet(S), NamesDue(S), NEW rows \in Listing(S),
         NEW entries, IsList(entries), DOMAIN entries = DOMAIN rows,
         \A i \in DOMAIN rows : entries[i].path = Append(Head(todo).path, rows[i]) /\ Was(entries[i])
  PROVE  Takes(<<>>, entries)
<1> DEFINE h == Head(todo)
           place == h.path
           b(i) == Append(place, rows[i])
<1>1. /\ h \in Asks /\ h.kind = "tables" /\ place \in Seq(Int) /\ Len(place) = 2 /\ place = h.path
      /\ Levels[call.depth] \in 1..3
  BY NextAsk, Depths
<1>2. /\ rows \in Seq(S) /\ rows \in Seq(Int) /\ Increasing(rows)
      /\ \A v \in S : \E i \in DOMAIN rows : rows[i] = v
  BY ListsAll, ZenonT(40)
<1>3. \A i \in DOMAIN rows : rows[i] \in Int
  BY <1>2
<1>4. \A i \in DOMAIN rows : entries[i].path = b(i) /\ Was(entries[i])
  OBVIOUS
<1> HIDE DEF h, place
<1>5. ASSUME NEW i \in DOMAIN rows
      PROVE  /\ b(i) \in Seq(Int) /\ Len(b(i)) = 3 /\ b(i)[3] = rows[i]
             /\ \A k \in 1..2 : b(i)[k] = place[k]
  <2>1. /\ b(i) \in Seq(Int) /\ Len(b(i)) = Len(place) + 1 /\ b(i)[Len(place) + 1] = rows[i]
        /\ \A k \in 1..Len(place) : b(i)[k] = place[k]
    <3>1. PICK q \in Seq(Int), x \in Int : q = place /\ x = rows[i]
      BY <1>1, <1>3
    <3>2. /\ Append(q, x) \in Seq(Int) /\ Len(Append(q, x)) = Len(q) + 1 /\ Append(q, x)[Len(q) + 1] = x
          /\ \A k \in 1..Len(q) : Append(q, x)[k] = q[k]
      BY AppendIs, SMTT(30)
    <3> QED
      BY <3>1, <3>2, SMTT(30)
  <2> HIDE DEF b
  <2>2. Len(place) + 1 = 3 /\ Len(place) = 2
    BY <1>1
  <2> QED
    BY <2>1, <2>2, Zenon
<1>6. \A i \in DOMAIN rows : Begins(b(i), b(i))
  BY <1>5, BeginsItself
<1>7. ASSUME NEW i \in DOMAIN rows PROVE entries[i].path \in Cover(h)
  <2>1. Begins(place, b(i)) /\ Len(place) < Len(b(i))
    <3>1. b(i) \in Seq(Int) /\ Begins(Append(place, rows[i]), b(i))
      BY <1>5, <1>6
    <3> HIDE DEF b
    <3> QED
      BY <1>1, <1>3, <3>1, AppendBegins, SMTT(30)
  <2> QED
    BY <1>1, <1>4, <1>5, <2>1 DEF Cover, Lists
<1>8. ASSUME NEW i \in DOMAIN rows, NEW j \in DOMAIN rows, i < j
      PROVE  Before(entries[i].path, entries[j].path)
  <2>1. rows[i] < rows[j]
    BY <1>2, <1>8 DEF Increasing
  <2>2. Before(b(i), b(j))
    BY <1>1, <1>3, <1>5, <1>6, <2>1, BranchesInOrder
  <2> QED
    BY <1>4, <2>2
<1>9. Fits(h, <<>>, entries)
  <2>1. Ordered(entries, <<>>)
    BY <1>8, NoList DEF Ordered
  <2> QED
    BY <1>7, <2>1, NoList DEF Fits
<1>10. ASSUME NEW p \in AnyPath \intersect Cover(h), Due(p)
       PROVE  \E i \in DOMAIN entries : entries[i].path = p
  <2>1. p[3] \in S
    <3>1. p[Len(place) + 1] \in S
      BY <1>10 DEF NamesDue, h, place
    <3>2. Len(place) + 1 = 3
      BY <1>1
    <3> QED
      BY <3>1, <3>2
  <2>2. PICK i \in DOMAIN rows : rows[i] = p[3]
    BY <1>2, <2>1
  <2>3. p \in Seq(Int) /\ Len(p) = 3 /\ \A k \in 1..2 : p[k] = place[k]
    <3>1. p \in Seq(Int) /\ Len(p) \in 1..3
      BY <1>10, AnyPathIsSeq
    <3>2. Len(place) < Len(p) /\ Agree(place, p, Len(place))
      BY <1>1, <1>10 DEF Cover, Begins, Lists
    <3> QED
      <4>1. Len(p) = 3
        <5>1. 2 < Len(p)
          BY <1>1, <3>2, Zenon
        <5>2. \A n \in 1..3 : 2 < n => n = 3
          OBVIOUS
        <5> QED
          BY <3>1, <5>1, <5>2, Zenon
      <4>2. Agree(place, p, 2)
        BY <1>1, <3>2, Zenon
      <4> QED
        BY <3>1, <4>1, <4>2 DEF Agree
  <2>4. \A k \in 1..3 : p[k] = b(i)[k]
    BY <1>5, <2>2, <2>3
  <2>5. p = b(i)
    <3>1. b(i) \in Seq(Int) /\ Len(b(i)) = 3
      BY <1>5
    <3> HIDE DEF b
    <3>2. p = [k \in 1..3 |-> p[k]] /\ b(i) = [k \in 1..3 |-> b(i)[k]]
      BY <2>3, <3>1
    <3> QED
      BY <2>4, <3>2
  <2> QED
    BY <1>4, <2>5
<1> QED
  BY <1>4, <1>9, <1>10, NoList DEF Takes, h

LEMMA LoadIs ==
  ASSUME NEW place \in Seq(Int), Len(place) = 2, Wanted(place), NEW kind \in Loads
  PROVE  Ask(kind, place) \in Asks /\ AskOK(Ask(kind, place)) /\ Cover(Ask(kind, place)) = {}
<1> DEFINE a == Ask(kind, place)
<1>1. a.path = place /\ a.kind = kind /\ a \in Asks
  BY DEF Ask, Asks
<1> HIDE DEF a
<1>2. a.kind \notin Lists \union Enters /\ Depth(a.kind) = 2
  BY <1>1 DEF Loads, Lists, Enters, Depth
<1>3. AskOK(a) /\ Cover(a) = {}
  BY <1>1, <1>2 DEF AskOK, Cover
<1> QED
  BY <1>1, <1>3 DEF a

\* The queries for the keys enter nothing.
LEMMA LoadsFirst ==
  ASSUME IInv, IsNext("tables"), NEW asks \in Seq(Asks), Takes(asks, <<>>)
  PROVE  Takes(<<Ask("primary keys", Head(todo).path), Ask("foreign keys", Head(todo).path)>> \o asks, <<>>)
<1> DEFINE h == Head(todo)
           place == h.path
           primary == Ask("primary keys", place)
           foreign == Ask("foreign keys", place)
           keys2 == <<primary, foreign>>
           all == keys2 \o asks
<1>1. place \in Seq(Int) /\ Len(place) = 2 /\ Wanted(place)
  BY NextAsk, Depths
<1> HIDE DEF h, place
<1>2. /\ primary \in Asks /\ AskOK(primary) /\ Cover(primary) = {}
      /\ foreign \in Asks /\ AskOK(foreign) /\ Cover(foreign) = {}
  BY <1>1, LoadIs DEF Loads
<1> HIDE DEF primary, foreign
<1>3. keys2 \in Seq(Asks) /\ Len(keys2) = 2 /\ keys2[1] = primary /\ keys2[2] = foreign
  BY <1>2, PairIs
<1> HIDE DEF keys2
<1>k. \A k \in 1..2 : AskOK(keys2[k]) /\ Cover(keys2[k]) = {}
  BY <1>2, <1>3
<1>4. /\ all \in Seq(Asks)
      /\ DOMAIN all = 1..(2 + Len(asks)) /\ DOMAIN asks = 1..Len(asks) /\ Len(asks) \in Nat
      /\ \A k \in 1..2 : all[k] = keys2[k]
      /\ \A k \in DOMAIN asks : all[2 + k] = asks[k]
      /\ \A k \in DOMAIN all : k \in 1..2 \/ \E j \in DOMAIN asks : k = 2 + j
  <2>1. PICK R : keys2 \in Seq(R) /\ asks \in Seq(R)
    BY <1>3
  <2>2. all \in Seq(Asks)
    BY <1>3, Concat
  <2>3. /\ Len(asks) \in Nat /\ DOMAIN asks = 1..Len(asks)
        /\ DOMAIN all = 1..(Len(keys2) + Len(asks))
        /\ \A k \in 1..Len(keys2) : all[k] = keys2[k]
        /\ \A k \in 1..Len(asks) : all[Len(keys2) + k] = asks[k]
        /\ \A k \in DOMAIN all : k \in 1..Len(keys2) \/ \E j \in 1..Len(asks) : k = Len(keys2) + j
    BY <2>1, Concat
  <2> QED
    BY <1>3, <2>2, <2>3, Zenon
<1> HIDE DEF all
<1>5. ASSUME NEW k \in DOMAIN all PROVE AskOK(all[k])
  BY <1>k, <1>4 DEF Takes
<1>6. ASSUME NEW k \in DOMAIN all, NEW p \in Cover(all[k])
      PROVE  \E j \in DOMAIN asks : k = 2 + j /\ p \in Cover(asks[j])
  <2>1. CASE k \in 1..2
    BY <1>k, <1>4, <1>6, <2>1
  <2> QED
    BY <1>4, <1>6, <2>1
<1>7. Ordered(<<>>, all)
  <2>1. ASSUME NEW k \in DOMAIN all, NEW l \in DOMAIN all, k < l,
               NEW p \in Cover(all[k]), NEW q \in Cover(all[l])
        PROVE  Before(p, q)
    <3>1. PICK i \in DOMAIN asks : k = 2 + i /\ p \in Cover(asks[i])
      BY <1>6
    <3>2. PICK j \in DOMAIN asks : l = 2 + j /\ q \in Cover(asks[j])
      BY <1>6
    <3>3. i < j
      BY <1>4, <2>1, <3>1, <3>2
    <3> QED
      BY <3>1, <3>2, <3>3 DEF Takes, Fits, Ordered
  <2> QED
    BY <2>1, NoList DEF Ordered
<1>8. Fits(h, all, <<>>)
  <2>1. \A k \in DOMAIN all : Cover(all[k]) \subseteq Cover(h)
    BY <1>6 DEF Takes, Fits, h
  <2> QED
    BY <1>7, <2>1, NoList DEF Fits
<1>9. ASSUME NEW p \in AnyPath \intersect Cover(h), Due(p)
      PROVE  \E k \in DOMAIN all : p \in Cover(all[k])
  <2>1. PICK j \in DOMAIN asks : p \in Cover(asks[j])
    BY <1>9, NoList DEF Takes, h
  <2>2. 2 + j \in DOMAIN all /\ all[2 + j] = asks[j]
    BY <1>4
  <2> QED
    BY <2>1, <2>2
<1> QED
  BY <1>4, <1>5, <1>8, <1>9, NoList DEF Takes, h, place, all, keys2, primary, foreign
----------------------------------------------------------------------------
(***************************************************************************)
(* The queries, one by one.                                                *)
(***************************************************************************)
LEMMA SortedIs ==
  ASSUME NEW S, S \subseteq Int, IsFiniteSet(S)
  PROVE  Sorted(S) \in Listing(S)
BY ListingExists DEF Sorted, Listing, Increasing

\* What is due was there just now.
LEMMA DueIsThere ==
  ASSUME world \in past, NEW p, Due(p)
  PROVE  Wanted(p) /\ Exists(world, p) /\ OfType(world, p, call.types)
BY DEF Due

LEMMA AskIs ==
  ASSUME NEW kind \in Lists \union Enters \union Loads, NEW place \in Seq(Int)
  PROVE  Ask(kind, place) \in Asks /\ Ask(kind, place).path = place /\ Ask(kind, place).kind = kind
BY DEF Ask, Asks

LEMMA ListingGoes ==
  ASSUME IInv, NEW kind \in {"catalogs", "schemas"}, IsNext(kind),
         NEW child \in {"catalog", "schema"}, Depth(child) = Depth(kind) + 1,
         NEW S, S \subseteq Int, IsFiniteSet(S), NamesDue(S),
         \A x \in S : Wanted(Append(Head(todo).path, x)) /\ Exists(world, Append(Head(todo).path, x))
  PROVE  Takes(Each(child, Under(Head(todo).path, Sorted(S))), <<>>)
<1> DEFINE place == Head(todo).path
           rows == Sorted(S)
           asks == Each(child, Under(place, rows))
<1>1. rows \in Listing(S)
  BY SortedIs
<1> HIDE DEF rows
<1>2. /\ rows \in Seq(S) /\ rows \in Seq(Int) /\ \A i \in DOMAIN rows : rows[i] \in S
      /\ DOMAIN rows = 1..Len(rows) /\ Len(rows) \in Nat
  <2>1. rows \in Seq(S) /\ rows \in Seq(Int)
    BY <1>1, ListsAll
  <2> QED
    BY <2>1
<1>3. place \in Seq(Int) /\ Len(place) = Depth(kind) /\ world \in past
  BY NextAsk
<1>4. Depth(kind) + 1 \in 1..2
  <2>1. Depth(kind) = 0 \/ Depth(kind) = 1
    BY Depths
  <2> QED
    BY <2>1
<1> HIDE DEF place
<1>5. ASSUME NEW i \in DOMAIN rows
      PROVE  /\ asks[i] = Ask(child, Append(place, rows[i]))
             /\ Append(place, rows[i]) \in Seq(Int) /\ Len(Append(place, rows[i])) = Depth(kind) + 1
  <2>1. rows[i] \in Int
    BY <1>2
  <2>2. Append(place, rows[i]) \in Seq(Int) /\ Len(Append(place, rows[i])) = Len(place) + 1
    BY <1>3, <2>1, AppendIs, Zenon
  <2>3. asks[i] = Ask(child, Append(place, rows[i]))
    BY DEF Each, Under
  <2> QED
    BY <1>3, <2>2, <2>3
<1>6. DOMAIN asks = DOMAIN rows
  BY DEF Each, Under
<1>7. asks = [i \in 1..Len(rows) |-> Ask(child, Append(place, rows[i]))]
  BY <1>2 DEF Each, Under
<1> HIDE DEF asks
<1>8. ASSUME NEW i \in DOMAIN rows
      PROVE  asks[i] \in Asks /\ asks[i].path = Append(place, rows[i]) /\ asks[i].kind = child
  <2>1. child \in Lists \union Enters \union Loads
    BY DEF Enters
  <2> QED
    <3> DEFINE b == Append(place, rows[i])
    <3>1. asks[i] = Ask(child, b) /\ b \in Seq(Int)
      BY <1>5
    <3> HIDE DEF b
    <3>2. Ask(child, b) \in Asks /\ Ask(child, b).path = b /\ Ask(child, b).kind = child
      BY <2>1, <3>1, AskIs
    <3>3. asks[i] \in Asks /\ asks[i].path = b /\ asks[i].kind = child
      BY <3>1, <3>2, Zenon
    <3> QED
      BY <3>3 DEF b
<1>9. asks \in Seq(Asks)
  BY <1>2, <1>7, <1>8
<1>10. ASSUME NEW i \in DOMAIN rows PROVE Was(asks[i])
  <2> DEFINE p == Append(place, rows[i])
  <2>1. Wanted(p) /\ Exists(world, p)
    BY <1>2 DEF place
  <2>2. Len(p) # 3
    BY <1>4, <1>5
  <2> HIDE DEF p
  <2>3. asks[i].path = p
    BY <1>8 DEF p
  <2> QED
    BY <1>3, <2>1, <2>2, <2>3 DEF Was, OfType
<1>11. \A i \in DOMAIN rows : /\ asks[i].path = Append(place, rows[i]) /\ asks[i].kind \in Enters
                              /\ Depth(asks[i].kind) = Len(place) + 1 /\ Was(asks[i])
  BY <1>3, <1>8, <1>10 DEF Enters
<1>12. kind \in Lists
  BY DEF Lists
<1>13. Takes(asks, <<>>)
  BY <1>1, <1>6, <1>9, <1>11, <1>12, BranchesTake DEF place
<1> QED
  BY <1>13 DEF asks, rows, place

LEMMA CatalogsGo == IInv /\ Catalogs => Outer
<1> SUFFICES ASSUME IInv, Catalogs PROVE Outer
  OBVIOUS
<1> DEFINE Q == {q \in world.places : Passes(call.catalog, q[1])}
           f == [p \in Q |-> p[1]]
           S == {p[1] : p \in Q}
<1>1. IsNext("catalogs")
  BY DEF Catalogs
<1>2. /\ pc = "walking" /\ todo # <<>> /\ Head(todo).path \in Seq(Int) /\ Len(Head(todo).path) = 0
      /\ IsWorld(world) /\ world \in past /\ Levels[call.depth] \in 1..3 /\ Wanted(Head(todo).path)
  BY <1>1, NextAsk, Depths
<1>3. Head(todo).path = <<>>
  BY <1>2
<1>4. \A p \in world.places : p[1] \in Int /\ p[2] \in Int
  BY <1>2 DEF IsWorld, Path
<1>5. S \subseteq Int
  BY <1>4
<1>6. IsFiniteSet(S)
  <2>1. IsFiniteSet(Q)
    BY <1>2, FS_Subset DEF IsWorld
  <2>2. DOMAIN f = Q /\ S = {f[p] : p \in Q}
    OBVIOUS
  <2> HIDE DEF f, S, Q
  <2> QED
    BY <2>1, <2>2, FiniteImage
<1>7. NamesDue(S)
  <2>1. ASSUME NEW p \in AnyPath, Due(p) PROVE p[1] \in S
    <3>1. Wanted(p) /\ Exists(world, p)
      BY <1>2, <2>1, DueIsThere
    <3>2. PICK q \in world.places : q[1] = p[1]
      BY <1>2, <3>1, HasParents
    <3>3. 1 \in DOMAIN p
      BY AnyPathIsSeq
    <3>4. Passes(call.catalog, p[1])
      BY <3>1, <3>3 DEF Wanted
    <3> QED
      BY <3>2, <3>4
  <2> HIDE DEF S
  <2> QED
    BY <1>2, <2>1 DEF NamesDue
<1>8. ASSUME NEW x \in S PROVE Wanted(Append(<<>>, x)) /\ Exists(world, Append(<<>>, x))
  <2>1. PICK q \in world.places : q[1] = x /\ Passes(call.catalog, x)
    OBVIOUS
  <2>2. x \in Int
    BY <1>5
  <2> HIDE DEF S
  <2>3. <<>> \in Seq(Int) /\ Len(<<>>) = 0
    OBVIOUS
  <2>4. Wanted(<<>>)
    BY <1>2, <1>3
  <2>5. Passes(<<call.catalog, call.schema, call.name>>[Len(<<>>) + 1], x)
    BY <2>1
  <2>0. Len(<<>>) < Levels[call.depth]
    BY <1>2
  <2>6. Wanted(Append(<<>>, x))
    BY <1>2, <2>0, <2>2, <2>3, <2>4, <2>5, WantedBranch
  <2>7. Len(Append(<<>>, x)) = 1 /\ Append(<<>>, x)[1] = x
    BY <2>2
  <2> QED
    BY <2>1, <2>6, <2>7 DEF Exists
<1>9. ListCatalogs(call.catalog) = Sorted(S)
  BY DEF ListCatalogs
<1> HIDE DEF S
<1>10. Takes(Each("catalog", Under(<<>>, Sorted(S))), <<>>)
  <2>1. \A x \in S : Wanted(Append(Head(todo).path, x)) /\ Exists(world, Append(Head(todo).path, x))
    BY <1>3, <1>8
  <2>2. Depth("catalog") = Depth("catalogs") + 1
    <3>1. 0 + 1 = 1
      OBVIOUS
    <3> QED
      BY <3>1, Depths, Zenon
  <2>3. Takes(Each("catalog", Under(Head(todo).path, Sorted(S))), <<>>)
    BY <1>1, <1>5, <1>6, <1>7, <2>1, <2>2, ListingGoes
  <2> QED
    BY <1>3, <2>3
<1>11. Go(Each("catalog", Under(<<>>, Sorted(S))), <<>>)
  BY <1>9 DEF Catalogs
<1>12. Above(Each("catalog", Under(<<>>, Sorted(S))), <<>>)
  BY EachKind, NoList DEF Above, Inside, Loads
<1>13. Head(todo).kind \notin Inside
  BY <1>1 DEF IsNext, Inside, Loads
<1> QED
  BY <1>2, <1>10, <1>11, <1>12, <1>13, Zenon DEF Outer

LEMMA SchemasGo == IInv /\ Schemas => Outer
<1> SUFFICES ASSUME IInv, Schemas PROVE Outer
  OBVIOUS
<1> DEFINE place == Head(todo).path
           Q == {q \in world.places : q[1] = place[1] /\ Passes(call.schema, q[2])}
           f == [p \in Q |-> p[2]]
           S == {p[2] : p \in Q}
<1>1. IsNext("schemas")
  BY DEF Schemas
<1>2. /\ pc = "walking" /\ todo # <<>> /\ place \in Seq(Int) /\ Len(place) = 1
      /\ IsWorld(world) /\ world \in past /\ Levels[call.depth] \in 1..3 /\ Wanted(place)
  BY <1>1, NextAsk, Depths
<1>3. Head(todo).kind = "schemas" /\ Len(place) < Levels[call.depth]
  BY <1>1, NextAsk DEF AskOK, Lists
<1> HIDE DEF place
<1>4. \A p \in world.places : p[1] \in Int /\ p[2] \in Int /\ Len(p) = 2 /\ p = <<p[1], p[2]>>
  BY <1>2 DEF IsWorld, Path
<1>5. S \subseteq Int
  BY <1>4
<1>6. IsFiniteSet(S)
  <2>1. IsFiniteSet(Q)
    BY <1>2, FS_Subset DEF IsWorld
  <2>2. DOMAIN f = Q /\ S = {f[p] : p \in Q}
    OBVIOUS
  <2> HIDE DEF f, S, Q
  <2> QED
    BY <2>1, <2>2, FiniteImage
<1>7. NamesDue(S)
  <2>1. ASSUME NEW p \in AnyPath \intersect Cover(Head(todo)), Due(p) PROVE p[2] \in S
    <3>1. Wanted(p) /\ Exists(world, p)
      BY <1>2, <2>1, DueIsThere
    <3>2. p \in Seq(Int) /\ Len(p) \in 1..3
      BY AnyPathIsSeq
    <3>3. Begins(place, p) /\ Len(place) < Len(p)
      BY <1>3, <2>1 DEF Cover, Lists, place
    <3>4. p[1] = place[1]
      BY <1>2, <3>3 DEF Begins, Agree
    <3>5. 2 \in DOMAIN p /\ Len(p) > 1
      BY <1>2, <3>2, <3>3
    <3>6. <<p[1], p[2]>> \in world.places
      BY <1>2, <3>1, <3>5, HasParents
    <3>7. Passes(call.schema, p[2])
      BY <3>1, <3>5 DEF Wanted
    <3>8. <<p[1], p[2]>> \in Q
      BY <3>4, <3>6, <3>7
    <3> QED
      BY <3>8
  <2>2. Len(place) + 1 = 2
    BY <1>2
  <2> HIDE DEF S
  <2> QED
    BY <2>1, <2>2 DEF NamesDue, place
<1>8. ASSUME NEW x \in S PROVE Wanted(Append(place, x)) /\ Exists(world, Append(place, x))
  <2>1. PICK q \in world.places : q[1] = place[1] /\ q[2] = x /\ Passes(call.schema, x)
    OBVIOUS
  <2>2. x \in Int
    BY <1>5
  <2> HIDE DEF S, Q
  <2>3. Passes(<<call.catalog, call.schema, call.name>>[Len(place) + 1], x)
    BY <1>2, <2>1
  <2>4. Wanted(Append(place, x))
    BY <1>2, <1>3, <2>2, <2>3, WantedBranch
  <2>5. Append(place, x) = q
    <3>1. place = <<q[1]>>
      BY <1>2, <2>1
    <3>2. q = <<q[1], x>>
      BY <1>4, <2>1
    <3> QED
      BY <3>1, <3>2
  <2>6. Len(q) = 2
    BY <1>4
  <2> QED
    BY <2>1, <2>4, <2>5, <2>6 DEF Exists
<1>9. ListDBSchemas(place[1], call.schema) = Sorted(S)
  BY DEF ListDBSchemas
<1> HIDE DEF S
<1>10. Takes(Each("schema", Under(place, Sorted(S))), <<>>)
  <2>1. \A x \in S : Wanted(Append(Head(todo).path, x)) /\ Exists(world, Append(Head(todo).path, x))
    BY <1>8 DEF place
  <2>2. Depth("schema") = Depth("schemas") + 1
    <3>1. 1 + 1 = 2
      OBVIOUS
    <3> QED
      BY <3>1, Depths, Zenon
  <2>3. Takes(Each("schema", Under(Head(todo).path, Sorted(S))), <<>>)
    BY <1>1, <1>5, <1>6, <1>7, <2>1, <2>2, ListingGoes
  <2> QED
    BY <2>3 DEF place
<1>11. Go(Each("schema", Under(place, Sorted(S))), <<>>)
  BY <1>9 DEF Schemas, place
<1>12. Above(Each("schema", Under(place, Sorted(S))), <<>>)
  BY EachKind, NoList DEF Above, Inside, Loads
<1>13. Head(todo).kind \notin Inside
  BY <1>1 DEF IsNext, Inside, Loads
<1> QED
  BY <1>2, <1>10, <1>11, <1>12, <1>13, Zenon DEF Outer

\* An entry is made, and behind it an ask for what lies below, unless nothing may.
LEMMA EntryGoes ==
  ASSUME IInv, NEW kind \in Enters, IsNext(kind),
         NEW entry, entry.path = Head(todo).path, Was(entry),
         NEW below \in {"schemas", "tables"},
         NEW asks \in {<<>>, <<Ask(below, Head(todo).path)>>},
         asks = <<>> \/ Depth(below) = Depth(kind),
         asks = <<>> <=> Len(Head(todo).path) = Levels[call.depth]
  PROVE  Takes(asks, <<entry>>)
<1> DEFINE h == Head(todo)
           place == h.path
           a == Ask(below, place)
<1>1. /\ h.kind \in Enters /\ h.kind \notin Lists /\ place \in Seq(Int) /\ Len(place) = Depth(kind)
      /\ Levels[call.depth] \in 1..3 /\ Wanted(place) /\ world \in past
  BY NextAsk DEF Lists, Enters
<1>2. place = h.path /\ place = entry.path
  OBVIOUS
<1>3. asks = <<>> \/ asks = <<a>>
  OBVIOUS
<1>4. asks = <<>> <=> Len(place) = Levels[call.depth]
  OBVIOUS
<1> HIDE DEF h, place
<1>5. a \in Asks /\ a.path = place /\ a.kind = below
  BY <1>1, AskIs DEF Lists
<1>6. below \in Lists /\ below \notin Enters
  BY DEF Lists, Enters
<1> HIDE DEF a
<1>7. asks \in Seq(Asks) /\ \A k \in DOMAIN asks : k = 1 /\ asks = <<a>> /\ asks[k] = a
  <2>1. <<>> \in Seq(Asks) /\ <<a>> \in Seq(Asks) /\ DOMAIN <<a>> = {1} /\ <<a>>[1] = a
    BY <1>5
  <2> QED
    BY <1>3, <2>1, NoList
<1>8. IsList(<<entry>>) /\ DOMAIN <<entry>> = {1} /\ <<entry>>[1] = entry
  <2>1. <<entry>> \in Seq({entry})
    OBVIOUS
  <2>2. DOMAIN <<entry>> = {1} /\ <<entry>>[1] = entry
    OBVIOUS
  <2> QED
    BY <2>1, <2>2 DEF IsList
<1>9. \A p \in Seq(Int) : /\ p \in Cover(h) <=> Begins(place, p)
                          /\ p \in Cover(a) <=> Begins(place, p) /\ Len(place) < Len(p)
  BY <1>1, <1>2, <1>5, <1>6 DEF Cover
<1>10. place \in Cover(h)
  BY <1>1, <1>9, BeginsItself
<1>11. \A p \in Cover(a) : p \in Cover(h) /\ Before(place, p)
  <2>1. \A p \in Cover(a) : p \in Seq(Int)
    BY DEF Cover
  <2> QED
    BY <1>1, <1>9, <2>1, AboveIsBefore
<1>12. Ordered(<<entry>>, asks)
  <2>1. \A i, j \in DOMAIN <<entry>> : ~(i < j)
    BY <1>8
  <2>2. \A k, l \in DOMAIN asks : ~(k < l)
    BY <1>7
  <2>3. \A i \in DOMAIN <<entry>>, k \in DOMAIN asks : \A q \in Cover(asks[k]) : Before(<<entry>>[i].path, q)
    BY <1>2, <1>7, <1>8, <1>11
  <2> QED
    BY <2>1, <2>2, <2>3 DEF Ordered
<1>13. Fits(h, asks, <<entry>>)
  BY <1>2, <1>7, <1>8, <1>10, <1>11, <1>12 DEF Fits
<1>14. ASSUME NEW k \in DOMAIN asks PROVE AskOK(asks[k])
  <2>1. asks[k] = a
    BY <1>7
  <2>2. Len(place) < Levels[call.depth]
    <3>1. Len(place) <= Levels[call.depth]
      BY <1>1 DEF Wanted
    <3>2. Len(place) # Levels[call.depth]
      BY <1>4, <1>7
    <3> QED
      BY <1>1, <3>1, <3>2
  <2> QED
    <3>1. Depth(below) = Depth(kind)
      BY <1>7
    <3> QED
      BY <1>1, <1>5, <1>6, <2>1, <2>2, <3>1 DEF AskOK
<1>15. ASSUME NEW p \in AnyPath \intersect Cover(h), Due(p)
       PROVE  entry.path = p \/ \E k \in DOMAIN asks : p \in Cover(asks[k])
  <2>1. p \in Seq(Int) /\ Len(p) \in Nat /\ Begins(place, p) /\ Wanted(p)
    BY <1>1, <1>9, <1>15, AnyPathIsSeq, DueIsThere
  <2>2. CASE Len(p) = Len(place)
    <3>1. p = place
      BY <1>1, <2>1, <2>2 DEF Begins, Agree
    <3> QED
      BY <1>2, <3>1
  <2>3. CASE Len(p) # Len(place)
    <3>1. Len(place) < Len(p)
      BY <1>1, <2>1, <2>3 DEF Begins
    <3>2. p \in Cover(a)
      BY <1>9, <2>1, <3>1
    <3>3. Len(p) <= Levels[call.depth]
      BY <2>1 DEF Wanted
    <3>4. asks # <<>>
      BY <1>1, <1>4, <2>1, <3>1, <3>3
    <3>5. asks = <<a>>
      BY <1>3, <3>4
    <3>6. 1 \in DOMAIN asks /\ asks[1] = a
      BY <3>5
    <3> QED
      BY <3>2, <3>6
  <2> QED
    BY <2>2, <2>3
<1> QED
  BY <1>7, <1>8, <1>13, <1>14, <1>15 DEF Takes, h, place

LEMMA OneAsk ==
  ASSUME NEW kind, NEW path, NEW asks \in {<<>>, <<Ask(kind, path)>>}, NEW k \in DOMAIN asks
  PROVE  asks[k].kind = kind
<1>1. \A a : DOMAIN <<a>> = {1} /\ <<a>>[1] = a
  OBVIOUS
<1>2. asks = <<Ask(kind, path)>>
  BY NoList
<1>3. asks[k] = Ask(kind, path)
  BY <1>1, <1>2
<1>4. Ask(kind, path).kind = kind
  BY DEF Ask
<1> QED
  BY <1>3, <1>4, Zenon

LEMMA CatalogGo == IInv /\ Catalog => Outer
<1> SUFFICES ASSUME IInv, Catalog PROVE Outer
  OBVIOUS
<1> DEFINE h == Head(todo)
           place == h.path
           asks == IF call.depth = "catalogs" THEN <<>> ELSE <<Ask("schemas", place)>>
           entry == Entry(place)
<1>1. IsNext("catalog") /\ Go(asks, <<entry>>)
  BY DEF Catalog
<1>2. /\ pc = "walking" /\ todo # <<>> /\ AskOK(h) /\ h.kind = "catalog"
      /\ Len(place) = 1 /\ call.depth \in DOMAIN Levels
  <2>1. IsWalk /\ call \in Calls
    BY <1>1, NextAsk DEF IInv, TypeOK
  <2>2. call.depth \in DOMAIN Levels
    BY <2>1, CallsAssumption DEF IsWalk
  <2> QED
    BY <1>1, <2>2, NextAsk, Depths
<1>3. entry.path = place
  BY DEF Entry
<1>4. Was(entry)
  <2>1. Was(h)
    BY <1>2 DEF AskOK, Enters
  <2>2. place = h.path /\ Len(place) # 3
    <3> HIDE DEF h
    <3> QED
      BY <1>2
  <2> HIDE DEF h, place, entry
  <2> QED
    BY <1>3, <2>1, <2>2 DEF Was, OfType
<1>5. asks = <<>> <=> Len(place) = Levels[call.depth]
  <2>1. Levels[call.depth] = 1 <=> call.depth = "catalogs"
    BY <1>2 DEF Levels
  <2>2. <<Ask("schemas", place)>> # <<>>
    OBVIOUS
  <2> QED
    BY <1>2, <2>1, <2>2
<1>6. asks \in {<<>>, <<Ask("schemas", Head(todo).path)>>}
  OBVIOUS
<1>7. "catalog" \in Enters /\ Depth("schemas") = Depth("catalog")
  BY Depths DEF Enters
<1>8. Takes(asks, <<entry>>)
  <2> HIDE DEF asks, entry
  <2> QED
    BY <1>1, <1>3, <1>4, <1>5, <1>6, <1>7, EntryGoes
<1>9. Above(asks, <<entry>>)
  <2>1. \A k \in DOMAIN asks : asks[k].kind = "schemas"
    <3> HIDE DEF asks, h, place
    <3> QED
      BY <1>6, OneAsk
  <2>2. \A i \in DOMAIN <<entry>> : Len(<<entry>>[i].path) # 3
    BY <1>2, <1>3, SMTT(30)
  <2> HIDE DEF asks, entry
  <2> QED
    BY <2>1, <2>2 DEF Above, Inside, Loads
<1>10. Head(todo).kind \notin Inside
  BY <1>1 DEF IsNext, Inside, Loads
<1> HIDE DEF asks, entry, h
<1> QED
  BY <1>1, <1>2, <1>8, <1>9, <1>10, Zenon DEF Outer

LEMMA SchemaGo == IInv /\ Schema => Outer
<1> SUFFICES ASSUME IInv, Schema PROVE Outer
  OBVIOUS
<1> DEFINE h == Head(todo)
           place == h.path
           asks == IF call.depth = "schemas" THEN <<>> ELSE <<Ask("tables", place)>>
           entry == Entry(place)
<1>1. IsNext("schema") /\ Go(asks, <<entry>>)
  BY DEF Schema
<1>2. /\ pc = "walking" /\ todo # <<>> /\ AskOK(h) /\ h.kind = "schema"
      /\ Len(place) = 2 /\ call.depth \in DOMAIN Levels
  <2>1. IsWalk /\ call \in Calls
    BY <1>1, NextAsk DEF IInv, TypeOK
  <2>2. call.depth \in DOMAIN Levels
    BY <2>1, CallsAssumption DEF IsWalk
  <2> QED
    BY <1>1, <2>2, NextAsk, Depths
<1>3. entry.path = place
  BY DEF Entry
<1>4. Was(entry)
  <2>1. Was(h)
    BY <1>2 DEF AskOK, Enters
  <2>2. place = h.path /\ Len(place) # 3
    <3> HIDE DEF h
    <3> QED
      BY <1>2
  <2> HIDE DEF h, place, entry
  <2> QED
    BY <1>3, <2>1, <2>2 DEF Was, OfType
<1>5. asks = <<>> <=> Len(place) = Levels[call.depth]
  <2>1. Levels[call.depth] = 2 <=> call.depth = "schemas"
    BY <1>2 DEF Levels
  <2>2. <<Ask("tables", place)>> # <<>>
    OBVIOUS
  <2> QED
    BY <1>2, <2>1, <2>2
<1>6. asks \in {<<>>, <<Ask("tables", Head(todo).path)>>}
  OBVIOUS
<1>7. "schema" \in Enters /\ Depth("tables") = Depth("schema")
  BY Depths DEF Enters
<1>8. Takes(asks, <<entry>>)
  <2> HIDE DEF asks, entry
  <2> QED
    BY <1>1, <1>3, <1>4, <1>5, <1>6, <1>7, EntryGoes
<1>9. Above(asks, <<entry>>)
  <2>1. \A k \in DOMAIN asks : asks[k].kind = "tables"
    <3> HIDE DEF asks, h, place
    <3> QED
      BY <1>6, OneAsk
  <2>2. \A i \in DOMAIN <<entry>> : Len(<<entry>>[i].path) # 3
    BY <1>2, <1>3, SMTT(30)
  <2> HIDE DEF asks, entry
  <2> QED
    BY <2>1, <2>2 DEF Above, Inside, Loads
<1>10. Head(todo).kind \notin Inside
  BY <1>1 DEF IsNext, Inside, Loads
<1> HIDE DEF asks, entry, h
<1> QED
  BY <1>1, <1>2, <1>8, <1>9, <1>10, Zenon DEF Outer

LEMMA RetypedAsk ==
  ASSUME NEW p, NEW x
  PROVE  [Ask("columns", p) EXCEPT !.type = x] = [kind |-> "columns", path |-> p, type |-> x]
<1>1. \A k, y : [[kind |-> k, path |-> p, type |-> y] EXCEPT !.type = x] = [kind |-> k, path |-> p, type |-> x]
  OBVIOUS
<1>2. Ask("columns", p) = [kind |-> "columns", path |-> p, type |-> ""]
  BY DEF Ask
<1> QED
  BY <1>1, <1>2

LEMMA RetypedEntry ==
  ASSUME NEW p, NEW x
  PROVE  [Entry(p) EXCEPT !.type = x] = [path |-> p, type |-> x, columns |-> <<>>, keys |-> {}]
<1>1. PICK y, d, l : y = "" /\ d = <<>> /\ l = {}
  OBVIOUS
<1>2. Entry(p) = [path |-> p, type |-> y, columns |-> d, keys |-> l]
  BY <1>1 DEF Entry
<1>3. [[path |-> p, type |-> y, columns |-> d, keys |-> l] EXCEPT !.type = x] =
      [path |-> p, type |-> x, columns |-> d, keys |-> l]
  OBVIOUS
<1> QED
  BY <1>1, <1>2, <1>3

\* The keys of the schema's tables, and then their columns, are asked for.
Descends ==
  /\ pc = "walking" /\ todo # <<>> /\ Head(todo).kind = "tables"
  /\ \E asks \in Seq(Asks) :
       LET path == Head(todo).path
           queries == <<Ask("primary keys", path), Ask("foreign keys", path)>> \o asks
       IN  /\ Takes(queries, <<>>) /\ Go(queries, <<>>)
           /\ \A k \in DOMAIN asks : asks[k].kind = "columns" /\ SameSchema(asks[k].path, path)

LEMMA DescendsKeeps == IInv /\ Descends => IInv'
BY GoKeeps DEF Descends

LEMMA TablesGo == IInv /\ Tables => Outer \/ Descends
<1> SUFFICES ASSUME IInv, Tables PROVE Outer \/ Descends
  OBVIOUS
<1> DEFINE place == Head(todo).path
           Q == {u \in TablesOf(place) : /\ Passes(call.name, u[3])
                                         /\ TypePasses(call.types, world.tables[u].type)}
           f == [t \in Q |-> t[3]]
           S == {t[3] : t \in Q}
           rows == Sorted(S)
           at(i) == Append(place, rows[i])
           paths == Under(place, rows)
           type(i) == world.tables[paths[i]].type
           asks == [i \in DOMAIN paths |-> [Ask("columns", paths[i]) EXCEPT !.type = type(i)]]
           entries == [i \in DOMAIN paths |-> [Entry(paths[i]) EXCEPT !.type = type(i)]]
           loads == <<Ask("primary keys", place), Ask("foreign keys", place)>>
<1>1. IsNext("tables")
  BY ZenonT(120) DEF Tables
<1>2. IF IncludeColumns THEN Go(loads \o asks, <<>>) ELSE Go(<<>>, entries)
  BY ZenonT(40) DEF Tables, QueryTableNames
<1>3. /\ pc = "walking" /\ todo # <<>> /\ place \in Seq(Int) /\ Len(place) = 2
      /\ IsWorld(world) /\ world \in past /\ Levels[call.depth] \in 1..3 /\ Wanted(place)
      /\ Head(todo).kind = "tables" /\ Len(place) < Levels[call.depth]
  <2>1. Head(todo).kind = "tables" /\ Len(place) < Levels[call.depth]
    BY <1>1, NextAsk DEF AskOK, Lists
  <2> QED
    BY <1>1, <2>1, NextAsk, Depths
<1> HIDE DEF place
<1>4. ASSUME NEW t \in DOMAIN world.tables
      PROVE  /\ t \in AnyPath /\ t[1] \in Int /\ t[2] \in Int /\ t[3] \in Int
             /\ Len(t) = 3 /\ t = <<t[1], t[2], t[3]>>
             /\ world.tables[t] \in Definitions
  <2>1. t \in [1..3 -> Int]
    BY <1>3 DEF IsWorld, Path
  <2>2. t \in AnyPath
    BY <2>1 DEF AnyPath, Path
  <2>3. t[1] \in Int /\ t[2] \in Int /\ t[3] \in Int /\ Len(t) = 3 /\ t = <<t[1], t[2], t[3]>>
    BY <2>1
  <2>4. world.tables[t] \in Definitions
    BY <1>3 DEF IsWorld
  <2> QED
    BY <2>2, <2>3, <2>4
<1>5. S \subseteq Int
  BY <1>4 DEF TablesOf
<1>6. IsFiniteSet(S)
  <2>1. IsFiniteSet(Q)
    BY <1>3, FS_Subset DEF IsWorld, TablesOf
  <2>2. DOMAIN f = Q /\ S = {f[t] : t \in Q}
    OBVIOUS
  <2> HIDE DEF f, S, Q
  <2> QED
    BY <2>1, <2>2, FiniteImage
<1>7. ASSUME NEW p \in AnyPath \intersect Cover(Head(todo)), Due(p) PROVE p[3] \in S
  <2>1. Exists(world, p) /\ OfType(world, p, call.types) /\ Wanted(p)
    BY <1>3, <1>7, DueIsThere
  <2>2. p \in Seq(Int) /\ Len(p) \in 1..3
    BY AnyPathIsSeq
  <2>3. Begins(place, p) /\ Len(place) < Len(p)
    BY <1>3, <1>7 DEF Cover, Lists, place
  <2>4. p[1] = place[1] /\ p[2] = place[2]
    BY <1>3, <2>3 DEF Begins, Agree
  <2>5. Len(p) = 3
    <3>1. \A m \in 1..3 : 2 < m => m = 3
      OBVIOUS
    <3>2. 2 < Len(p)
      BY <1>3, <2>3, Zenon
    <3> QED
      BY <2>2, <3>1, <3>2, Zenon
  <2>6. p \in DOMAIN world.tables
    BY <1>3, <2>1, <2>5, HasParents
  <2>7. TypePasses(call.types, world.tables[p].type)
    BY <2>1, <2>5 DEF OfType
  <2>8. Passes(call.name, p[3])
    BY <2>1, <2>2, <2>5 DEF Wanted
  <2>9. p \in Q
    BY <2>4, <2>6, <2>7, <2>8 DEF TablesOf
  <2> QED
    BY <2>9
<1>8. NamesDue(S)
  <2>1. Len(place) + 1 = 3
    BY <1>3
  <2> HIDE DEF S
  <2> QED
    BY <1>7, <2>1 DEF NamesDue, place
<1>9. ASSUME NEW x \in S
      PROVE  /\ Append(place, x) \in DOMAIN world.tables /\ Wanted(Append(place, x))
             /\ TypePasses(call.types, world.tables[Append(place, x)].type)
  <2>1. PICK t \in Q : t[3] = x
    OBVIOUS
  <2>2. /\ t \in DOMAIN world.tables /\ t[1] = place[1] /\ t[2] = place[2]
        /\ Passes(call.name, x) /\ TypePasses(call.types, world.tables[t].type)
    BY <2>1 DEF TablesOf
  <2>3. x \in Int
    BY <1>5
  <2> HIDE DEF S, Q
  <2>4. Append(place, x) = t
    <3>1. place = <<t[1], t[2]>>
      BY <1>3, <2>2
    <3>2. t = <<t[1], t[2], x>>
      BY <1>4, <2>1, <2>2
    <3> QED
      BY <3>1, <3>2
  <2>5. Passes(<<call.catalog, call.schema, call.name>>[Len(place) + 1], x)
    BY <1>3, <2>2
  <2>6. Wanted(Append(place, x))
    BY <1>3, <2>3, <2>5, WantedBranch
  <2> QED
    BY <2>2, <2>4, <2>6
<1>10. rows \in Listing(S)
  <2> HIDE DEF S
  <2> QED
    BY <1>5, <1>6, SortedIs
<1> HIDE DEF S, rows
<1>11. rows \in Seq(S) /\ DOMAIN rows = 1..Len(rows) /\ Len(rows) \in Nat /\ \A i \in DOMAIN rows : rows[i] \in S
  <2>1. rows \in Seq(S)
    BY <1>5, <1>6, <1>10, ListsAll
  <2> QED
    BY <2>1
<1>12. DOMAIN paths = DOMAIN rows /\ \A i \in DOMAIN rows : paths[i] = at(i)
  BY DEF Under
<1> HIDE DEF paths
<1>13. ASSUME NEW i \in DOMAIN rows
       PROVE  /\ at(i) \in Seq(Int) /\ Len(at(i)) = 3
              /\ at(i) \in DOMAIN world.tables /\ Wanted(at(i))
              /\ type(i) = world.tables[at(i)].type /\ type(i) \in {d.type : d \in Definitions}
              /\ TypePasses(call.types, type(i))
  <2>1. rows[i] \in S /\ rows[i] \in Int /\ paths[i] = at(i)
    BY <1>5, <1>11, <1>12
  <2>2. at(i) \in Seq(Int) /\ Len(at(i)) = Len(place) + 1
    BY <1>3, <2>1, AppendIs, ZenonT(120)
  <2>3. Len(at(i)) = 3
    <3>1. 2 + 1 = 3
      OBVIOUS
    <3> QED
      BY <1>3, <2>2, <3>1, Zenon
  <2>4. /\ at(i) \in DOMAIN world.tables /\ Wanted(at(i))
        /\ TypePasses(call.types, world.tables[at(i)].type)
    BY <1>9, <2>1
  <2>5. type(i) = world.tables[at(i)].type
    BY <2>1
  <2>6. world.tables[at(i)] \in Definitions
    BY <1>4, <2>4
  <2> HIDE DEF at, type
  <2> QED
    BY <2>2, <2>3, <2>4, <2>5, <2>6
<1> HIDE DEF type
<1>14. ASSUME NEW e, NEW i \in DOMAIN rows, e.path = at(i), e.type = type(i)
       PROVE  Was(e)
  <2> HIDE DEF at
  <2>1. Exists(world, at(i))
    <3>1. Len(at(i)) = 3 /\ at(i) \in DOMAIN world.tables
      BY <1>13
    <3> QED
      BY <3>1 DEF Exists
  <2> QED
    BY <1>3, <1>13, <1>14, <2>1 DEF Was, OfType
<1>15. CASE IncludeColumns
  <2>1. asks = [i \in 1..Len(rows) |-> [kind |-> "columns", path |-> at(i), type |-> type(i)]]
    <3> HIDE DEF at
    <3>2. asks = [i \in DOMAIN paths |-> [kind |-> "columns", path |-> paths[i], type |-> type(i)]]
      BY RetypedAsk
    <3> HIDE DEF asks
    <3> QED
      BY <1>11, <1>12, <3>2
  <2> HIDE DEF asks, at
  <2>2. ASSUME NEW i \in DOMAIN rows
        PROVE  asks[i] \in Asks /\ asks[i].path = at(i) /\ asks[i].type = type(i) /\ asks[i].kind = "columns"
    BY <1>11, <1>13, <2>1 DEF Asks, Enters
  <2>3. asks \in Seq(Asks) /\ DOMAIN asks = DOMAIN rows
    BY <1>11, <2>1, <2>2
  <2>4. Depth("columns") = Len(place) + 1
    <3>1. 2 + 1 = 3
      OBVIOUS
    <3> QED
      BY <1>3, <3>1, Depths, Zenon
  <2>5. \A i \in DOMAIN rows : /\ asks[i].path = Append(place, rows[i]) /\ asks[i].kind \in Enters
                               /\ Depth(asks[i].kind) = Len(place) + 1 /\ Was(asks[i])
    BY <1>14, <2>2, <2>4 DEF Enters, at
  <2>6. Takes(asks, <<>>)
    BY <1>1, <1>5, <1>6, <1>8, <1>10, <2>3, <2>5, BranchesTake DEF place, Lists
  <2>7. Takes(loads \o asks, <<>>)
    BY <1>1, <2>3, <2>6, LoadsFirst DEF place
  <2>8. Go(loads \o asks, <<>>)
    BY <1>2, <1>15 DEF asks, at
  <2>9. ASSUME NEW k \in DOMAIN asks PROVE asks[k].kind = "columns" /\ SameSchema(asks[k].path, place)
    <3>1. k \in DOMAIN rows
      BY <2>3
    <3>2. asks[k].kind = "columns" /\ asks[k].path = at(k)
      BY <2>2, <3>1
    <3>3. at(k)[1] = place[1] /\ at(k)[2] = place[2]
      <4>1. rows[k] \in Int
        BY <1>5, <1>11, <3>1
      <4>2. at(k) = Append(place, rows[k])
        BY DEF at
      <4> QED
        BY <1>3, <4>1, <4>2
    <3> QED
      BY <3>2, <3>3, Zenon DEF SameSchema
  <2>10. Descends
    BY <1>3, <2>3, <2>7, <2>8, <2>9, Zenon DEF Descends, place, loads
  <2> QED
    BY <2>10
<1>16. CASE ~IncludeColumns
  <2>1. entries = [i \in 1..Len(rows) |-> [path |-> at(i), type |-> type(i), columns |-> <<>>, keys |-> {}]]
    <3> HIDE DEF at
    <3>2. entries = [i \in DOMAIN paths |-> [path |-> paths[i], type |-> type(i), columns |-> <<>>, keys |-> {}]]
      BY RetypedEntry
    <3> HIDE DEF entries
    <3> QED
      BY <1>11, <1>12, <3>2
  <2> HIDE DEF at
  <2>2. Go(<<>>, entries)
    BY <1>2, <1>16
  <2> HIDE DEF entries
  <2>3. \A i \in DOMAIN rows : entries[i].path = at(i) /\ entries[i].type = type(i)
    BY <1>11, <2>1
  <2>4. IsList(entries) /\ DOMAIN entries = DOMAIN rows
    <3> DEFINE E == {entries[i] : i \in 1..Len(rows)}
    <3>1. entries \in [1..Len(rows) -> E]
      BY <2>1
    <3>2. entries \in Seq(E)
      BY <1>11, <3>1
    <3> QED
      BY <1>11, <2>1, <3>2 DEF IsList
  <2>5. \A i \in DOMAIN rows : entries[i].path = Append(place, rows[i]) /\ Was(entries[i])
    BY <1>14, <2>3 DEF at
  <2>6. Takes(<<>>, entries)
    BY <1>1, <1>5, <1>6, <1>8, <1>10, <2>4, <2>5, LeavesTake DEF place
  <2>7. Above(<<>>, entries)
    BY <1>16, NoList DEF Above
  <2>8. Head(todo).kind \notin Inside
    BY <1>3 DEF Inside, Loads
  <2>9. Outer
    BY <1>3, <2>2, <2>6, <2>7, <2>8, Zenon DEF Outer
  <2> QED
    BY <2>9
<1> QED
  BY <1>15, <1>16, SMTT(30)

\* The queries for keys make way for nothing.
LEMMA LoadGoes ==
  ASSUME IInv, NEW kind \in Loads, IsNext(kind)
  PROVE  Takes(<<>>, <<>>) /\ Cover(Head(todo)) = {}
<1>1. Cover(Head(todo)) = {}
  BY NextAsk DEF Cover, Loads, Lists, Enters
<1>2. Ordered(<<>>, <<>>)
  BY NoList DEF Ordered
<1> QED
  BY <1>1, <1>2, NoList DEF Takes, Fits

LEMMA LoadsKeep == IInv /\ (LoadPrimaryKeys \/ LoadForeignKeys) => IInv'
<1> SUFFICES ASSUME IInv, LoadPrimaryKeys \/ LoadForeignKeys PROVE IInv'
  OBVIOUS
<1>1. PICK kind \in Loads : IsNext(kind)
  BY DEF LoadPrimaryKeys, LoadForeignKeys, Loads
<1>2. Go(<<>>, <<>>)
  BY DEF LoadPrimaryKeys, LoadForeignKeys
<1>3. pc = "walking" /\ todo # <<>>
  BY <1>1, NextAsk
<1> QED
  BY <1>1, <1>2, <1>3, LoadGoes, GoKeeps

LEMMA ListColumnsKeeps == IInv /\ ListColumnsForTable => IInv'
<1> SUFFICES ASSUME IInv, ListColumnsForTable PROVE IInv'
  OBVIOUS
<1> DEFINE h == Head(todo)
<1>1. IsNext("columns")
  BY DEF ListColumnsForTable
<1> DEFINE columns == IF h.path \in DOMAIN world.tables
                        THEN ListColumns(world.tables[h.path], call.column) ELSE <<>>
           entry == [path |-> h.path, type |-> h.type, columns |-> columns, keys |-> KeysOf(h.path)]
<1>2. Go(<<>>, <<entry>>)
  BY DEF ListColumnsForTable
<1> HIDE DEF columns
<1>3. entry.path = h.path /\ entry.type = h.type
  OBVIOUS
<1>4. pc = "walking" /\ todo # <<>> /\ AskOK(h) /\ h.kind = "columns" /\ Len(h.path) = 3 /\ Levels[call.depth] \in 1..3
  BY <1>1, NextAsk, Depths
<1>5. Was(entry)
  <2>1. Was(h)
    BY <1>4 DEF AskOK, Enters
  <2> HIDE DEF entry, h
  <2> QED
    BY <1>3, <2>1 DEF Was
<1>6. Len(Head(todo).path) = Levels[call.depth]
  <2>1. Len(Head(todo).path) <= Levels[call.depth]
    BY <1>4 DEF AskOK, Wanted
  <2>2. \A n \in 1..3 : 3 <= n => n = 3
    OBVIOUS
  <2> QED
    BY <1>4, <2>1, <2>2, Zenon
<1> HIDE DEF entry
<1>8. Takes(<<>>, <<entry>>)
  <2>1. "columns" \in Enters /\ "tables" \in {"schemas", "tables"}
    BY DEF Enters
  <2>2. <<>> \in {<<>>, <<Ask("tables", Head(todo).path)>>} /\ (<<>> = <<>> <=> Len(Head(todo).path) = Levels[call.depth])
    BY <1>6
  <2> QED
    BY <1>1, <1>3, <1>5, <2>1, <2>2, EntryGoes
<1> QED
  BY <1>2, <1>4, <1>8, GoKeeps
----------------------------------------------------------------------------
(***************************************************************************)
(* The start and the end of a call.                                        *)
(***************************************************************************)
Starts(asks) ==
  /\ asks \in Seq(Asks)
  /\ \A k \in DOMAIN asks : AskOK(asks[k])
  /\ Ordered(<<>>, asks)
  /\ \A p \in AnyPath : \E k \in DOMAIN asks : p \in Cover(asks[k])

LEMMA FirstAsk == call \in Calls /\ IsWalk => Starts(<<Ask("catalogs", <<>>)>>)
<1> SUFFICES ASSUME call \in Calls, IsWalk PROVE Starts(<<Ask("catalogs", <<>>)>>)
  OBVIOUS
<1> DEFINE a == Ask("catalogs", <<>>)
           root == <<>>
<1>1. root \in Seq(Int) /\ Len(root) = 0
  OBVIOUS
<1>2. a \in Asks /\ a.path = root /\ a.kind = "catalogs"
  <2>1. "catalogs" \in Lists \union Enters \union Loads
    BY DEF Lists
  <2> QED
    BY <1>1, <2>1, AskIs, Zenon
<1>3. Levels[call.depth] \in 1..3
  <2>1. call.depth \in DOMAIN Levels
    BY CallsAssumption DEF IsWalk
  <2> QED
    BY <2>1 DEF Levels
<1> HIDE DEF a, root
<1>4. Wanted(root)
  BY <1>1, <1>3 DEF Wanted
<1>5. AskOK(a)
  <2>1. Len(a.path) = Depth(a.kind)
    BY <1>1, <1>2, Depths, Zenon
  <2>2. a.kind \notin Enters
    BY <1>2 DEF Enters
  <2>3. Len(root) < Levels[call.depth]
    BY <1>1, <1>3
  <2> QED
    BY <1>2, <1>4, <2>1, <2>2, <2>3 DEF AskOK
<1>6. ASSUME NEW p \in AnyPath PROVE p \in Cover(a)
  <2>1. p \in Seq(Int) /\ Len(p) \in 1..3
    BY AnyPathIsSeq
  <2>2. Begins(root, p)
    BY <2>1, AllBeginEmpty DEF root
  <2> QED
    BY <1>1, <1>2, <2>1, <2>2, SMTT(30) DEF Cover, Lists
<1>7. <<a>> \in Seq(Asks) /\ DOMAIN <<a>> = {1} /\ <<a>>[1] = a
  BY <1>2
<1>8. Ordered(<<>>, <<a>>)
  <2>1. \A k, l \in DOMAIN <<a>> : ~(k < l)
    BY <1>7
  <2> QED
    BY <2>1, NoList DEF Ordered
<1>9. Starts(<<a>>)
  BY <1>5, <1>6, <1>7, <1>8 DEF Starts
<1> QED
  BY <1>9 DEF a, root

LEMMA NothingOrdered == Ordered(<<>>, <<>>)
BY NoList DEF Ordered

LEMMA GetObjectsKeeps == ASSUME IInv, NEW c \in Calls, GetObjects(c) PROVE IInv'
<1> DEFINE asks == <<Ask("catalogs", <<>>)>>
<1>1. /\ call' = c /\ pc' = "walking" /\ todo' = asks /\ found' = <<>> /\ outcome' = "none"
      /\ past' = {world} /\ UNCHANGED <<world, changes>> /\ c.op = "GetObjects"
  BY DEF GetObjects
<1>2. TypeOK'
  BY <1>1 DEF IInv, TypeOK, IsWorld
<1>3. call' \in Calls /\ IsWalk'
  BY <1>1 DEF IsWalk
<1>4. Starts(asks)'
  <2>1. (call \in Calls /\ IsWalk => Starts(<<Ask("catalogs", <<>>)>>))'
    BY FirstAsk, PTL
  <2> QED
    BY <1>3, <2>1
<1> HIDE DEF asks
<1>5. todo' \in Seq(Asks) /\ Ordered(found', todo')
  BY <1>1, <1>4 DEF Starts
<1>6. \A k \in DOMAIN todo' : AskOK(todo[k])'
  BY <1>1, <1>4 DEF Starts
<1>7. \A p \in AnyPath : Reached(p)'
  BY <1>1, <1>4 DEF Starts, Reached
<1> QED
  BY <1>1, <1>2, <1>3, <1>5, <1>6, <1>7, NoList DEF IInv, WalkInv, Complete

LEMMA ReturnKeeps == IInv /\ Return => IInv'
<1> SUFFICES ASSUME IInv, Return PROVE IInv'
  OBVIOUS
<1>1. /\ pc = "walking" /\ pc' = "idle" /\ outcome' = "ok" /\ todo = <<>>
      /\ UNCHANGED <<world, call, todo, found, past, changes>>
  BY DEF Return
<1>2. TypeOK'
  BY <1>1 DEF IInv, TypeOK, IsWorld
<1>3. /\ IsWalk' = IsWalk
      /\ \A e : Was(e) => Was(e)'
      /\ \A a : AskOK(a) => AskOK(a)'
      /\ \A p : Due(p)' => Due(p)
  BY <1>1, CallGoesOn
<1>4. Ordered(found, todo)'
  BY <1>1 DEF IInv, WalkInv
<1>5. ASSUME NEW p, Reached(p) PROVE Reached(p)'
  BY <1>1, <1>5 DEF Reached, Listed
<1> QED
  BY <1>1, <1>2, <1>3, <1>4, <1>5 DEF IInv, WalkInv, Complete

LEMMA QueryFailsKeeps == IInv /\ QueryFails => IInv'
<1> SUFFICES ASSUME IInv, QueryFails PROVE IInv'
  OBVIOUS
<1>1. pc = "walking" /\ todo # <<>> /\ UNCHANGED <<world, call, past, changes>>
  BY DEF QueryFails
<1>2. CASE Head(todo).kind = "foreign keys"
  <2>1. IsNext("foreign keys")
    BY <1>1, <1>2 DEF IsNext
  <2>2. todo' = Tail(todo) /\ UNCHANGED <<pc, outcome, found>>
    BY <1>2 DEF QueryFails
  <2>3. Takes(<<>>, <<>>)
    BY <2>1, LoadGoes DEF Loads
  <2>4. <<>> \o Tail(todo) = Tail(todo) /\ (IsWalk => found \o <<>> = found)
    <3>1. PICK S : found \in Seq(S) \/ ~IsWalk
      BY DEF IInv, WalkInv, IsList
    <3>2. Tail(todo) \in Seq(Asks)
      BY <1>1, TailIs DEF IInv, WalkInv
    <3> QED
      BY <3>1, <3>2
  <2>5. IsWalk
    BY <1>1 DEF IInv, WalkInv
  <2>6. todo' = <<>> \o Tail(todo) /\ found' = found \o <<>>
    BY <2>2, <2>4, <2>5
  <2> QED
    BY <1>1, <2>2, <2>3, <2>6, TakenKeeps DEF Moves
<1>3. CASE Head(todo).kind # "foreign keys"
  <2>1. todo' = <<>> /\ pc' = "idle" /\ outcome' = "error" /\ found' = <<>>
    BY <1>3 DEF QueryFails
  <2>2. TypeOK'
    BY <1>1, <2>1 DEF IInv, TypeOK, IsWorld
  <2> QED
    BY <2>1, <2>2, NoList, NothingOrdered DEF IInv, WalkInv, Complete
<1> QED
  BY <1>2, <1>3

LEMMA GetTableSchemaKeeps == ASSUME IInv, NEW c \in Calls, GetTableSchema(c) PROVE IInv'
<1>1. /\ pc = "idle" /\ call' = c /\ ~IsWalk' /\ past' = {world} /\ UNCHANGED <<world, pc, todo, changes>>
      /\ outcome' \in {"ok", "error", "not found"} /\ (outcome' = "ok" \/ found' = <<>>)
  BY DEF GetTableSchema, IsWalk
<1>2. TypeOK'
  BY <1>1 DEF IInv, TypeOK, IsWorld
<1> QED
  BY <1>1, <1>2 DEF IInv, WalkInv
----------------------------------------------------------------------------
(***************************************************************************)
(* Other clients.                                                          *)
(***************************************************************************)
LEMMA ChangesKeeps ==
  ASSUME IInv, changes < MaxChanges, NEW w, IsWorld(w), Changes(w)
  PROVE  IInv'
<1>1. /\ world' = w /\ past' = past \union {w} /\ changes' = changes + 1
      /\ UNCHANGED <<call, pc, todo, found, outcome>>
  BY DEF Changes
<1>2. IsWorld(world)'
  BY <1>1 DEF IsWorld
<1>3. TypeOK'
  <2>1. changes' \in 0..MaxChanges
    <3>1. changes \in 0..MaxChanges
      BY DEF IInv, TypeOK
    <3>2. MaxChanges \in Nat
      BY ServerAssumption
    <3> QED
      BY <1>1, <3>1, <3>2
  <2>2. world' \in past'
    BY <1>1
  <2> QED
    BY <1>1, <1>2, <2>1, <2>2 DEF IInv, TypeOK
<1>4. /\ IsWalk' = IsWalk
      /\ \A e : Was(e) => Was(e)'
      /\ \A a : AskOK(a) => AskOK(a)'
      /\ \A p : Due(p)' => Due(p)
  BY <1>1, CallGoesOn
<1>5. Ordered(found, todo)' <=> Ordered(found, todo)
  BY <1>1
<1>6. ASSUME NEW p, Reached(p) PROVE Reached(p)'
  BY <1>1, <1>6 DEF Reached, Listed
<1> QED
  BY <1>1, <1>3, <1>4, <1>5, <1>6 DEF IInv, WalkInv, Complete

LEMMA DroppedIs ==
  ASSUME IsWorld(world), NEW tables
  PROVE  IsWorld(Dropped(tables))
<1> DEFINE w == Dropped(tables)
           T == DOMAIN world.tables \ tables
<1>1. /\ w.places = world.places /\ DOMAIN w.tables = T
      /\ \A t \in T : w.tables[t] = world.tables[t]
  BY DEF Dropped, World
<1> HIDE DEF w
<1>2. IsFiniteSet(T)
  BY FS_Subset DEF IsWorld
<1> QED
  BY <1>1, <1>2 DEF IsWorld, w

LEMMA OthersKeep == IInv /\ Others => IInv'
<1> SUFFICES ASSUME IInv, Others PROVE IInv'
  OBVIOUS
<1>1. changes < MaxChanges /\ IsWorld(world)
  BY DEF Others, IInv, TypeOK
<1>2. PICK p \in Places :
       \/ Changes(World(world.places \union {p}, world.tables))
       \/ Changes([Dropped(TablesOf(p)) EXCEPT !.places = @ \ {p}])
       \/ /\ p \in world.places
          /\ \E n \in Names :
               LET t == Append(p, n)
               IN  \/ \E d \in Definitions :
                        Changes(World(world.places, [u \in DOMAIN world.tables \union {t} |->
                                                       IF u = t THEN d ELSE world.tables[u]]))
                   \/ Changes(Dropped({t}))
  BY DEF Others
<1>3. p \in Path(2) /\ p[1] \in Int /\ p[2] \in Int /\ p = <<p[1], p[2]>>
  BY ServerAssumption DEF Path
<1>4. CASE Changes(World(world.places \union {p}, world.tables))
  <2> DEFINE w == World(world.places \union {p}, world.tables)
  <2>1. w.places = world.places \union {p} /\ w.tables = world.tables
    BY DEF World
  <2>2. IsFiniteSet(world.places \union {p})
    BY <1>1, FS_AddElement DEF IsWorld
  <2>3. Changes(w)
    BY <1>4
  <2> HIDE DEF w
  <2>4. IsWorld(w)
    BY <1>1, <1>3, <2>1, <2>2 DEF IsWorld
  <2> QED
    BY <1>1, <2>3, <2>4, ChangesKeeps
<1>5. CASE Changes([Dropped(TablesOf(p)) EXCEPT !.places = @ \ {p}])
  <2> DEFINE w == [Dropped(TablesOf(p)) EXCEPT !.places = @ \ {p}]
             T == DOMAIN world.tables \ TablesOf(p)
  <2>1. /\ w.places = world.places \ {p} /\ DOMAIN w.tables = T
        /\ \A t \in T : w.tables[t] = world.tables[t]
    BY DEF Dropped, World
  <2>2. Changes(w)
    BY <1>5
  <2> HIDE DEF w
  <2>3. IsFiniteSet(T) /\ IsFiniteSet(world.places \ {p})
    BY <1>1, FS_Subset DEF IsWorld
  <2>4. ASSUME NEW t \in T PROVE <<t[1], t[2]>> \in world.places \ {p}
    BY <1>1, <1>3 DEF IsWorld, TablesOf
  <2>5. IsWorld(w)
    BY <1>1, <2>1, <2>3, <2>4 DEF IsWorld
  <2> QED
    BY <1>1, <2>2, <2>5, ChangesKeeps
<1>6. ASSUME NEW n \in Names, NEW d \in Definitions, p \in world.places,
             Changes(World(world.places, [u \in DOMAIN world.tables \union {Append(p, n)} |->
                                            IF u = Append(p, n) THEN d ELSE world.tables[u]]))
      PROVE  IInv'
  <2> DEFINE t == Append(p, n)
             T == DOMAIN world.tables \union {t}
             tables == [u \in T |-> IF u = t THEN d ELSE world.tables[u]]
             w == World(world.places, tables)
  <2>1. w.places = world.places /\ w.tables = tables
    BY DEF World
  <2>2. Changes(w)
    BY <1>6
  <2>3. t \in Path(3) /\ <<t[1], t[2]>> = p
    <3>1. n \in Int
      BY ServerAssumption
    <3>2. Append(<<p[1], p[2]>>, n) = <<p[1], p[2], n>>
      BY <1>3, <3>1, AppendPair
    <3>3. t = <<p[1], p[2], n>>
      BY <1>3, <3>2
    <3> HIDE DEF t
    <3> QED
      BY <1>3, <3>1, <3>3 DEF Path
  <2> HIDE DEF w, t
  <2>4. IsFiniteSet(T)
    BY <1>1, FS_AddElement DEF IsWorld
  <2>5. IsWorld(w)
    BY <1>1, <1>6, <2>1, <2>3, <2>4 DEF IsWorld
  <2> QED
    BY <1>1, <2>2, <2>5, ChangesKeeps
<1>7. ASSUME NEW t, Changes(Dropped({t})) PROVE IInv'
  BY <1>1, <1>7, DroppedIs, ChangesKeeps
<1> QED
  BY <1>2, <1>4, <1>5, <1>6, <1>7
----------------------------------------------------------------------------
(***************************************************************************)
(* The theorems.                                                           *)
(***************************************************************************)
LEMMA InitInv == Init => IInv
<1> SUFFICES ASSUME Init PROVE IInv
  OBVIOUS
<1>1. call \in Calls
  BY CallsAssumption DEF Init
<1>2. TypeOK
  BY <1>1, ServerAssumption DEF Init, TypeOK
<1>3. Ordered(found, todo)
  BY NothingOrdered DEF Init
<1> QED
  BY <1>2, <1>3, NoList DEF Init, IInv, WalkInv, Complete

LEMMA IInvStep == IInv /\ [Next]_vars => IInv'
<1> SUFFICES ASSUME IInv, [Next]_vars PROVE IInv'
  OBVIOUS
<1>1. CASE \E c \in Calls : GetObjects(c) \/ GetTableSchema(c)
  BY <1>1, GetObjectsKeeps, GetTableSchemaKeeps
<1>2. CASE Catalogs \/ Catalog \/ Schemas \/ Schema
  BY <1>2, CatalogsGo, CatalogGo, SchemasGo, SchemaGo, OuterKeeps
<1>3. CASE Tables \/ LoadPrimaryKeys \/ LoadForeignKeys \/ ListColumnsForTable
  BY <1>3, TablesGo, OuterKeeps, DescendsKeeps, LoadsKeep, ListColumnsKeeps
<1>4. CASE Return \/ QueryFails \/ Others
  BY <1>4, ReturnKeeps, QueryFailsKeeps, OthersKeep
<1>5. CASE UNCHANGED vars
  <2>1. TypeOK'
    BY <1>5 DEF vars, IInv, TypeOK, IsWorld
  <2>2. /\ IsWalk' = IsWalk
        /\ \A e : Was(e) => Was(e)'
        /\ \A a : AskOK(a) => AskOK(a)'
        /\ \A p : Due(p)' => Due(p)
    BY <1>5, CallGoesOn DEF vars
  <2>3. Ordered(found, todo)' <=> Ordered(found, todo)
    BY <1>5 DEF vars
  <2>4. ASSUME NEW p, Reached(p) PROVE Reached(p)'
    BY <1>5, <2>4 DEF vars, Reached, Listed
  <2> QED
    BY <1>5, <2>1, <2>2, <2>3, <2>4 DEF vars, IInv, WalkInv, Complete
<1> QED
  BY <1>1, <1>2, <1>3, <1>4, <1>5 DEF Next

LEMMA Inductive == Spec => []IInv
<1> QED
  BY InitInv, IInvStep, PTL DEF Spec

\* For any server and any changes by others: what GetObjects lists was there at
\* some moment of the call and was asked for, and comes in the order of the tree.
THEOREM WalkAlwaysOK == Spec => []WalkOK
<1>1. IInv => WalkOK
  BY DEF IInv, WalkInv, WalkOK, OnlyWhatWas, TreeOrder, Ordered
<1> QED
  BY <1>1, Inductive, PTL

\* For any server and any changes by others: when GetObjects succeeds, all that
\* was there from its start to its end and was asked for is listed.
THEOREM NothingIsMissed == Spec => []NothingMissed
<1>1. ASSUME IInv, Walked, NEW path \in Paths(world), Due(path) PROVE Listed(path)
  <2>1. path \in AnyPath
    <3>1. IsWorld(world)
      BY <1>1 DEF IInv, TypeOK
    <3>2. \A p \in Path(2) : <<p[1]>> \in Path(1)
      BY DEF Path
    <3> QED
      BY <3>1, <3>2 DEF Paths, AnyPath, IsWorld
  <2>2. Reached(path)
    BY <1>1, <2>1 DEF IInv, WalkInv, Walked, Complete
  <2>3. todo = <<>>
    BY <1>1 DEF IInv, TypeOK, Walked
  <2> QED
    BY <2>2, <2>3, NoList DEF Reached
<1>2. IInv => NothingMissed
  BY <1>1 DEF NothingMissed
<1> QED
  BY <1>2, Inductive, PTL
----------------------------------------------------------------------------
(***************************************************************************)
(* The keys of a table: the rows of each constraint, in the columns' order.*)
(***************************************************************************)
\* Of two numbers of two digits the smaller has no larger first digit.
LEMMA FirstDigit ==
  ASSUME NEW n \in Nat, NEW a \in Int, NEW b \in Int, NEW x \in 1..n, NEW y \in 1..n,
         a * (n + 1) + x <= b * (n + 1) + y
  PROVE  a <= b
<1>1. SUFFICES ASSUME b + 1 <= a PROVE FALSE
  OBVIOUS
<1>2. \A k, m \in Int, l \in Nat : k <= m => k * l <= m * l
  <2>1. ASSUME NEW k \in Int, NEW m \in Int, NEW l \in Nat, k <= m PROVE k * l <= m * l
    <3>1. (m - k) * l >= 0
      <4>1. m - k \in Nat
        BY <2>1
      <4> QED
        BY <4>1, SMTT(30)
    <3>2. (m - k) * l = m * l - k * l
      BY SMTT(30)
    <3>3. m * l \in Int /\ k * l \in Int
      OBVIOUS
    <3> QED
      BY <3>1, <3>2, <3>3
  <2> QED
    BY <2>1
<1>3. (b + 1) * (n + 1) <= a * (n + 1)
  <2>1. b + 1 \in Int /\ n + 1 \in Nat
    OBVIOUS
  <2> QED
    BY <1>1, <1>2, <2>1
<1>4. (b + 1) * (n + 1) = b * (n + 1) + (n + 1)
  BY SMTT(30)
<1>5. b * (n + 1) \in Int /\ a * (n + 1) \in Int
  OBVIOUS
<1> HIDE <1>2
<1> QED
  BY <1>3, <1>4, <1>5

LEMMA ByIndexIs ==
  ASSUME NEW S, IsFiniteSet(S), \A r \in S : r.index \in Int
  PROVE  ByIndex(S) \in Orders(S)
<1> DEFINE n == Cardinality(S)
           Up(order) == \A i, j \in DOMAIN order : i < j => order[i].index <= order[j].index
<1>1. n \in Nat
  BY FS_CardinalityType
<1>2. PICK b \in Bijection(1..n, S) : TRUE
  BY FS_CardinalityType DEF ExistsBijection
<1>3. /\ b \in [1..n -> S] /\ \A x \in S : \E i \in 1..n : b[i] = x
      /\ \A i, j \in 1..n : b[i] = b[j] => i = j
  BY <1>2 DEF Bijection, Injection, Surjection, IsInjective
<1> HIDE DEF n
<1> DEFINE key == [i \in 1..n |-> b[i].index * (n + 1) + i]
           K == {key[i] : i \in 1..n}
<1>4. \A i \in 1..n : b[i] \in S /\ b[i].index \in Int
  BY <1>3
<1>5. \A i \in 1..n : key[i] \in Int
  BY <1>1, <1>4
<1>6. \A i, j \in 1..n : key[i] <= key[j] => b[i].index <= b[j].index
  BY <1>1, <1>4, FirstDigit
<1>7. \A i, j \in 1..n : key[i] = key[j] => i = j
  <2>1. ASSUME NEW i \in 1..n, NEW j \in 1..n, key[i] = key[j] PROVE i = j
    <3>1. b[i].index = b[j].index
      <4>1. key[i] <= key[j] /\ key[j] <= key[i]
        BY <1>5, <2>1
      <4> HIDE DEF key
      <4>2. b[i].index <= b[j].index /\ b[j].index <= b[i].index
        BY <1>6, <4>1
      <4> QED
        BY <1>4, <4>2
    <3>2. PICK m \in Int : b[i].index * (n + 1) = m /\ b[j].index * (n + 1) = m
      BY <1>1, <1>4, <3>1
    <3>3. key[i] = m + i /\ key[j] = m + j
      BY <3>2
    <3> HIDE DEF key
    <3>4. m + i = m + j
      BY <2>1, <3>3, Zenon
    <3>5. i \in Int /\ j \in Int
      BY <1>1
    <3> QED
      BY <3>4, <3>5
  <2> QED
    BY <2>1
<1> HIDE DEF key
<1>8. IsFiniteSet(K) /\ Cardinality(K) = n /\ K \subseteq Int
  <2>1. key \in Bijection(1..n, K)
    <3>1. key \in [1..n -> K]
      BY DEF key
    <3> QED
      BY <1>7, <3>1 DEF Bijection, Injection, Surjection, IsInjective
  <2>2. IsFiniteSet(1..n) /\ Cardinality(1..n) = n
    BY <1>1, FS_Interval
  <2> QED
    BY <1>5, <2>1, <2>2, FS_Bijection DEF ExistsBijection
<1>9. PICK list \in Listing(K) : TRUE
  BY <1>8, ListingExists
<1>10. /\ list \in [1..n -> K] /\ Increasing(list) /\ DOMAIN list = 1..n
       /\ \A v \in K : \E i \in 1..n : list[i] = v
  <2> HIDE DEF K
  <2>1. list \in [1..n -> K] /\ Increasing(list)
    BY <1>8 DEF Listing
  <2>2. \A v \in K : \E i \in DOMAIN list : list[i] = v
    BY <1>8, ListsAll, ZenonT(40)
  <2> QED
    BY <2>1, <2>2
<1> DEFINE at(k) == CHOOSE i \in 1..n : key[i] = list[k]
           order == [k \in 1..n |-> b[at(k)]]
<1>11. \A k \in 1..n : at(k) \in 1..n /\ key[at(k)] = list[k]
  <2>1. ASSUME NEW k \in 1..n PROVE \E i \in 1..n : key[i] = list[k]
    BY <1>10
  <2> QED
    BY <2>1
<1> HIDE DEF at
<1>12. order \in [1..n -> S]
  BY <1>4, <1>11
<1>13. Range(order) = S
  <2>1. ASSUME NEW x \in S PROVE \E k \in 1..n : order[k] = x
    <3>1. PICK i \in 1..n : b[i] = x
      BY <1>3
    <3>2. PICK k \in 1..n : list[k] = key[i]
      BY <1>10
    <3>3. at(k) = i
      BY <1>7, <1>11, <3>2
    <3> QED
      BY <3>1, <3>3
  <2> HIDE DEF order
  <2> QED
    BY <1>12, <2>1 DEF Range
<1>14. Up(order)
  <2>1. ASSUME NEW i \in 1..n, NEW j \in 1..n, i < j PROVE order[i].index <= order[j].index
    <3>1. list[i] < list[j]
      BY <1>10, <2>1 DEF Increasing
    <3>2. key[at(i)] <= key[at(j)]
      BY <1>5, <1>11, <3>1
    <3> QED
      BY <1>6, <1>11, <3>2
  <2> QED
    BY <2>1
<1> HIDE DEF order
<1>15. order \in Orders(S)
  BY <1>12, <1>13 DEF Orders, n
<1> QED
  BY <1>14, <1>15 DEF ByIndex

\* The rows of a constraint, and what is made of them.
Group(rows, n) == {r \in rows : r.name = n}
Constraint(type, rows, n) ==
  [type |-> type, name |-> n,
   columns |-> [i \in DOMAIN ByIndex(Group(rows, n)) |-> ByIndex(Group(rows, n))[i].column],
   usage |-> [i \in DOMAIN ByIndex(Group(rows, n)) |-> ByIndex(Group(rows, n))[i].refers]]

\* A column with what it refers to, for each row.
Links(rows) == {<<r.column, r.refers>> : r \in rows}

LEMMA GroupedIs ==
  ASSUME NEW type, NEW rows
  PROVE  Grouped(type, rows) = {Constraint(type, rows, n) : n \in {r.name : r \in rows}}
BY DEF Grouped, Constraint, Group

LEMMA ConstraintIs ==
  ASSUME NEW type, NEW rows, NEW n, \A r \in rows : r.index \in Int, IsFiniteSet(Group(rows, n))
  PROVE  /\ Constraint(type, rows, n).type = type
         /\ Range(Constraint(type, rows, n).columns) = {r.column : r \in Group(rows, n)}
         /\ Pairs(Constraint(type, rows, n).columns, Constraint(type, rows, n).usage) =
              Links(Group(rows, n))
<1> DEFINE order == ByIndex(Group(rows, n))
           k == Constraint(type, rows, n)
<1>1. order \in Orders(Group(rows, n))
  BY ByIndexIs DEF Group
<1>2. Group(rows, n) = {order[i] : i \in DOMAIN order}
  BY <1>1 DEF Orders, Range
<1> HIDE DEF order
<1>3. /\ k.type = type
      /\ k.columns = [i \in DOMAIN order |-> order[i].column]
      /\ k.usage = [i \in DOMAIN order |-> order[i].refers]
  BY DEF Constraint, order
<1> HIDE DEF k
<1>4. Range(k.columns) = {r.column : r \in Group(rows, n)}
  BY <1>2, <1>3 DEF Range
<1>5. Pairs(k.columns, k.usage) = {<<r.column, r.refers>> : r \in Group(rows, n)}
  <2>1. /\ DOMAIN k.columns = DOMAIN order
        /\ \A i \in DOMAIN order : k.columns[i] = order[i].column /\ k.usage[i] = order[i].refers
    BY <1>3
  <2>2. Pairs(k.columns, k.usage) = {<<order[i].column, order[i].refers>> : i \in DOMAIN order}
    BY <2>1, Zenon DEF Pairs
  <2>3. ASSUME NEW x PROVE x \in {<<order[i].column, order[i].refers>> : i \in DOMAIN order}
                             <=> x \in {<<r.column, r.refers>> : r \in Group(rows, n)}
    BY <1>2, Zenon
  <2> QED
    BY <2>2, <2>3
<1> QED
  BY <1>3, <1>4, <1>5 DEF k, Links

LEMMA IndexType ==
  ASSUME NEW d, d.columns \in Seq(Int), NEW c \in Range(d.columns)
  PROVE  IndexOf(d, c) \in Int
<1>1. \E i \in DOMAIN d.columns : d.columns[i] = c
  BY DEF Range
<1>2. IndexOf(d, c) \in DOMAIN d.columns
  BY <1>1 DEF IndexOf
<1> QED
  BY <1>2

PrimaryRow(d, i) ==
  [name |-> 0, index |-> IndexOf(d, d.primary[i]), column |-> d.primary[i], refers |-> <<>>]
ForeignRow(d, f, i) ==
  [name |-> f.name, index |-> IndexOf(d, f.columns[i]), column |-> f.columns[i],
   refers |-> <<f.table, f.referenced[i]>>]

\* The primary key, if there is one, has its columns.
LEMMA PrimaryIs ==
  ASSUME NEW d \in Definitions
  PROVE  /\ \A k \in PrimaryKeys(d) : k.type = "PRIMARY KEY"
         /\ {Range(k.columns) : k \in PrimaryKeys(d)} =
              IF d.primary = <<>> THEN {} ELSE {Range(d.primary)}
<1> DEFINE rows == {PrimaryRow(d, i) : i \in DOMAIN d.primary}
           K(n) == Constraint("PRIMARY KEY", rows, n)
<1>1. d.columns \in Seq(Int) /\ d.primary \in Seq(Range(d.columns))
  BY ServerAssumption DEF IsDefinition
<1>2. PrimaryKeys(d) = {K(n) : n \in {r.name : r \in rows}}
  BY GroupedIs DEF PrimaryKeys, PrimaryRow
<1>3. \A i \in DOMAIN d.primary :
        PrimaryRow(d, i).name = 0 /\ PrimaryRow(d, i).index \in Int /\ PrimaryRow(d, i).column = d.primary[i]
  BY <1>1, IndexType DEF PrimaryRow
<1>4. Group(rows, 0) = rows /\ \A r \in rows : r.name = 0 /\ r.index \in Int
  BY <1>3 DEF Group
<1>5. IsFiniteSet(rows)
  <2> DEFINE f == [i \in DOMAIN d.primary |-> PrimaryRow(d, i)]
  <2>1. DOMAIN f = DOMAIN d.primary /\ rows = {f[i] : i \in DOMAIN d.primary}
    OBVIOUS
  <2>2. DOMAIN d.primary = 1..Len(d.primary) /\ Len(d.primary) \in Nat
    BY <1>1
  <2>3. IsFiniteSet(DOMAIN d.primary)
    BY <2>2, FS_Interval
  <2> HIDE DEF f, rows
  <2> QED
    BY <2>1, <2>3, FiniteImage
<1>6. {r.column : r \in rows} = Range(d.primary)
  BY <1>3 DEF Range
<1>7. d.primary = <<>> <=> rows = {}
  <2>1. d.primary # <<>> => 1 \in DOMAIN d.primary
    BY <1>1
  <2>2. d.primary = <<>> => DOMAIN d.primary = {}
    OBVIOUS
  <2>3. rows = {} <=> DOMAIN d.primary = {}
    OBVIOUS
  <2> HIDE DEF rows
  <2> QED
    BY <2>1, <2>2, <2>3
<1> HIDE DEF rows
<1>8. {r.name : r \in rows} = IF rows = {} THEN {} ELSE {0}
  BY <1>4
<1>9. \A n \in {r.name : r \in rows} : K(n).type = "PRIMARY KEY" /\ Range(K(n).columns) = Range(d.primary)
  <2>1. K(0).type = "PRIMARY KEY" /\ Range(K(0).columns) = {r.column : r \in Group(rows, 0)}
    <3>1. (\A r \in rows : r.index \in Int) /\ IsFiniteSet(Group(rows, 0))
      BY <1>4, <1>5
    <3> QED
      BY <3>1, ConstraintIs, ZenonT(40)
  <2> QED
    BY <1>4, <1>6, <1>8, <2>1
<1> HIDE DEF K
<1>10. ASSUME NEW k \in PrimaryKeys(d) PROVE k.type = "PRIMARY KEY" /\ Range(k.columns) = Range(d.primary)
  <2>1. PICK n \in {r.name : r \in rows} : k = K(n)
    BY <1>2, Zenon
  <2> QED
    BY <1>9, <2>1, Zenon
<1>11. PrimaryKeys(d) = {} <=> d.primary = <<>>
  BY <1>2, <1>7, <1>8
<1>12. {Range(k.columns) : k \in PrimaryKeys(d)} = IF PrimaryKeys(d) = {} THEN {} ELSE {Range(d.primary)}
  BY <1>10
<1> QED
  BY <1>10, <1>11, <1>12

\* Each foreign key has its columns, with those they refer to.
LEMMA ForeignIs ==
  ASSUME NEW d \in Definitions
  PROVE  /\ \A k \in ForeignKeys(d) : k.type = "FOREIGN KEY"
         /\ {Pairs(k.columns, k.usage) : k \in ForeignKeys(d)} =
              {Pairs(f.columns, [i \in DOMAIN f.columns |-> <<f.table, f.referenced[i]>>]) : f \in d.foreign}
<1> DEFINE rowsOf(f) == {ForeignRow(d, f, i) : i \in DOMAIN f.columns}
           rows == UNION {rowsOf(f) : f \in d.foreign}
           K(n) == Constraint("FOREIGN KEY", rows, n)
           P(f) == Pairs(f.columns, [i \in DOMAIN f.columns |-> <<f.table, f.referenced[i]>>])
<1>1. /\ d.columns \in Seq(Int)
      /\ \A f \in d.foreign : f.columns \in Seq(Range(d.columns)) /\ f.columns # <<>>
      /\ \A f, g \in d.foreign : f.name = g.name => f = g
  BY ServerAssumption DEF IsDefinition
<1>2. ForeignKeys(d) = {K(n) : n \in {r.name : r \in rows}}
  BY GroupedIs DEF ForeignKeys, ForeignRow
<1>3. \A f \in d.foreign : \A i \in DOMAIN f.columns :
        /\ ForeignRow(d, f, i).name = f.name /\ ForeignRow(d, f, i).index \in Int
        /\ ForeignRow(d, f, i).column = f.columns[i]
        /\ ForeignRow(d, f, i).refers = <<f.table, f.referenced[i]>>
  BY <1>1, IndexType DEF ForeignRow
<1>4. \A r \in rows : r.index \in Int /\ \E f \in d.foreign : r \in rowsOf(f) /\ r.name = f.name
  BY <1>3
<1>5. ASSUME NEW f \in d.foreign
      PROVE  /\ Group(rows, f.name) = rowsOf(f) /\ rowsOf(f) # {}
             /\ IsFiniteSet(rowsOf(f))
             /\ {<<r.column, r.refers>> : r \in rowsOf(f)} = P(f)
  <2>1. \A r \in rowsOf(f) : r \in rows /\ r.name = f.name
    BY <1>3
  <2>2. ASSUME NEW r \in rows, r.name = f.name PROVE r \in rowsOf(f)
    <3>1. PICK g \in d.foreign : r \in rowsOf(g) /\ r.name = g.name
      BY <1>4
    <3>2. f = g
      BY <1>1, <2>2, <3>1
    <3> QED
      BY <3>1, <3>2
  <2>3. DOMAIN f.columns = 1..Len(f.columns) /\ Len(f.columns) \in Nat /\ 1 \in DOMAIN f.columns
    BY <1>1
  <2>4. IsFiniteSet(rowsOf(f))
    <3> DEFINE g == [i \in DOMAIN f.columns |-> ForeignRow(d, f, i)]
    <3>1. DOMAIN g = DOMAIN f.columns /\ rowsOf(f) = {g[i] : i \in DOMAIN f.columns}
      OBVIOUS
    <3>2. IsFiniteSet(DOMAIN f.columns)
      BY <2>3, FS_Interval
    <3> HIDE DEF g, rowsOf
    <3> QED
      BY <3>1, <3>2, FiniteImage
  <2>5. {<<r.column, r.refers>> : r \in rowsOf(f)} = P(f)
    <3> DEFINE u == [i \in DOMAIN f.columns |-> <<f.table, f.referenced[i]>>]
    <3>1. P(f) = {<<f.columns[i], u[i]>> : i \in DOMAIN f.columns}
      BY DEF Pairs
    <3>2. \A i \in DOMAIN f.columns : u[i] = <<f.table, f.referenced[i]>>
      OBVIOUS
    <3> HIDE DEF u, P
    <3>3. \A i \in DOMAIN f.columns :
            ForeignRow(d, f, i).column = f.columns[i] /\ ForeignRow(d, f, i).refers = u[i]
      BY <1>3, <3>2
    <3> QED
      BY <3>1, <3>3, ZenonT(40)
  <2> HIDE DEF rows, P
  <2> QED
    BY <2>1, <2>2, <2>3, <2>4, <2>5 DEF Group
<1> HIDE DEF rowsOf, P
<1>6. {r.name : r \in rows} = {f.name : f \in d.foreign}
  <2>1. ASSUME NEW f \in d.foreign PROVE \E r \in rows : r.name = f.name
    BY <1>5, <2>1 DEF Group
  <2> HIDE DEF rows
  <2> QED
    BY <1>4, <2>1
<1> HIDE DEF rows
<1>7. ASSUME NEW f \in d.foreign
      PROVE  K(f.name).type = "FOREIGN KEY" /\ Pairs(K(f.name).columns, K(f.name).usage) = P(f)
  <2>1. Group(rows, f.name) = rowsOf(f) /\ IsFiniteSet(rowsOf(f))
    BY <1>5
  <2>2. IsFiniteSet(Group(rows, f.name))
    BY <2>1, Zenon
  <2>3. \A r \in rows : r.index \in Int
    BY <1>4
  <2>4. PICK n : n = f.name
    OBVIOUS
  <2>5. IsFiniteSet(Group(rows, n))
    BY <2>2, <2>4
  <2>6. K(n).type = "FOREIGN KEY" /\ Pairs(K(n).columns, K(n).usage) = Links(Group(rows, n))
    BY <2>3, <2>5, ConstraintIs, ZenonT(40)
  <2>7. Links(Group(rows, n)) = P(f)
    BY <1>5, <2>1, <2>4 DEF Links
  <2> HIDE DEF K
  <2> QED
    BY <2>4, <2>6, <2>7, Zenon
<1> HIDE DEF K
<1>8. ForeignKeys(d) = {K(f.name) : f \in d.foreign}
  BY <1>2, <1>6
<1>9. {Pairs(k.columns, k.usage) : k \in ForeignKeys(d)} = {P(f) : f \in d.foreign}
  BY <1>7, <1>8, ZenonT(40)
<1>10. ASSUME NEW k \in ForeignKeys(d) PROVE k.type = "FOREIGN KEY"
  <2>1. PICK f \in d.foreign : k = K(f.name)
    BY <1>8, Zenon
  <2> QED
    BY <1>7, <2>1, Zenon
<1> QED
  BY <1>9, <1>10, Zenon DEF P
----------------------------------------------------------------------------
(***************************************************************************)
(* What the tables wait with.  The keys of a schema are read, and then the *)
(* columns of its tables, with nothing between: a table that is the same all*)
(* the time waits with its own keys, and is listed with them.              *)
(***************************************************************************)
\* A schema at a time: its primary keys, its foreign keys, the columns of its tables.
Queued(asks) ==
  /\ \A k \in DOMAIN asks : asks[k].kind \in Inside =>
       \A j \in 1..k : asks[j].kind \in Inside /\ SameSchema(asks[j].path, asks[k].path)
  /\ \A k \in DOMAIN asks : asks[k].kind = "primary keys" =>
       k = 1 /\ 2 \in DOMAIN asks /\ asks[2].kind = "foreign keys"
  /\ \A k \in DOMAIN asks : asks[k].kind = "foreign keys" =>
       asks[k].type = "" /\ (k = 1 \/ (k = 2 /\ asks[1].kind = "primary keys"))

\* The table of this path was there all the time, and the same.
Stays(p) ==
  /\ p \in DOMAIN world.tables
  /\ \A w \in past : p \in DOMAIN w.tables /\ w.tables[p] = world.tables[p]

\* All its keys, or all but those that could not be read.
KeysRight(p, ks) ==
  \/ ks = PrimaryKeys(world.tables[p]) \union ForeignKeys(world.tables[p])
  \/ ks = PrimaryKeys(world.tables[p]) /\ Ask("foreign keys", <<p[1], p[2]>>) \in failed

KeysSoFar(p) ==
  /\ todo[1].kind = "foreign keys" => KeysOf(p) = PrimaryKeys(world.tables[p])
  /\ todo[1].kind = "columns" => KeysRight(p, KeysOf(p))

\* The tables whose columns are asked for.
Waiting == {a.path : a \in {b \in Range(todo) : b.kind = "columns"}}

KeysInv == Queued(todo) /\ \A p \in Waiting : Stays(p) => KeysSoFar(p)

EntryRight(e) ==
  Len(e.path) = 3 /\ Stays(e.path) =>
    /\ e.columns = ListColumns(world.tables[e.path], call.column)
    /\ KeysRight(e.path, e.keys)

FoundInv == IsWalk /\ IncludeColumns => \A i \in DOMAIN found : EntryRight(found[i])

\* The columns of a table, by name.
InPlace(t) == [i \in DOMAIN world.tables[t].columns |-> Entry(Append(t, world.tables[t].columns[i]))]

SchemaInv ==
  call.op = "GetTableSchema" /\ outcome = "ok" =>
    \/ \E t \in DOMAIN world.tables : t[3] = call.name /\ found = InPlace(t)
    \/ /\ IsOpen(call.catalog) \/ IsOpen(call.schema)
       /\ \E t, u \in DOMAIN world.tables : t # u /\ t[3] = call.name /\ u[3] = call.name

TablesInv == KeysInv /\ FoundInv /\ SchemaInv
----------------------------------------------------------------------------
(***************************************************************************)
(* What the steps do to it.                                                *)
(***************************************************************************)
LEMMA TailQueued ==
  ASSUME NEW asks \in Seq(Asks), asks # <<>>, Queued(asks)
  PROVE  /\ Queued(Tail(asks))
         /\ 1 \in DOMAIN Tail(asks) =>
              /\ Tail(asks)[1].kind # "primary keys"
              /\ Tail(asks)[1].kind = "foreign keys" => asks[1].kind = "primary keys"
         /\ asks[1].kind = "primary keys" =>
              1 \in DOMAIN Tail(asks) /\ Tail(asks)[1].kind = "foreign keys"
<1> DEFINE rest == Tail(asks)
<1>1. /\ rest \in Seq(Asks) /\ 1 \in DOMAIN asks
      /\ \A k \in DOMAIN rest : rest[k] = asks[k + 1] /\ k + 1 \in DOMAIN asks /\ 1 < k + 1
      /\ \A k \in DOMAIN asks : k = 1 \/ (k - 1 \in DOMAIN rest /\ rest[k - 1] = asks[k])
  BY TailIs
<1>2. DOMAIN rest = 1..Len(rest) /\ Len(rest) \in Nat
  BY <1>1
<1> HIDE DEF rest
<1>3. ASSUME NEW k \in DOMAIN rest, rest[k].kind \in Inside, NEW j \in 1..k
      PROVE  rest[j].kind \in Inside /\ SameSchema(rest[j].path, rest[k].path)
  <2>1. j \in DOMAIN rest /\ j + 1 \in 1..(k + 1)
    BY <1>2
  <2>2. rest[k] = asks[k + 1] /\ rest[j] = asks[j + 1] /\ k + 1 \in DOMAIN asks
    BY <1>1, <2>1
  <2> QED
    BY <1>3, <2>1, <2>2, Zenon DEF Queued
<1>4. ASSUME NEW k \in DOMAIN rest PROVE rest[k].kind # "primary keys"
  <2>1. k + 1 # 1 /\ rest[k] = asks[k + 1] /\ k + 1 \in DOMAIN asks
    BY <1>1, <1>2
  <2> QED
    BY <2>1, Zenon DEF Queued
<1>5. ASSUME NEW k \in DOMAIN rest, rest[k].kind = "foreign keys"
      PROVE  rest[k].type = "" /\ k = 1 /\ asks[1].kind = "primary keys"
  <2>1. k + 1 # 1 /\ rest[k] = asks[k + 1] /\ k + 1 \in DOMAIN asks /\ k \in Int
    BY <1>1, <1>2
  <2>2. rest[k].type = "" /\ k + 1 = 2 /\ asks[1].kind = "primary keys"
    BY <1>5, <2>1, Zenon DEF Queued
  <2>3. \A n \in Int : n + 1 = 2 => n = 1
    OBVIOUS
  <2> QED
    BY <2>1, <2>2, <2>3, Zenon
<1>6. ASSUME asks[1].kind = "primary keys" PROVE 1 \in DOMAIN rest /\ rest[1].kind = "foreign keys"
  <2>1. 2 \in DOMAIN asks /\ asks[2].kind = "foreign keys"
    BY <1>1, <1>6 DEF Queued
  <2>2. 2 - 1 = 1 /\ 2 # 1
    OBVIOUS
  <2>3. 2 - 1 \in DOMAIN rest /\ rest[2 - 1] = asks[2]
    BY <1>1, <2>1, <2>2, Zenon
  <2> QED
    BY <2>1, <2>2, <2>3
<1>7. Queued(rest)
  BY <1>3, <1>4, <1>5 DEF Queued
<1> QED
  BY <1>4, <1>5, <1>6, <1>7 DEF rest

LEMMA NoneInside ==
  ASSUME NEW asks \in Seq(Asks), asks # <<>>, Queued(asks), Head(asks).kind \notin Inside,
         NEW k \in DOMAIN asks
  PROVE  asks[k].kind \notin Inside
<1>1. asks[1] = Head(asks) /\ 1 \in 1..k
  BY TailIs
<1> QED
  BY <1>1, Zenon DEF Queued

\* A step of the call, or of others during it.
GoesOn ==
  /\ call' = call /\ past \subseteq past' /\ failed \subseteq failed'
  /\ world \in past /\ world' \in past'

LEMMA StaysBack ==
  ASSUME GoesOn, NEW p, Stays(p)'
  PROVE  Stays(p) /\ world'.tables[p] = world.tables[p]
BY DEF GoesOn, Stays

LEMMA StillRight ==
  ASSUME GoesOn
  PROVE  /\ \A p, ks : Stays(p)' /\ KeysRight(p, ks) => KeysRight(p, ks)'
         /\ \A e : EntryRight(e) => EntryRight(e)'
<1>1. ASSUME NEW p, NEW ks, Stays(p)', KeysRight(p, ks) PROVE KeysRight(p, ks)'
  <2>1. world'.tables[p] = world.tables[p]
    BY <1>1, StaysBack
  <2> QED
    BY <1>1, <2>1 DEF KeysRight, GoesOn
<1>2. ASSUME NEW e, EntryRight(e) PROVE EntryRight(e)'
  <2> SUFFICES ASSUME Len(e.path) = 3, Stays(e.path)'
               PROVE  /\ e.columns = ListColumns(world'.tables[e.path], call'.column)
                      /\ KeysRight(e.path, e.keys)'
    BY DEF EntryRight
  <2>1. Stays(e.path) /\ world'.tables[e.path] = world.tables[e.path]
    BY StaysBack
  <2>2. e.columns = ListColumns(world.tables[e.path], call.column) /\ KeysRight(e.path, e.keys)
    BY <1>2, <2>1 DEF EntryRight
  <2>3. KeysRight(e.path, e.keys)'
    BY <1>1, <2>2
  <2> QED
    BY <2>1, <2>2, <2>3 DEF GoesOn
<1> QED
  BY <1>1, <1>2

LEMMA FoundStays ==
  ASSUME GoesOn, FoundInv, IsList(found), NEW entries, IsList(entries), found' = found \o entries,
         IncludeColumns => \A i \in DOMAIN entries : EntryRight(entries[i])'
  PROVE  FoundInv'
<1>1. PICK S : found \in Seq(S) /\ entries \in Seq(S)
  <2>1. PICK A : found \in Seq(A)
    BY DEF IsList
  <2>2. PICK B : entries \in Seq(B)
    BY DEF IsList
  <2>3. found \in Seq(A \union B) /\ entries \in Seq(A \union B)
    BY <2>1, <2>2
  <2> QED
    BY <2>3
<1>2. \A i \in DOMAIN found' : \/ i \in DOMAIN found /\ found'[i] = found[i]
                               \/ \E j \in DOMAIN entries : found'[i] = entries[j]
  BY <1>1, Concat
<1>3. IsWalk' = IsWalk /\ IncludeColumns' = IncludeColumns
  BY DEF GoesOn, IsWalk, IncludeColumns
<1>4. ASSUME IsWalk, IncludeColumns, NEW i \in DOMAIN found' PROVE EntryRight(found[i])'
  <2>1. CASE i \in DOMAIN found /\ found'[i] = found[i]
    <3>1. EntryRight(found[i])
      BY <1>4, <2>1 DEF FoundInv
    <3>2. \A e : EntryRight(e) => EntryRight(e)'
      BY StillRight
    <3>3. PICK e : e = found[i] /\ e = found'[i]
      BY <2>1
    <3>4. EntryRight(e)'
      BY <3>1, <3>2, <3>3
    <3> QED
      BY <3>3, <3>4 DEF EntryRight
  <2>2. CASE \E j \in DOMAIN entries : found'[i] = entries[j]
    <3>1. PICK j \in DOMAIN entries : found'[i] = entries[j]
      BY <2>2
    <3>2. PICK e : e = entries[j] /\ EntryRight(e)'
      BY <1>4, <3>1
    <3> QED
      BY <3>1, <3>2 DEF EntryRight
  <2> QED
    BY <1>2, <2>1, <2>2
<1> QED
  BY <1>3, <1>4 DEF FoundInv

LEMMA WalksOn ==
  ASSUME IInv, pc = "walking"
  PROVE  IsWalk /\ todo \in Seq(Asks) /\ IsList(found) /\ world \in past
BY DEF IInv, WalkInv, TypeOK

LEMMA UntypedAsk == ASSUME NEW a \in Asks, a.type = "" PROVE a = Ask(a.kind, a.path)
BY DEF Asks, Ask

LEMMA NotSchema == ASSUME IsWalk' PROVE SchemaInv'
BY DEF IsWalk, SchemaInv

LEMMA GoQueue ==
  ASSUME IInv, todo # <<>>, pc = "walking", NEW queries \in Seq(Asks), todo' = queries \o Tail(todo)
  PROVE  /\ todo' \in Seq(Asks) /\ DOMAIN todo' = 1..(Len(queries) + Len(Tail(todo)))
         /\ \A k \in DOMAIN queries : todo'[k] = queries[k]
         /\ \A k \in DOMAIN todo' : \/ k \in DOMAIN queries /\ todo'[k] = queries[k]
                                    \/ \E j \in DOMAIN todo : 1 < j /\ todo'[k] = todo[j]
<1>1. todo \in Seq(Asks)
  BY WalksOn
<1>2. /\ Tail(todo) \in Seq(Asks)
      /\ \A k \in DOMAIN Tail(todo) : Tail(todo)[k] = todo[k + 1] /\ k + 1 \in DOMAIN todo /\ 1 < k + 1
  BY <1>1, TailIs
<1>3. PICK rest \in Seq(Asks) : rest = Tail(todo)
  BY <1>2
<1>4. \A k \in DOMAIN rest : rest[k] = todo[k + 1] /\ k + 1 \in DOMAIN todo /\ 1 < k + 1
  BY <1>2, <1>3
<1>5. todo' = queries \o rest
  BY <1>3
<1> QED
  BY <1>3, <1>4, <1>5, Concat, SMTT(30)

LEMMA OuterRight == ASSUME IInv, TablesInv, Outer, IInv' PROVE TablesInv'
<1>1. /\ pc = "walking" /\ todo # <<>> /\ Head(todo).kind \notin Inside
      /\ IsWalk /\ todo \in Seq(Asks) /\ IsList(found) /\ world \in past
  BY WalksOn DEF Outer
<1>2. PICK queries, entries : Takes(queries, entries) /\ Go(queries, entries) /\ Above(queries, entries)
  BY DEF Outer
<1>3. /\ queries \in Seq(Asks) /\ todo' = queries \o Tail(todo) /\ found' = found \o entries
      /\ IsList(entries)
      /\ UNCHANGED <<world, call, pc, outcome, past, failed, changes>>
  BY <1>2 DEF Takes, Go
<1>4. GoesOn
  BY <1>1, <1>3 DEF GoesOn
<1>5. \A k \in DOMAIN todo' : todo'[k].kind \notin Inside
  <2>1. \A k \in DOMAIN todo : todo[k].kind \notin Inside
    BY <1>1, NoneInside DEF TablesInv, KeysInv
  <2> QED
    BY <1>1, <1>2, <1>3, <2>1, GoQueue DEF Above
<1>6. KeysInv'
  <2>1. Queued(todo')
    BY <1>5 DEF Queued, Inside, Loads
  <2>2. Waiting' = {}
    BY <1>5 DEF Waiting, Range, Inside
  <2> QED
    BY <2>1, <2>2 DEF KeysInv
<1>7. FoundInv'
  <2>1. IncludeColumns => \A i \in DOMAIN entries : EntryRight(entries[i])'
    BY <1>2 DEF Above, EntryRight
  <2> QED
    BY <1>1, <1>3, <1>4, <2>1, FoundStays DEF TablesInv
<1>8. SchemaInv'
  BY <1>1, <1>3, NotSchema DEF IsWalk
<1> QED
  BY <1>6, <1>7, <1>8 DEF TablesInv

LEMMA DescendsRight == ASSUME IInv, TablesInv, Descends, IInv' PROVE TablesInv'
<1> DEFINE path == Head(todo).path
           primary == Ask("primary keys", path)
           foreign == Ask("foreign keys", path)
           loads == <<primary, foreign>>
<1>1. /\ pc = "walking" /\ todo # <<>> /\ Head(todo).kind \notin Inside
      /\ IsWalk /\ todo \in Seq(Asks) /\ IsList(found) /\ world \in past /\ path \in Seq(Int)
  <2>1. pc = "walking" /\ todo # <<>> /\ IsNext("tables")
    BY DEF Descends, IsNext
  <2> QED
    <3>1. Head(todo).path \in Seq(Int) /\ Head(todo).kind = "tables"
      BY <2>1, NextAsk
    <3>2. Head(todo).kind \notin Inside
      BY <3>1 DEF Inside, Loads
    <3> QED
      BY <2>1, <3>1, <3>2, WalksOn
<1>2. PICK asks \in Seq(Asks) :
         /\ Takes(loads \o asks, <<>>) /\ Go(loads \o asks, <<>>)
         /\ \A k \in DOMAIN asks : asks[k].kind = "columns" /\ SameSchema(asks[k].path, path)
  BY DEF Descends
<1> HIDE DEF path
<1>3. /\ primary \in Asks /\ primary.kind = "primary keys" /\ primary.path = path
      /\ foreign \in Asks /\ foreign.kind = "foreign keys" /\ foreign.path = path /\ foreign.type = ""
  BY <1>1, AskIs DEF Loads, Ask
<1> HIDE DEF primary, foreign
<1>4. loads \in Seq(Asks) /\ Len(loads) = 2 /\ loads[1] = primary /\ loads[2] = foreign
  BY <1>3, PairIs
<1> HIDE DEF loads
<1> DEFINE queries == loads \o asks
<1>5. /\ todo' = queries \o Tail(todo) /\ found' = found \o <<>>
      /\ UNCHANGED <<world, call, pc, outcome, past, failed, changes>>
  BY <1>2 DEF Go
<1>6. /\ queries \in Seq(Asks) /\ 1 \in DOMAIN queries /\ 2 \in DOMAIN queries
      /\ queries[1] = primary /\ queries[2] = foreign
      /\ \A k \in DOMAIN queries : k \in {1, 2} \/ \E j \in DOMAIN asks : queries[k] = asks[j]
  <2>1. /\ queries \in Seq(Asks) /\ DOMAIN queries = 1..(Len(loads) + Len(asks)) /\ Len(asks) \in Nat
        /\ \A i \in 1..Len(loads) : queries[i] = loads[i]
        /\ \A i \in DOMAIN queries : i \in 1..Len(loads) \/ \E j \in 1..Len(asks) : i = Len(loads) + j
        /\ DOMAIN asks = 1..Len(asks)
        /\ \A i \in 1..Len(asks) : queries[Len(loads) + i] = asks[i]
    BY <1>4, Concat, SMTT(30)
  <2> HIDE DEF queries
  <2>2. 1 \in DOMAIN queries /\ 2 \in DOMAIN queries
    BY <1>4, <2>1
  <2>3. queries[1] = primary /\ queries[2] = foreign
    BY <1>4, <2>1
  <2>4. \A k \in DOMAIN queries : k \in {1, 2} \/ \E j \in DOMAIN asks : queries[k] = asks[j]
    BY <1>4, <2>1
  <2> QED
    BY <2>1, <2>2, <2>3, <2>4
<1> HIDE DEF queries
<1>7. \A k \in DOMAIN queries :
        /\ queries[k].kind \in Inside /\ SameSchema(queries[k].path, path)
        /\ queries[k].kind = "primary keys" => k = 1
        /\ queries[k].kind = "foreign keys" => k = 2 /\ queries[k].type = ""
  <2>1. SameSchema(path, path)
    BY DEF SameSchema
  <2>2. ASSUME NEW k \in DOMAIN queries, NEW j \in DOMAIN asks, queries[k] = asks[j]
        PROVE  queries[k].kind = "columns" /\ SameSchema(queries[k].path, path)
    BY <1>2, <2>2
  <2> QED
    BY <1>3, <1>6, <2>1, <2>2 DEF Inside, Loads
<1>8. GoesOn
  BY <1>1, <1>5 DEF GoesOn
<1>9. /\ todo' \in Seq(Asks) /\ DOMAIN queries = 1..Len(queries) /\ Len(queries) \in Nat
      /\ DOMAIN queries \subseteq DOMAIN todo'
      /\ \A k \in DOMAIN queries : todo'[k] = queries[k]
      /\ \A k \in DOMAIN todo' : k \in DOMAIN queries \/ todo'[k].kind \notin Inside
  <2>1. \A k \in DOMAIN todo : todo[k].kind \notin Inside
    BY <1>1, NoneInside DEF TablesInv, KeysInv
  <2>2. /\ DOMAIN todo' = 1..(Len(queries) + Len(Tail(todo)))
        /\ DOMAIN queries = 1..Len(queries) /\ Len(queries) \in Nat /\ Len(Tail(todo)) \in Nat
    BY <1>1, <1>5, <1>6, GoQueue, TailIs
  <2>3. DOMAIN queries \subseteq DOMAIN todo'
    BY <2>2
  <2> QED
    BY <1>1, <1>5, <1>6, <2>1, <2>2, <2>3, GoQueue, SMTT(30)
<1>10. todo'[1] = primary /\ todo'[2] = foreign /\ 2 \in DOMAIN todo'
  BY <1>6, <1>9
<1>11. Queued(todo')
  <2>1. ASSUME NEW k \in DOMAIN todo', todo'[k].kind \in Inside, NEW j \in 1..k
        PROVE  todo'[j].kind \in Inside /\ SameSchema(todo'[j].path, todo'[k].path)
    <3>1. k \in DOMAIN queries /\ j \in DOMAIN queries
      BY <1>9, <2>1
    <3>2. \A p, q : SameSchema(p, path) /\ SameSchema(q, path) => SameSchema(p, q)
      BY DEF SameSchema
    <3>3. todo'[j] = queries[j] /\ todo'[k] = queries[k]
      BY <1>9, <3>1
    <3>4. queries[j].kind \in Inside /\ SameSchema(queries[j].path, queries[k].path)
      BY <1>7, <3>1, <3>2, Zenon
    <3> QED
      BY <3>3, <3>4, Zenon
  <2>2. ASSUME NEW k \in DOMAIN todo', todo'[k].kind = "primary keys" PROVE k = 1
    BY <1>7, <1>9, <2>2 DEF Inside, Loads
  <2>3. ASSUME NEW k \in DOMAIN todo', todo'[k].kind = "foreign keys" PROVE k = 2 /\ todo'[k].type = ""
    BY <1>7, <1>9, <2>3, ZenonT(40) DEF Inside, Loads
  <2> QED
    BY <1>3, <1>10, <2>1, <2>2, <2>3 DEF Queued
<1>12. KeysInv'
  BY <1>3, <1>10, <1>11 DEF KeysInv, KeysSoFar
<1>13. FoundInv'
  BY <1>1, <1>5, <1>8, NoList, FoundStays DEF TablesInv
<1>14. SchemaInv'
  BY <1>1, <1>5, NotSchema DEF IsWalk
<1> QED
  BY <1>12, <1>13, <1>14 DEF TablesInv

\* The next query done, those behind it wait as they did.
LEMMA NextDone ==
  ASSUME IInv, pc = "walking", todo # <<>>, todo' = Tail(todo), Queued(todo)
  PROVE  /\ Queued(todo')
         /\ Head(todo).kind = "primary keys" => todo'[1].kind = "foreign keys"
         /\ \A p \in Waiting' :
              /\ p \in Waiting /\ SameSchema(Head(todo).path, p)
              /\ todo'[1].kind \in {"foreign keys", "columns"}
              /\ todo'[1].kind = "foreign keys" => Head(todo).kind = "primary keys"
              /\ Head(todo).kind \in Inside
<1>1. todo \in Seq(Asks)
  BY WalksOn
<1>2. /\ todo[1] = Head(todo) /\ 1 \in DOMAIN todo /\ Tail(todo) \in Seq(Asks)
      /\ \A k \in DOMAIN Tail(todo) : Tail(todo)[k] = todo[k + 1] /\ k + 1 \in DOMAIN todo /\ 1 < k + 1
  BY <1>1, TailIs
<1>3. /\ Queued(todo')
      /\ 1 \in DOMAIN todo' =>
              /\ todo'[1].kind # "primary keys"
              /\ todo'[1].kind = "foreign keys" => Head(todo).kind = "primary keys"
      /\ Head(todo).kind = "primary keys" => 1 \in DOMAIN todo' /\ todo'[1].kind = "foreign keys"
  BY <1>1, <1>2, TailQueued
<1>4. ASSUME NEW p \in Waiting'
      PROVE  /\ p \in Waiting /\ SameSchema(Head(todo).path, p) /\ 1 \in DOMAIN todo'
             /\ todo'[1].kind \in Inside /\ Head(todo).kind \in Inside
  <2>1. PICK k \in DOMAIN todo' : todo'[k].kind = "columns" /\ todo'[k].path = p
    BY DEF Waiting, Range
  <2>2. todo' \in Seq(Asks)
    BY <1>2
  <2>3. 1 \in DOMAIN todo' /\ 1 \in 1..k /\ 1 \in 1..(k + 1)
    BY <2>2
  <2>4. todo'[k] = todo[k + 1] /\ k + 1 \in DOMAIN todo
    BY <1>2
  <2>5. todo'[k].kind \in Inside
    BY <2>1 DEF Inside
  <2>6. SameSchema(todo[1].path, todo[k + 1].path) /\ todo[1].kind \in Inside
    BY <2>3, <2>4, <2>5, Zenon DEF Queued
  <2>7. todo'[1].kind \in Inside
    BY <1>3, <2>3, <2>5, Zenon DEF Queued
  <2>8. p \in Waiting
    BY <2>1, <2>4 DEF Waiting, Range
  <2> QED
    BY <1>2, <2>1, <2>3, <2>4, <2>6, <2>7, <2>8, Zenon
<1>5. \A kind \in Inside : kind # "primary keys" => kind \in {"foreign keys", "columns"}
  BY DEF Inside, Loads
<1> QED
  BY <1>3, <1>4, <1>5, Zenon

\* What a query of the schema does to the keys of a table that waits, and is there
\* all the time, is all that can go wrong.
LEMMA SchemaGoes ==
  ASSUME IInv, TablesInv, pc = "walking", todo # <<>>, todo' = Tail(todo), GoesOn, IsWalk',
         NEW entries, IsList(entries), found' = found \o entries,
         \A i \in DOMAIN entries : EntryRight(entries[i])',
         \A p \in Waiting' : Stays(p) /\ Stays(p)' => KeysSoFar(p)'
  PROVE  TablesInv'
<1>1. KeysInv'
  <2>1. Queued(todo')
    BY NextDone DEF TablesInv, KeysInv
  <2>2. ASSUME NEW p \in Waiting', Stays(p)' PROVE KeysSoFar(p)'
    BY <2>2, StaysBack
  <2> QED
    BY <2>1, <2>2 DEF KeysInv
<1>2. FoundInv'
  BY WalksOn, FoundStays DEF TablesInv
<1> QED
  BY <1>1, <1>2, NotSchema DEF TablesInv

LEMMA LoadsRight == ASSUME IInv, TablesInv, LoadPrimaryKeys \/ LoadForeignKeys PROVE TablesInv'
<1> DEFINE path == Head(todo).path
<1>1. /\ pc = "walking" /\ todo # <<>> /\ Head(todo).kind \in Loads /\ path \in Seq(Int) /\ Len(path) = 2
      /\ IsWalk /\ todo \in Seq(Asks) /\ IsList(found) /\ world \in past
  <2>1. PICK kind \in Loads : IsNext(kind)
    BY DEF LoadPrimaryKeys, LoadForeignKeys, Loads
  <2>2. Depth(kind) = 2
    BY Depths DEF Loads
  <2> QED
    BY <2>1, <2>2, NextAsk, WalksOn
<1>2. /\ todo' = <<>> \o Tail(todo) /\ found' = found \o <<>>
      /\ UNCHANGED <<world, call, pc, outcome, past, failed, changes>>
  BY DEF LoadPrimaryKeys, LoadForeignKeys, Go
<1>3. todo' = Tail(todo) /\ Queued(todo)
  <2>1. Tail(todo) \in Seq(Asks)
    BY <1>1, TailIs
  <2> QED
    BY <1>2, <2>1 DEF TablesInv, KeysInv
<1>4. GoesOn /\ IsWalk'
  BY <1>1, <1>2 DEF GoesOn, IsWalk
<1> HIDE DEF path
<1>5. ASSUME NEW p \in Waiting', Stays(p) PROVE KeysSoFar(p)'
  <2>1. /\ SameSchema(path, p) /\ p \in Waiting
        /\ Head(todo).kind = "primary keys" => todo'[1].kind = "foreign keys"
        /\ todo'[1].kind = "foreign keys" => Head(todo).kind = "primary keys"
    BY <1>1, <1>3, NextDone DEF path
  <2>2. p \in TablesOf(path) /\ p \in DOMAIN world.tables
    BY <1>5, <2>1 DEF Stays, TablesOf, SameSchema
  <2>3. CASE LoadPrimaryKeys
    <3>1. Head(todo).kind = "primary keys"
      BY <2>3 DEF LoadPrimaryKeys, IsNext
    <3>2. keys' = [t \in TablesOf(path) |-> PrimaryKeys(world.tables[t])]
      BY <2>3 DEF LoadPrimaryKeys, path
    <3>3. KeysOf(p)' = PrimaryKeys(world.tables[p])
      BY <2>2, <3>2 DEF KeysOf
    <3> QED
      BY <1>2, <2>1, <3>1, <3>3 DEF KeysSoFar
  <2>4. CASE LoadForeignKeys
    <3>1. Head(todo).kind = "foreign keys"
      BY <2>4 DEF LoadForeignKeys, IsNext
    <3>2. keys' = [t \in DOMAIN keys \union TablesOf(path) |->
                     KeysOf(t) \union IF t \in DOMAIN world.tables
                                        THEN ForeignKeys(world.tables[t]) ELSE {}]
      BY <2>4 DEF LoadForeignKeys, path
    <3>3. KeysOf(p)' = KeysOf(p) \union ForeignKeys(world.tables[p])
      <4>1. p \in DOMAIN keys' /\ keys'[p] = KeysOf(p) \union ForeignKeys(world.tables[p])
        BY <2>2, <3>2
      <4> QED
        BY <4>1 DEF KeysOf
    <3>4. KeysOf(p) = PrimaryKeys(world.tables[p])
      <4>1. todo[1] = Head(todo)
        BY <1>1, TailIs
      <4> QED
        BY <1>5, <2>1, <3>1, <4>1 DEF TablesInv, KeysInv, KeysSoFar
    <3> QED
      BY <1>2, <2>1, <3>1, <3>3, <3>4 DEF KeysSoFar, KeysRight
  <2> QED
    BY <2>3, <2>4
<1> QED
  BY <1>1, <1>2, <1>3, <1>4, <1>5, NoList, SchemaGoes

LEMMA ColumnsRight == ASSUME IInv, TablesInv, ListColumnsForTable PROVE TablesInv'
<1> DEFINE h == Head(todo)
           columns == IF h.path \in DOMAIN world.tables
                        THEN ListColumns(world.tables[h.path], call.column) ELSE <<>>
           entry == [path |-> h.path, type |-> h.type, columns |-> columns, keys |-> KeysOf(h.path)]
<1>1. /\ pc = "walking" /\ todo # <<>> /\ h.kind = "columns"
      /\ IsWalk /\ todo \in Seq(Asks) /\ IsList(found) /\ world \in past
  <2>1. IsNext("columns")
    BY DEF ListColumnsForTable
  <2> QED
    BY <2>1, NextAsk, WalksOn
<1>2. /\ todo' = <<>> \o Tail(todo) /\ found' = found \o <<entry>>
      /\ UNCHANGED <<world, call, pc, outcome, past, failed, changes, keys>>
  BY DEF ListColumnsForTable, Go
<1>3. /\ todo' = Tail(todo) /\ Queued(todo)
      /\ todo[1] = h /\ 1 \in DOMAIN todo
  <2>1. Tail(todo) \in Seq(Asks) /\ todo[1] = h /\ 1 \in DOMAIN todo
    BY <1>1, TailIs
  <2> QED
    BY <1>2, <2>1 DEF TablesInv, KeysInv
<1>4. GoesOn /\ IsWalk'
  BY <1>1, <1>2 DEF GoesOn, IsWalk
<1>5. ASSUME NEW p \in Waiting', Stays(p), Stays(p)' PROVE KeysSoFar(p)'
  <2>1. p \in Waiting /\ todo'[1].kind = "columns"
    BY <1>1, <1>3, NextDone
  <2>2. KeysRight(p, KeysOf(p))
    BY <1>1, <1>3, <1>5, <2>1 DEF TablesInv, KeysInv, KeysSoFar
  <2>3. KeysRight(p, KeysOf(p))'
    BY <1>2, <2>2 DEF KeysRight, KeysOf
  <2> QED
    BY <2>1, <2>3 DEF KeysSoFar
<1>6. PICK e : e = entry
  OBVIOUS
<1>7. EntryRight(e)'
  <2> DEFINE p == h.path
  <2>1. e.path = p /\ e.columns = columns /\ e.keys = KeysOf(p)
    BY <1>6
  <2> HIDE DEF entry
  <2>2. p \in Waiting
    BY <1>1, <1>3 DEF Waiting, Range
  <2>3. Stays(p) => columns = ListColumns(world.tables[p], call.column)
    BY DEF Stays
  <2>4. Stays(p) => KeysRight(p, KeysOf(p))
    BY <1>1, <1>3, <2>2 DEF TablesInv, KeysInv, KeysSoFar
  <2> HIDE DEF columns, p
  <2>5. EntryRight(e)
    BY <2>1, <2>3, <2>4 DEF EntryRight
  <2> QED
    BY <1>4, <2>5, StillRight
<1>8. found' = found \o <<e>>
  BY <1>2, <1>6
<1> HIDE DEF entry
<1>9. IsList(<<e>>) /\ \A i \in DOMAIN <<e>> : <<e>>[i] = e
  <2>1. <<e>> \in Seq({e})
    OBVIOUS
  <2>2. DOMAIN <<e>> = {1} /\ <<e>>[1] = e
    OBVIOUS
  <2> QED
    BY <2>1, <2>2 DEF IsList
<1>10. PICK es : es = <<e>>
  OBVIOUS
<1>11. found' = found \o es /\ IsList(es) /\ \A i \in DOMAIN es : es[i] = e
  BY <1>8, <1>9, <1>10
<1>12. \A i \in DOMAIN es : EntryRight(es[i])'
  <2> HIDE <1>9, <1>10
  <2>1. ASSUME NEW i \in DOMAIN es, NEW d, d = es[i] PROVE EntryRight(d)'
    <3>1. d = e
      BY <1>11, <2>1
    <3> QED
      BY <1>7, <3>1
  <2> QED
    BY <2>1
<1> QED
  BY <1>1, <1>3, <1>4, <1>5, <1>11, <1>12, SchemaGoes

LEMMA PairAgain == ASSUME NEW p \in Seq(Int), Len(p) = 2 PROVE p = <<p[1], p[2]>>
OBVIOUS

\* Foreign keys that could not be read are left out of what is kept.
LEMMA QueryFailsRight == ASSUME IInv, TablesInv, QueryFails PROVE TablesInv'
<1>1. /\ pc = "walking" /\ todo # <<>> /\ UNCHANGED <<world, call, keys, past, changes>>
      /\ failed' = failed \union {Head(todo)}
      /\ IsWalk /\ todo \in Seq(Asks) /\ IsList(found) /\ world \in past
  BY WalksOn DEF QueryFails
<1>2. GoesOn /\ IsWalk'
  BY <1>1 DEF GoesOn, IsWalk
<1>3. CASE Head(todo).kind = "foreign keys"
  <2> DEFINE path == Head(todo).path
  <2>1. todo' = Tail(todo) /\ found' = found
    BY <1>3 DEF QueryFails
  <2>2. found' = found \o <<>>
    <3>1. PICK S : found \in Seq(S)
      BY <1>1 DEF IsList
    <3> QED
      BY <2>1, <3>1
  <2>3. /\ Queued(todo) /\ Head(todo) = Ask("foreign keys", path) /\ path \in Seq(Int) /\ Len(path) = 2
        /\ todo[1] = Head(todo)
    <3>1. IsNext("foreign keys")
      BY <1>1, <1>3 DEF IsNext
    <3>2. Head(todo) \in Asks /\ path \in Seq(Int) /\ Len(path) = 2
      BY <3>1, NextAsk, Depths
    <3>3. todo[1] = Head(todo) /\ 1 \in DOMAIN todo
      BY <1>1, TailIs
    <3>4. Queued(todo)
      BY DEF TablesInv, KeysInv
    <3>5. Head(todo).type = ""
      BY <1>3, <3>3, <3>4, Zenon DEF Queued
    <3>6. Head(todo) = Ask(Head(todo).kind, Head(todo).path)
      BY <3>2, <3>5, UntypedAsk
    <3> HIDE DEF path
    <3> QED
      BY <1>3, <3>2, <3>3, <3>4, <3>6 DEF path
  <2> HIDE DEF path
  <2>4. ASSUME NEW p \in Waiting', Stays(p) PROVE KeysSoFar(p)'
    <3>1. /\ SameSchema(path, p) /\ p \in Waiting
          /\ todo'[1].kind = "foreign keys" => Head(todo).kind = "primary keys"
      BY <1>1, <2>1, <2>3, NextDone DEF path
    <3>2. path = <<p[1], p[2]>>
      <4>1. path = <<path[1], path[2]>>
        BY <2>3, PairAgain
      <4>2. path[1] = p[1] /\ path[2] = p[2]
        BY <3>1 DEF SameSchema
      <4> QED
        BY <4>1, <4>2
    <3>3. KeysOf(p) = PrimaryKeys(world.tables[p])
      BY <1>3, <2>3, <2>4, <3>1 DEF TablesInv, KeysInv, KeysSoFar
    <3>4. KeysOf(p)' = PrimaryKeys(world.tables[p])
      BY <1>1, <3>3 DEF KeysOf
    <3>5. Ask("foreign keys", <<p[1], p[2]>>) \in failed'
      BY <1>1, <2>3, <3>2, Zenon
    <3>6. KeysRight(p, KeysOf(p))'
      BY <1>1, <3>4, <3>5 DEF KeysRight
    <3>7. todo'[1].kind # "foreign keys"
      BY <1>3, <3>1
    <3> QED
      BY <3>6, <3>7 DEF KeysSoFar
  <2> QED
    BY <1>1, <1>2, <2>1, <2>2, <2>3, <2>4, NoList, SchemaGoes
<1>4. CASE Head(todo).kind # "foreign keys"
  <2>1. todo' = <<>> /\ found' = <<>>
    BY <1>4 DEF QueryFails
  <2>2. Queued(todo') /\ Waiting' = {}
    BY <2>1, NoList DEF Queued, Waiting, Range
  <2> QED
    BY <1>2, <2>1, <2>2, NoList, NotSchema DEF TablesInv, KeysInv, FoundInv
<1> QED
  BY <1>3, <1>4

LEMMA ReturnRight == ASSUME IInv, TablesInv, Return PROVE TablesInv'
<1>1. /\ pc = "walking" /\ UNCHANGED <<world, call, todo, keys, found, past, failed>>
      /\ IsWalk /\ world \in past
  BY WalksOn DEF Return
<1>2. GoesOn /\ IsWalk'
  BY <1>1 DEF GoesOn, IsWalk
<1>3. ASSUME NEW p, KeysSoFar(p) PROVE KeysSoFar(p)'
  BY <1>1, <1>3 DEF KeysSoFar, KeysOf, KeysRight
<1>4. KeysInv'
  <2>1. Waiting' = Waiting
    BY <1>1 DEF Waiting
  <2> QED
    BY <1>1, <1>2, <1>3, <2>1, StaysBack DEF TablesInv, KeysInv
<1>5. FoundInv'
  <2>1. ASSUME NEW i \in DOMAIN found, EntryRight(found[i]) PROVE EntryRight(found[i])'
    BY <1>1, <2>1 DEF EntryRight, Stays, KeysRight
  <2> QED
    BY <1>1, <2>1 DEF TablesInv, FoundInv, IsWalk, IncludeColumns
<1> QED
  BY <1>2, <1>4, <1>5, NotSchema DEF TablesInv

LEMMA GetObjectsRight == ASSUME NEW c \in Calls, GetObjects(c) PROVE TablesInv'
<1> DEFINE a == Ask("catalogs", <<>>)
<1>1. todo' = <<a>> /\ found' = <<>> /\ IsWalk'
  BY DEF GetObjects, IsWalk
<1>2. a.kind \notin Inside
  BY DEF Ask, Inside, Loads
<1> HIDE DEF a
<1>3. DOMAIN <<a>> = {1} /\ <<a>>[1] = a
  OBVIOUS
<1>4. \A k \in DOMAIN todo' : todo'[k].kind \notin Inside
  BY <1>1, <1>2, <1>3
<1>5. Queued(todo') /\ Waiting' = {}
  BY <1>4 DEF Queued, Waiting, Range, Inside, Loads
<1>6. KeysInv'
  BY <1>5 DEF KeysInv
<1>7. FoundInv'
  BY <1>1, NoList DEF FoundInv
<1> QED
  BY <1>1, <1>6, <1>7, NotSchema DEF TablesInv

LEMMA OthersRight == ASSUME IInv, TablesInv, Others PROVE TablesInv'
<1>1. PICK w : Changes(w)
  BY ZenonT(40) DEF Others
<1>2. /\ pc = "walking" /\ UNCHANGED <<call, todo, keys, found, failed>>
      /\ IsWalk /\ IsList(found) /\ world \in past /\ past' = past \union {w} /\ world' = w
  BY <1>1, WalksOn DEF Others, Changes
<1>3. GoesOn /\ IsWalk'
  BY <1>2 DEF GoesOn, IsWalk
<1>4. ASSUME NEW p, Stays(p)', Stays(p) => KeysSoFar(p) PROVE KeysSoFar(p)'
  <2>1. KeysSoFar(p) /\ world'.tables[p] = world.tables[p]
    BY <1>3, <1>4, StaysBack
  <2> QED
    BY <1>2, <2>1 DEF KeysSoFar, KeysOf, KeysRight
<1>5. KeysInv'
  <2>1. Waiting' = Waiting
    BY <1>2 DEF Waiting
  <2> QED
    BY <1>2, <1>4, <2>1 DEF TablesInv, KeysInv
<1>6. FoundInv'
  <2>1. found' = found \o <<>>
    <3>1. PICK S : found \in Seq(S)
      BY <1>2 DEF IsList
    <3> QED
      BY <1>2, <3>1
  <2> QED
    BY <1>2, <1>3, <2>1, NoList, FoundStays DEF TablesInv
<1> QED
  BY <1>3, <1>5, <1>6, NotSchema DEF TablesInv

LEMMA NothingRight == ASSUME TablesInv, UNCHANGED vars PROVE TablesInv'
<1>1. UNCHANGED <<world, call, todo, keys, found, past, failed, outcome>>
  BY DEF vars
<1>2. KeysInv'
  <2>1. Waiting' = Waiting
    BY <1>1 DEF Waiting
  <2>2. ASSUME NEW p, Stays(p) => KeysSoFar(p) PROVE (Stays(p) => KeysSoFar(p))'
    BY <1>1, <2>2 DEF Stays, KeysSoFar, KeysOf, KeysRight
  <2> QED
    BY <1>1, <2>1, <2>2 DEF TablesInv, KeysInv
<1>3. FoundInv'
  <2>1. ASSUME NEW i \in DOMAIN found, EntryRight(found[i]) PROVE EntryRight(found[i])'
    BY <1>1, <2>1 DEF EntryRight, Stays, KeysRight
  <2> QED
    BY <1>1, <2>1 DEF TablesInv, FoundInv, IsWalk, IncludeColumns
<1>4. SchemaInv'
  BY <1>1 DEF TablesInv, SchemaInv, InPlace
<1> QED
  BY <1>2, <1>3, <1>4 DEF TablesInv
----------------------------------------------------------------------------
(***************************************************************************)
(* GetTableSchema: the rows of one table are its columns.                  *)
(***************************************************************************)
\* One table has one column at each place.
LEMMA OneAtPlace ==
  ASSUME NEW t, NEW i, i <= Width(t), NEW cell, cell = Entry(Append(t, world.tables[t].columns[i]))
  PROVE  AtPlace({t}, i) = {<<cell>>}
<1>1. {u \in {t} : i <= Width(u)} = {t}
  OBVIOUS
<1>2. Orders({t}) = {<<t>>}
  <2>1. Cardinality({t}) = 1
    BY FS_Singleton
  <2>2. 1..1 = {1} /\ <<t>> \in [{1} -> {t}] /\ Range(<<t>>) = {t}
    BY DEF Range
  <2>3. \A order \in [{1} -> {t}] : order = <<t>>
    OBVIOUS
  <2> QED
    BY <2>1, <2>2, <2>3, Zenon DEF Orders
<1>3. AtPlace({t}, i) = {[k \in DOMAIN <<t>> |-> Entry(Append(<<t>>[k], world.tables[<<t>>[k]].columns[i]))]}
  <2> DEFINE M(order) == [k \in DOMAIN order |-> Entry(Append(order[k], world.tables[order[k]].columns[i]))]
  <2>1. AtPlace({t}, i) = {M(order) : order \in Orders({u \in {t} : i <= Width(u)})}
    BY DEF AtPlace
  <2>2. AtPlace({t}, i) = {M(order) : order \in {<<t>>}}
    BY <1>1, <1>2, <2>1
  <2> HIDE DEF M
  <2>3. AtPlace({t}, i) = {M(<<t>>)}
    BY <2>2
  <2> QED
    BY <2>3 DEF M
<1>4. DOMAIN <<t>> = {1} /\ <<t>>[1] = t
  OBVIOUS
<1>5. [k \in DOMAIN <<t>> |-> Entry(Append(<<t>>[k], world.tables[<<t>>[k]].columns[i]))] = [k \in {1} |-> cell]
  BY <1>4
<1>6. [k \in {1} |-> cell] = <<cell>>
  OBVIOUS
<1> QED
  BY <1>3, <1>5, <1>6

\* The columns of one table, in their order.
LEMMA RowsOfOne ==
  ASSUME NEW t, world.tables[t].columns \in Seq(Int)
  PROVE  Rows({t}) = {InPlace(t)}
<1> DEFINE columns == world.tables[t].columns
           n == Len(columns)
           widest == CHOOSE m \in {Width(u) : u \in {t}} : \A u \in {t} : Width(u) <= m
           L == InPlace(t)
           E == {L[i] : i \in 1..n}
           Is(m, f) == f = [i \in 0..m |-> IF i = 0 THEN {<<>>} ELSE Followed(f[i - 1], AtPlace({t}, i))]
           r(m) == CHOOSE f : Is(m, f)
           g == [i \in 0..n |-> {SubSeq(L, 1, i)}]
<1>1. n \in Nat /\ DOMAIN columns = 1..n /\ Width(t) = n
  BY DEF Width
<1>2. L = [i \in 1..n |-> Entry(Append(t, columns[i]))]
  BY <1>1 DEF InPlace
<1>3. L \in Seq(E) /\ Len(L) = n
  <2>1. L \in [1..n -> E]
    BY <1>2
  <2> HIDE DEF L, E, n
  <2> QED
    BY <1>1, <2>1
<1>4. Rows({t}) = r(widest)[widest]
  BY DEF Rows
<1>5. widest = n
  BY <1>1
<1> HIDE DEF widest, L, E, r, n
<1>6. ASSUME NEW i \in 1..n PROVE Followed({SubSeq(L, 1, i - 1)}, AtPlace({t}, i)) = {SubSeq(L, 1, i)}
  <2>1. L[i] = Entry(Append(t, world.tables[t].columns[i])) /\ L[i] \in E
    BY <1>2 DEF E
  <2>2. i <= Width(t)
    BY <1>1
  <2>3. AtPlace({t}, i) = {<<L[i]>>}
    BY <2>1, <2>2, OneAtPlace
  <2>4. SubSeq(L, 1, i) = Append(SubSeq(L, 1, i - 1), L[i]) /\ SubSeq(L, 1, i - 1) \in Seq(E)
    BY <1>3, PrefixNext
  <2>5. Append(SubSeq(L, 1, i - 1), L[i]) = SubSeq(L, 1, i - 1) \o <<L[i]>>
    <3>1. PICK s \in Seq(E), c \in E : s = SubSeq(L, 1, i - 1) /\ c = L[i]
      BY <2>1, <2>4
    <3>2. Append(s, c) = s \o <<c>>
      BY AppendIs
    <3> QED
      BY <3>1, <3>2
  <2>6. \A a, b : Followed({a}, {b}) = {a \o b}
    BY DEF Followed
  <2> QED
    BY <2>3, <2>4, <2>5, <2>6, ZenonT(40)
<1>7. g[0] = {<<>>} /\ \A i \in 1..n : g[i] = Followed(g[i - 1], AtPlace({t}, i))
  <2>1. SubSeq(L, 1, 0) = <<>>
    BY <1>3
  <2>2. 0 \in 0..n /\ \A i \in 1..n : i \in 0..n /\ i - 1 \in 0..n
    BY <1>1
  <2>3. \A i \in 0..n : g[i] = {SubSeq(L, 1, i)}
    OBVIOUS
  <2> HIDE DEF g
  <2> QED
    BY <1>6, <2>1, <2>2, <2>3, Zenon
<1>8. Is(n, g)
  <2>1. g = [i \in 0..n |-> g[i]]
    OBVIOUS
  <2>2. \A i \in 0..n : i = 0 \/ i \in 1..n
    BY <1>1
  <2> HIDE DEF g
  <2> QED
    BY <1>7, <2>1, <2>2
<1>9. Is(n, r(n))
  BY <1>8 DEF r
<1>10. r(n)[n] = g[n]
  <2> DEFINE f == r(n)
  <2>1. f[0] = {<<>>} /\ \A i \in 1..n : f[i] = Followed(f[i - 1], AtPlace({t}, i))
    <3>1. f = [i \in 0..n |-> IF i = 0 THEN {<<>>} ELSE Followed(f[i - 1], AtPlace({t}, i))]
      BY <1>9
    <3>2. 0 \in 0..n /\ \A i \in 1..n : i \in 0..n /\ i # 0
      BY <1>1
    <3> HIDE DEF f
    <3>3. \A i \in 0..n : f[i] = IF i = 0 THEN {<<>>} ELSE Followed(f[i - 1], AtPlace({t}, i))
      BY <3>1
    <3> QED
      BY <3>2, <3>3, Zenon
  <2> HIDE DEF f, g
  <2>2. f[0] = g[0] /\ \A i \in 1..n : f[i - 1] = g[i - 1] => f[i] = g[i]
    BY <1>7, <2>1
  <2> QED
    BY <1>1, <2>2, Alike DEF f
<1>11. g[n] = {L}
  <2>1. SubSeq(L, 1, n) = L /\ n \in 0..n
    BY <1>1, <1>3
  <2> QED
    BY <2>1
<1> QED
  BY <1>4, <1>5, <1>10, <1>11, Zenon DEF L

LEMMA GetTableSchemaRight == ASSUME IInv, TablesInv, NEW c \in Calls, GetTableSchema(c) PROVE TablesInv'
<1>1. /\ pc = "idle" /\ call' = c /\ c.op = "GetTableSchema" /\ UNCHANGED <<world, pc, todo, keys, changes>>
      /\ todo = <<>> /\ IsWorld(world)
      /\ outcome' = "ok" => Named(c) # {} /\ found' \in Rows(Named(c))
  BY DEF GetTableSchema, IInv, TypeOK
<1>2. KeysInv' /\ FoundInv'
  <2>1. Queued(todo') /\ Waiting' = {}
    BY <1>1, NoList DEF Queued, Waiting, Range
  <2>2. ~IsWalk'
    BY <1>1 DEF IsWalk
  <2> QED
    BY <2>1, <2>2 DEF KeysInv, FoundInv
<1>3. ASSUME NEW t \in Named(c), Named(c) = {t}, outcome' = "ok"
      PROVE  t \in DOMAIN world.tables /\ t[3] = c.name /\ found' = InPlace(t)'
  <2>1. t \in DOMAIN world.tables /\ t[3] = c.name
    BY DEF Named
  <2>2. world.tables[t].columns \in Seq(Int)
    BY <1>1, <2>1, ServerAssumption DEF IsWorld, IsDefinition
  <2>3. found' \in {InPlace(t)}
    BY <1>1, <1>3, <2>2, RowsOfOne
  <2>4. InPlace(t)' = InPlace(t)
    BY <1>1 DEF InPlace
  <2> QED
    BY <2>1, <2>3, <2>4
<1>4. ASSUME outcome' = "ok", NEW t \in Named(c), Named(c) # {t}
      PROVE  /\ IsOpen(c.catalog) \/ IsOpen(c.schema)
             /\ \E u \in DOMAIN world.tables : t \in DOMAIN world.tables /\ t # u /\ t[3] = c.name /\ u[3] = c.name
  <2>1. PICK u \in Named(c) : u # t
    BY <1>4
  <2>2. t \in DOMAIN world.tables /\ u \in DOMAIN world.tables /\ t[3] = c.name /\ u[3] = c.name
    BY DEF Named
  <2>3. t = <<t[1], t[2], t[3]>> /\ u = <<u[1], u[2], u[3]>>
    <3>1. t \in [1..3 -> Int] /\ u \in [1..3 -> Int]
      BY <1>1, <2>2 DEF IsWorld, Path
    <3> QED
      BY <3>1
  <2>4. ASSUME ~IsOpen(c.catalog), ~IsOpen(c.schema) PROVE FALSE
    <3>1. Cardinality(c.catalog) = 1 /\ Cardinality(c.schema) = 1 /\ IsFiniteSet(c.catalog) /\ IsFiniteSet(c.schema)
      BY <1>1, <2>4, CallsAssumption
    <3>s. \A S : IsFiniteSet(S) /\ Cardinality(S) = 1 => \E x : S = {x}
      BY FS_Singleton
    <3>x. PICK x : c.catalog = {x}
      BY <3>1, <3>s
    <3>y. PICK y : c.schema = {y}
      BY <3>1, <3>s
    <3>2. c.catalog = {x} /\ c.schema = {y}
      BY <3>x, <3>y
    <3>3. t[1] = x /\ u[1] = x /\ t[2] = y /\ u[2] = y
      BY <2>4, <3>2 DEF Named
    <3> QED
      BY <2>1, <2>2, <2>3, <3>3
  <2> QED
    BY <2>1, <2>2, <2>4
<1>5. SchemaInv'
  <2> SUFFICES ASSUME outcome' = "ok" PROVE SchemaInv'
    BY DEF SchemaInv
  <2>1. PICK t : t \in Named(c)
    BY <1>1
  <2>2. CASE Named(c) = {t}
    BY <1>1, <1>3, <2>1, <2>2 DEF SchemaInv
  <2>3. CASE Named(c) # {t}
    BY <1>1, <1>4, <2>1, <2>3 DEF SchemaInv
  <2> QED
    BY <2>2, <2>3
<1> QED
  BY <1>2, <1>5 DEF TablesInv
----------------------------------------------------------------------------
(***************************************************************************)
(* The properties, and the theorem.                                        *)
(***************************************************************************)
LEMMA OneTableHolds == IInv /\ TablesInv => OneTable
<1> SUFFICES ASSUME IInv, TablesInv, call.op = "GetTableSchema", outcome = "ok" PROVE OneTable
  BY DEF OneTable
<1> DEFINE namesakes == {t \in DOMAIN world.tables : t[3] = call.name}
<1>1. CASE \E t \in DOMAIN world.tables : t[3] = call.name /\ found = InPlace(t)
  <2>1. PICK t \in namesakes : found = InPlace(t)
    BY <1>1
  <2>2. /\ DOMAIN found = DOMAIN world.tables[t].columns
        /\ \A i \in DOMAIN found : found[i].path = Append(t, world.tables[t].columns[i])
    BY <2>1 DEF InPlace, Entry
  <2>3. [i \in DOMAIN found |-> found[i].path] =
          [i \in DOMAIN world.tables[t].columns |-> Append(t, world.tables[t].columns[i])]
    BY <2>2
  <2> QED
    BY <2>3, Zenon DEF OneTable
<1>2. CASE /\ IsOpen(call.catalog) \/ IsOpen(call.schema)
           /\ \E t, u \in DOMAIN world.tables : t # u /\ t[3] = call.name /\ u[3] = call.name
  <2>1. PICK t \in namesakes, u \in namesakes : t # u
    BY <1>2
  <2>2. IsFiniteSet(namesakes)
    BY FS_Subset DEF IInv, TypeOK, IsWorld
  <2>3. IsFiniteSet({t, u}) /\ Cardinality({t, u}) = 2
    <3>1. IsFiniteSet({t}) /\ Cardinality({t}) = 1 /\ u \notin {t} /\ {t} \union {u} = {t, u}
      BY <2>1, FS_Singleton
    <3>2. IsFiniteSet({t} \union {u}) /\ Cardinality({t} \union {u}) = 1 + 1
      BY <3>1, FS_AddElement
    <3> QED
      BY <3>1, <3>2
  <2>4. {t, u} \subseteq namesakes
    BY <2>1
  <2> HIDE DEF namesakes
  <2>5. Cardinality({t, u}) <= Cardinality(namesakes)
    BY <2>2, <2>4, FS_Subset
  <2>6. Cardinality(namesakes) > 1
    BY <2>2, <2>3, <2>5, FS_CardinalityType
  <2> QED
    BY <1>2, <2>6 DEF OneTable, namesakes
<1> QED
  BY <1>1, <1>2 DEF TablesInv, SchemaInv

LEMMA FirstTwo == ASSUME NEW p \in [1..3 -> Int] PROVE SubSeq(p, 1, 2) = <<p[1], p[2]>>
<1>1. p \in Seq(Int) /\ Len(p) = 3
  <2>1. \A n \in 1..3 : \A r \in [1..n -> Int] : r \in Seq(Int) /\ Len(r) = n
    OBVIOUS
  <2>2. 3 \in 1..3
    OBVIOUS
  <2> QED
    BY <2>1, <2>2, Zenon
<1> DEFINE q == SubSeq(p, 1, 2)
<1>2. q \in Seq(Int) /\ Len(q) = 2 /\ q[1] = p[1] /\ q[2] = p[2]
  BY <1>1
<1> HIDE DEF q
<1>3. q = <<q[1], q[2]>>
  BY <1>2, PairAgain
<1> QED
  BY <1>2, <1>3 DEF q

LEMMA AsTheyAreHolds == IInv /\ TablesInv => AsTheyAre
<1> SUFFICES ASSUME IInv, TablesInv, Walked, call.depth = "all", NEW e \in Range(found),
                    Len(e.path) = 3, \A w \in past : Exists(w, e.path),
                    \A w \in past : w.tables[e.path] = world.tables[e.path]
             PROVE  LET d == world.tables[e.path]
                        Of(type) == {k \in e.keys : k.type = type}
                        foreign == {Pairs(f.columns, [i \in DOMAIN f.columns |-> <<f.table, f.referenced[i]>>]) :
                                      f \in d.foreign}
                    IN  /\ e.columns = ListColumns(d, call.column)
                        /\ {Range(k.columns) : k \in Of("PRIMARY KEY")} =
                             IF d.primary = <<>> THEN {} ELSE {Range(d.primary)}
                        /\ \/ {Pairs(k.columns, k.usage) : k \in Of("FOREIGN KEY")} = foreign
                           \/ /\ Of("FOREIGN KEY") = {}
                              /\ Ask("foreign keys", SubSeq(e.path, 1, 2)) \in failed
  BY DEF AsTheyAre, ListColumns
<1> DEFINE p == e.path
           d == world.tables[p]
           Of(type) == {k \in e.keys : k.type = type}
           foreign == {Pairs(f.columns, [i \in DOMAIN f.columns |-> <<f.table, f.referenced[i]>>]) : f \in d.foreign}
<1>1. IsWalk /\ IncludeColumns /\ IsList(found) /\ world \in past /\ IsWorld(world)
  BY DEF Walked, IncludeColumns, IInv, WalkInv, TypeOK
<1>2. Stays(p)
  BY <1>1 DEF Stays, Exists
<1>3. d \in Definitions
  BY <1>1, <1>2 DEF Stays, IsWorld
<1>4. p \in DOMAIN world.tables /\ SubSeq(p, 1, 2) = <<p[1], p[2]>>
  <2>1. p \in DOMAIN world.tables
    BY <1>2 DEF Stays
  <2>2. p \in [1..3 -> Int]
    BY <1>1, <2>1 DEF IsWorld, Path
  <2> HIDE DEF p
  <2> QED
    BY <2>1, <2>2, FirstTwo
<1>5. EntryRight(e)
  BY <1>1 DEF TablesInv, FoundInv, Range
<1>6. e.columns = ListColumns(d, call.column) /\ KeysRight(p, e.keys)
  BY <1>2, <1>5 DEF EntryRight
<1>7. /\ \A k \in PrimaryKeys(d) : k.type = "PRIMARY KEY"
      /\ {Range(k.columns) : k \in PrimaryKeys(d)} = IF d.primary = <<>> THEN {} ELSE {Range(d.primary)}
  BY <1>3, PrimaryIs
<1>8. /\ \A k \in ForeignKeys(d) : k.type = "FOREIGN KEY"
      /\ {Pairs(k.columns, k.usage) : k \in ForeignKeys(d)} = foreign
  BY <1>3, ForeignIs
<1> HIDE DEF foreign
<1>9. Of("PRIMARY KEY") = PrimaryKeys(d)
  <2>1. e.keys = PrimaryKeys(d) \union ForeignKeys(d) \/ e.keys = PrimaryKeys(d)
    BY <1>6 DEF KeysRight
  <2> QED
    BY <1>7, <1>8, <2>1
<1>10. \/ Of("FOREIGN KEY") = ForeignKeys(d)
       \/ Of("FOREIGN KEY") = {} /\ Ask("foreign keys", SubSeq(p, 1, 2)) \in failed
  <2>1. \/ e.keys = PrimaryKeys(d) \union ForeignKeys(d)
        \/ e.keys = PrimaryKeys(d) /\ Ask("foreign keys", SubSeq(p, 1, 2)) \in failed
    BY <1>4, <1>6 DEF KeysRight
  <2> QED
    BY <1>7, <1>8, <2>1
<1> QED
  BY <1>6, <1>7, <1>8, <1>9, <1>10, Zenon DEF foreign

LEMMA TablesStep == IInv /\ TablesInv /\ [Next]_vars => TablesInv'
<1> SUFFICES ASSUME IInv, TablesInv, [Next]_vars PROVE TablesInv'
  OBVIOUS
<1>0. IInv'
  BY IInvStep
<1>1. CASE \E c \in Calls : GetObjects(c) \/ GetTableSchema(c)
  BY <1>1, GetObjectsRight, GetTableSchemaRight
<1>2. CASE Catalogs \/ Catalog \/ Schemas \/ Schema
  BY <1>0, <1>2, CatalogsGo, CatalogGo, SchemasGo, SchemaGo, OuterRight
<1>3. CASE Tables \/ LoadPrimaryKeys \/ LoadForeignKeys \/ ListColumnsForTable
  BY <1>0, <1>3, TablesGo, OuterRight, DescendsRight, LoadsRight, ColumnsRight
<1>4. CASE Return \/ QueryFails \/ Others
  BY <1>4, ReturnRight, QueryFailsRight, OthersRight
<1>5. CASE UNCHANGED vars
  BY <1>5, NothingRight
<1> QED
  BY <1>1, <1>2, <1>3, <1>4, <1>5 DEF Next

LEMMA InitTables == Init => TablesInv
<1> SUFFICES ASSUME Init PROVE TablesInv
  OBVIOUS
<1>1. todo = <<>> /\ found = <<>> /\ outcome = "none"
  BY DEF Init
<1>2. Queued(todo) /\ Waiting = {}
  BY <1>1, NoList DEF Queued, Waiting, Range
<1> QED
  BY <1>1, <1>2, NoList DEF TablesInv, KeysInv, FoundInv, SchemaInv

\* For any server and any changes by others: a table that nobody changed during
\* GetObjects is listed with its own columns and keys, and GetTableSchema gives the
\* columns of one table unless the caller left open which.
THEOREM TablesAlwaysOK == Spec => []TablesOK
<1>1. IInv /\ TablesInv => TablesOK
  BY AsTheyAreHolds, OneTableHolds DEF TablesOK
<1> QED
  BY <1>1, Inductive, InitTables, TablesStep, PTL DEF Spec
=============================================================================
