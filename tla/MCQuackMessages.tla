-------------------------- MODULE MCQuackMessages --------------------------
(***************************************************************************)
(* Numbers of 9 bits in groups of 4, so bytes of 5, for 64, 7 and 8: three *)
(* groups hold three bits too many, as ten of 7 hold six.  Every message,  *)
(* every kind of type, and what only servers write: vectors that are       *)
(* constant, by dictionary, a sequence, or nested.                         *)
(***************************************************************************)
EXTENDS QuackMessages

A == <<1>>
AB == <<1, 2>>

Plain(id) == [id |-> id, info |-> Nothing]
TypeWith(id, i) == [id |-> id, info |-> Just(i)]
TinyInt == Plain(11)
Integer == Plain(13)
Varchar == Plain(25)

MCStruct == TypeWith(100, [kind |-> Kinds.struct, alias |-> <<>>,
                           children |-> <<[name |-> A, type |-> TinyInt],
                                          [name |-> AB, type |-> Varchar]>>])
MCList == TypeWith(101, [kind |-> Kinds.list, alias |-> <<>>, child |-> TinyInt])
MCArray == TypeWith(108, [kind |-> Kinds.array, alias |-> <<>>, child |-> TinyInt, size |-> 2])

MCInfos ==
  {[kind |-> Kinds.generic, alias |-> A],
   [kind |-> Kinds.decimal, alias |-> <<>>, width |-> 9, scale |-> 0],
   [kind |-> Kinds.string, alias |-> <<>>, collation |-> AB],
   [kind |-> Kinds.enum, alias |-> A, values |-> <<A, AB>>],
   [kind |-> Kinds.unbound, alias |-> <<>>, name |-> A, catalog |-> <<>>, schema |-> AB],
   [kind |-> Kinds.aggregate, alias |-> <<>>, function |-> A, returns |-> Integer,
    args |-> <<TinyInt, MCList>>],
   [kind |-> Kinds.any, alias |-> <<>>, target |-> Varchar, score |-> Invalid],
   [kind |-> Kinds.literal, alias |-> <<>>],
   [kind |-> Kinds.template, alias |-> <<>>, name |-> AB],
   [kind |-> Kinds.geo, alias |-> <<>>, crs |-> [definition |-> A]],
   [kind |-> Kinds.geo, alias |-> <<>>, crs |-> [definition |-> <<>>]]}
MCTypes == {TypeWith(104, i) : i \in MCInfos} \cup {MCStruct, MCList, MCArray}

Message(type, body) ==
  [header |-> [type |-> type, connection |-> IF type = 1 THEN <<>> ELSE A,
               query |-> IF type < 5 THEN Nothing ELSE Just(5)],
   body |-> body]

Uuid == [upper |-> -MaxInt - 1, lower |-> Invalid]

Chunk(rows, types, columns) ==
  [rows |-> rows, types |-> types, columns |-> [c \in DOMAIN columns |-> Just(columns[c])]]

MCChunks ==
  {Chunk(0, <<TinyInt>>, <<<<>>>>),
   Chunk(2, <<TinyInt, Varchar>>, <<<<Just(<<7>>), Nothing>>, <<Just(<<>>), Just(AB)>>>>),
   Chunk(6, <<TinyInt>>, <<[i \in 1..6 |-> IF i = 3 THEN Nothing ELSE Just(<<i>>)]>>),
   Chunk(2, <<Varchar, Integer>>, <<<<Nothing, Just(A)>>, <<Just(<<1, 2, 3, 4>>), Nothing>>>>)}

Fetched(results) == Message(8, [results |-> results, batch |-> Just(2)])

MCMessages ==
  {Message(1, [auth |-> a, version |-> v, platform |-> v, min |-> n, max |-> 2 * n]) :
     a \in {<<>>, A}, v \in {<<>>, AB}, n \in {0, 1}} \cup
  {Message(2, [version |-> v, platform |-> AB, quack |-> q]) :
     v \in {<<>>, A}, q \in {Nothing, Just(0), Just(Invalid)}} \cup
  {Message(3, [sql |-> s]) : s \in {<<>>, A, [i \in 1..17 |-> 3]}} \cup
  {Message(4, [types |-> <<>>, names |-> <<>>, more |-> more, results |-> <<>>, uuid |-> Uuid]) :
     more \in BOOLEAN} \cup
  {Message(4, [types |-> <<t, Integer>>, names |-> <<A, AB>>, more |-> TRUE,
               results |-> <<>>, uuid |-> Uuid]) : t \in MCTypes} \cup
  {Message(4, [types |-> c.types, names |-> <<A>>, more |-> FALSE,
               results |-> <<c>>, uuid |-> Uuid]) : c \in MCChunks} \cup
  {Message(7, [uuid |-> Uuid])} \cup
  {Message(8, [results |-> <<>>, batch |-> b]) : b \in {Nothing, Just(0), Just(300)}} \cup
  {Fetched(<<c, c>>) : c \in MCChunks} \cup
  {Message(9, [schema |-> s, table |-> AB, chunk |-> c]) : s \in {<<>>, A}, c \in MCChunks} \cup
  {Message(10, <<>>), Message(11, <<>>), Message(100, [message |-> AB])}

MCWritten ==
  [message |-> MCMessages,
   uleb |-> 0..Invalid,
   sleb |-> (-MaxInt - 1)..MaxInt,
   huge |-> [upper : {-MaxInt - 1, -9, -1, 0, 8, MaxInt}, lower : {0, 16, Invalid}]]
----------------------------------------------------------------------------
(***************************************************************************)
(* What servers write.                                                     *)
(***************************************************************************)
MaskBytes(rows) ==
  IF \E i \in DOMAIN rows : rows[i] = Nothing
    THEN WriteField(100, WriteBool(TRUE)) \o WriteField(101, WriteString(ValidityToBytes(rows)))
    ELSE WriteField(100, WriteBool(FALSE))
Bytes1(bytes) == MaskBytes(<<>>) \o WriteField(102, WriteString(bytes))
Strings(items) == MaskBytes(<<>>) \o WriteField(102, WriteList(items, WriteString))

ConstantOf(body) == WriteField(90, <<2>>) \o body
DictionaryOf(selection, count, body) ==
  WriteField(90, <<3>>) \o
  WriteField(91, WriteString(selection)) \o
  WriteField(92, WriteULEB128(count)) \o body
SequenceOf(start, incr) ==
  WriteField(90, <<4>>) \o WriteField(91, WriteSLEB128(start)) \o WriteField(92, WriteSLEB128(incr))
StructOf(rows, fields) ==
  MaskBytes(rows) \o WriteField(103, WriteList(fields, WriteObject))
ListOfRows(rows, entries, body) ==
  LET Entry(e) == WriteObject(WriteField(100, WriteULEB128(e[1])) \o WriteField(101, WriteULEB128(e[2])))
  IN  MaskBytes(rows) \o WriteField(104, <<3>>) \o WriteField(105, WriteList(entries, Entry)) \o
      WriteField(106, WriteObject(body))
ArrayOf(rows, size, body) ==
  MaskBytes(rows) \o WriteField(103, <<size>>) \o WriteField(104, WriteObject(body))

ServedBytes(rows, types, bodies) ==
  EncodeHeader(Fetched(<<>>).header) \o
  WriteObject(
    WriteField(1, <<1, 1>> \o
      WriteObject(WriteField(300, WriteObject(
        WriteField(100, WriteULEB128(rows)) \o
        WriteField(101, WriteList(types, EncodeLogicalType)) \o
        WriteField(102, WriteList(bodies, WriteObject)))))) \o
    WriteField(2, <<2>>))

\* A chunk of one column, what it means, and whether it is nested.
ServedColumn(rows, type, body, column, nested) ==
  [as |-> "message", v |-> Just(Fetched(<<Chunk(rows, <<type>>, <<column>>)>>)),
   wire |-> ServedBytes(rows, <<type>>, <<body>>), nested |-> nested]

\* Bytes that no value need stand for.
ServedAnyway(as, bytes) == [as |-> as, v |-> Nothing, wire |-> bytes, nested |-> TRUE]

V(n) == Just(<<n>>)
TwoRows == <<V(1), Nothing>>

MCColumns ==
  {ServedColumn(3, TinyInt, ConstantOf(Bytes1(<<9>>)), <<V(9), V(9), V(9)>>, FALSE),
   ServedColumn(2, Varchar, ConstantOf(Strings(<<AB>>)), <<Just(AB), Just(AB)>>, FALSE),
   ServedColumn(3, TinyInt, DictionaryOf(<<1, 0, 0, 0>> \o <<0, 0, 0, 0>> \o <<1, 0, 0, 0>>, 2,
                                         Bytes1(<<4, 5>>)), <<V(5), V(4), V(5)>>, TRUE),
   ServedColumn(3, Integer, SequenceOf(255, -3), <<V(255), V(252), V(249)>>, FALSE),
   ServedColumn(2, MCStruct, StructOf(TwoRows, <<Bytes1(<<4, 5>>), Strings(<<A, AB>>)>>),
                <<Just(<<V(4), Just(A)>>), Nothing>>, TRUE),
   ServedColumn(2, MCStruct, StructOf(<<>>, <<Bytes1(<<4, 5>>)>>),
                <<Just(<<V(4), Nothing>>), Just(<<V(5), Nothing>>)>>, TRUE),
   ServedColumn(2, MCList, ListOfRows(<<>>, <<<<0, 2>>, <<2, 1>>>>, Bytes1(<<1, 2, 3>>)),
                <<Just(<<V(1), V(2)>>), Just(<<V(3)>>)>>, TRUE),
   ServedColumn(2, MCArray, ArrayOf(TwoRows, 2, Bytes1(<<1, 2, 3, 4>>)),
                <<Just(<<V(1), V(2)>>), Nothing>>, TRUE)}

\* A column too few, too many, too short, of a length of its own, or of so
\* many rows that an index wraps around.
MCOdd ==
  {ServedAnyway("message", ServedBytes(2, types, bodies)) :
     types \in {<<TinyInt, TinyInt>>}, bodies \in {<<>>, <<Bytes1(AB)>>, <<Bytes1(AB), Bytes1(A)>>,
                                                  <<Bytes1(AB), Bytes1(AB), Bytes1(AB)>>}} \cup
  {ServedAnyway("message", ServedBytes(2, <<Varchar>>, <<Strings(<<A>>)>>)),
   ServedAnyway("message", ServedBytes(MaxInt, <<TinyInt>>, <<ConstantOf(Bytes1(A))>>)),
   ServedAnyway("message", ServedBytes(128, <<Integer>>, <<Bytes1(<<>>)>>))}

\* Digits with and without the bit that says more follow.
Digits == UNION {{d, Radix + d} : d \in {0, 1, 7, 8, 15}}
MCNumbers ==
  {ServedAnyway(as, bytes) : as \in {"uleb", "sleb"},
                             bytes \in UNION {[1..n -> Digits] : n \in 1..3}}

MCServed == MCColumns \cup MCOdd \cup MCNumbers
============================================================================
