--------------------------- MODULE QuackMessages ---------------------------
(***************************************************************************)
(* internal/message and internal/quacktype: the messages of the Quack      *)
(* protocol, field by field, as EncodeMessage writes them and as           *)
(* DecodeMessage reads what arrives, which may be cut off, have bytes too  *)
(* many, or a byte changed.                                                *)
(*                                                                         *)
(* The bytes of a value are kept as they are: what they mean is            *)
(* QuackVector's.  A row is absent (NULL) or its bytes; the rows of a      *)
(* column are absent when Go has a nil vector.  A word of a validity mask  *)
(* is one byte here.                                                       *)
(***************************************************************************)
EXTENDS QuackCodec, FiniteSets, TLC
LOCAL INSTANCE SequencesExt

CONSTANTS
  Written,    \* what is encoded: the messages, and the numbers of each format
  Served,     \* what others write: [as, v, wire, nested], v absent if unknown,
              \* nested if a column's values are in another vector
  Changes     \* bound: what may be added to a byte

VARIABLES
  sent,       \* the item on its way
  wire,       \* its bytes
  damage,     \* "none", "cut", "extended" or "changed"
  result      \* what reading them gave

vars == <<sent, wire, damage, result>>

----------------------------------------------------------------------------
(***************************************************************************)
(* Types.  An ExtraTypeInfo is absent or a record with its kind.           *)
(***************************************************************************)
GeometryID == 60
Kinds == [generic |-> 1, decimal |-> 2, string |-> 3, list |-> 4, struct |-> 5,
          enum |-> 6, unbound |-> 7, aggregate |-> 8, array |-> 9, any |-> 10,
          literal |-> 11, template |-> 12, geo |-> 13]

IsKind(t, kind) == \E i \in t.info : i.kind = kind

\* The bytes of a value, 0 if its physical type has no constant size.
ByteWidth(t) ==
  CASE t.id \in {10, 11, 28} -> 1
    [] t.id \in {12, 29} -> 2
    [] t.id \in {1, 13, 15, 22, 30} -> 4
    [] t.id \in {14, 16, 17, 18, 19, 20, 23, 31, 32, 34, 35, 51} -> 8
    [] t.id \in {27, 49, 50, 54} -> 16
    [] t.id = 21 /\ IsKind(t, Kinds.decimal) ->
         LET width == Get(t.info).width
         IN  CASE width <= 4 -> 2 [] width \in 5..9 -> 4 [] width \in 10..18 -> 8
               [] width \in 19..38 -> 16 [] OTHER -> 0
    [] t.id = 104 /\ IsKind(t, Kinds.enum) -> 1
    [] OTHER -> 0

VarcharIDs == {6, 24, 25, 26, 36, 39, GeometryID, 105}
StructIDs == {100, 107, 109}
ListIDs == {101, 102}
ArrayID == 108

NoType == [id |-> 0, info |-> Nothing]

ChildType(t) ==
  IF IsKind(t, Kinds.list) \/ IsKind(t, Kinds.array) THEN Get(t.info).child ELSE NoType
ChildTypes(t) ==
  IF IsKind(t, Kinds.struct)
    THEN [i \in DOMAIN Get(t.info).children |-> Get(t.info).children[i].type]
    ELSE <<>>
ArraySize(t) == IF IsKind(t, Kinds.array) THEN Get(t.info).size ELSE 0

\* Rows of a mask's word, and the words for count rows.
RowsPerWord == Group + 1
WordCount(count) == (count + RowsPerWord - 1) \div RowsPerWord
----------------------------------------------------------------------------
(***************************************************************************)
(* Encoding.                                                               *)
(***************************************************************************)
When(present, bytes) == IF present THEN bytes ELSE <<>>

WriteOptionalString(id, s) == When(s # <<>>, WriteField(id, WriteString(s)))
WriteIndex(i) == WriteULEB128(IF i = Nothing THEN Invalid ELSE Get(i))

RECURSIVE EncodeLogicalType(_)
EncodeExtraTypeInfo(i) ==
  LET Field(id, bytes) == WriteField(200 + id, bytes)
      ChildPair(c) == WriteObject(WriteField(0, WriteString(c.name)) \o
                                  WriteField(1, EncodeLogicalType(c.type)))
  IN  WriteObject(
        WriteField(100, WriteULEB128(i.kind)) \o WriteOptionalString(101, i.alias) \o
        CASE i.kind = Kinds.decimal -> Field(0, WriteULEB128(i.width)) \o
                                       Field(1, WriteULEB128(i.scale))
          [] i.kind = Kinds.string -> Field(0, WriteString(i.collation))
          [] i.kind = Kinds.list -> Field(0, EncodeLogicalType(i.child))
          [] i.kind = Kinds.struct -> Field(0, WriteList(i.children, ChildPair))
          [] i.kind = Kinds.enum -> Field(0, WriteULEB128(Len(i.values))) \o
                                    Field(1, WriteList(i.values, WriteString))
          [] i.kind = Kinds.aggregate -> Field(0, WriteString(i.function)) \o
                                         Field(1, EncodeLogicalType(i.returns)) \o
                                         Field(2, WriteList(i.args, EncodeLogicalType))
          [] i.kind = Kinds.array -> Field(0, EncodeLogicalType(i.child)) \o
                                     Field(1, WriteULEB128(i.size))
          [] i.kind = Kinds.any -> Field(0, EncodeLogicalType(i.target)) \o
                                   Field(1, WriteULEB128(i.score))
          [] i.kind = Kinds.template -> Field(0, WriteString(i.name))
          [] i.kind = Kinds.geo ->
               Field(0, WriteObject(WriteOptionalString(100, i.crs.definition)))
          [] i.kind = Kinds.unbound -> WriteOptionalString(200, i.name) \o
                                       WriteOptionalString(201, i.catalog) \o
                                       WriteOptionalString(202, i.schema)
          [] OTHER -> <<>>)

EncodeLogicalType(t) ==
  WriteObject(WriteField(100, WriteULEB128(t.id)) \o
              When(t.info # Nothing,
                   WriteField(101, WriteBool(TRUE) \o EncodeExtraTypeInfo(Get(t.info)))))

\* ValidityToBytes of a mask that has a bit for every row that is not NULL.
ValidityToBytes(rows) ==
  LET Bit(i) == IF i \in DOMAIN rows /\ rows[i] # Nothing
                  THEN 2 ^ ((i - 1) % RowsPerWord) ELSE 0
  IN  [w \in 1..WordCount(Len(rows)) |->
         FoldLeft(LAMBDA sum, k : sum + Bit((w - 1) * RowsPerWord + k), 0,
                  [k \in 1..RowsPerWord |-> k])]

\* Flat vectors of a fixed width or of strings: there is no other here.
EncodeVector(t, rows) ==
  LET w == ByteWidth(t)
      hasNulls == \E i \in DOMAIN rows : rows[i] = Nothing
      Bytes0(row) == IF row = Nothing THEN [k \in 1..w |-> 0] ELSE Get(row)
  IN  WriteObject(
        WriteField(100, WriteBool(hasNulls)) \o
        When(hasNulls, WriteField(101, WriteString(ValidityToBytes(rows)))) \o
        WriteField(102,
          IF w > 0
            THEN WriteString(FlattenSeq([i \in DOMAIN rows |-> Bytes0(rows[i])]))
            ELSE WriteList(rows, LAMBDA row : WriteString(Bytes0(row)))))

EncodeDataChunk(chunk) ==
  LET Column(c) == EncodeVector(chunk.types[c], Get(chunk.columns[c]))
  IN  WriteObject(
        WriteField(100, WriteULEB128(chunk.rows)) \o
        WriteField(101, WriteList(chunk.types, EncodeLogicalType)) \o
        WriteField(102, WriteList([c \in DOMAIN chunk.columns |-> c], Column)))

EncodeDataChunkWrapper(chunk) == WriteObject(WriteField(300, EncodeDataChunk(chunk)))
Pointer(chunk) == WriteBool(TRUE) \o EncodeDataChunkWrapper(chunk)

MessageName == 1 :> "ConnectionRequest" @@ 2 :> "ConnectionResponse" @@
               3 :> "PrepareRequest" @@ 4 :> "PrepareResponse" @@
               7 :> "FetchRequest" @@ 8 :> "FetchResponse" @@ 9 :> "AppendRequest" @@
               10 :> "SuccessResponse" @@ 11 :> "DisconnectMessage" @@
               100 :> "ErrorResponse"

EncodeHeader(h) ==
  WriteObject(WriteField(1, WriteULEB128(h.type)) \o
              WriteOptionalString(2, h.connection) \o
              WriteField(3, WriteIndex(h.query)))

EncodeBody(name, m) ==
  WriteObject(
    CASE name = "ConnectionRequest" ->
           WriteOptionalString(1, m.auth) \o WriteOptionalString(2, m.version) \o
           WriteOptionalString(3, m.platform) \o
           When(m.min # 0, WriteField(4, WriteULEB128(m.min))) \o
           When(m.max # 0, WriteField(5, WriteULEB128(m.max)))
      [] name = "ConnectionResponse" ->
           WriteOptionalString(1, m.version) \o WriteOptionalString(2, m.platform) \o
           When(m.quack # Nothing, WriteField(3, WriteIndex(m.quack)))
      [] name = "PrepareRequest" -> WriteOptionalString(1, m.sql)
      [] name = "PrepareResponse" ->
           When(m.types # <<>>, WriteField(1, WriteList(m.types, EncodeLogicalType))) \o
           When(m.names # <<>>, WriteField(2, WriteList(m.names, WriteString))) \o
           When(m.more, WriteField(3, WriteBool(TRUE))) \o
           When(m.results # <<>>, WriteField(4, WriteList(m.results, Pointer))) \o
           WriteField(5, WriteHugeInt(m.uuid))
      [] name = "FetchRequest" -> WriteField(1, WriteHugeInt(m.uuid))
      [] name = "FetchResponse" ->
           When(m.results # <<>>, WriteField(1, WriteList(m.results, Pointer))) \o
           WriteField(2, WriteIndex(m.batch))
      [] name = "AppendRequest" ->
           WriteOptionalString(1, m.schema) \o WriteOptionalString(2, m.table) \o
           WriteField(3, Pointer(m.chunk))
      [] name = "ErrorResponse" -> WriteOptionalString(1, m.message)
      [] OTHER -> <<>>)

EncodeMessage(m) ==
  EncodeHeader(m.header) \o EncodeBody(MessageName[m.header.type], m.body)
----------------------------------------------------------------------------
(***************************************************************************)
(* What is read.  A kind of value is a tuple: its name and what it depends *)
(* on.  An object is a sequence of fields, which may depend on those read  *)
(* before; a field without a name is read and dropped.                     *)
(***************************************************************************)
Req(id, name, kind) == [id |-> id, name |-> name, kind |-> kind, required |-> TRUE]
Opt(id, name, kind) == [id |-> id, name |-> name, kind |-> kind, required |-> FALSE]

StringKind == <<"string">>
TypeKind == <<"type">>
IntKind == <<"int">>
ListOf(kind) == <<"list", kind>>
Object(name) == <<"object", name>>

HeaderFields == <<Req(1, "type", IntKind), Opt(2, "connection", StringKind),
                  Req(3, "query", <<"index">>)>>

TypeFields == <<Req(100, "id", IntKind), Opt(101, "info", <<"nullable", Object("info")>>)>>

\* The metadata of extension types are not read, present or not.
InfoFields(kind) ==
  CASE kind = Kinds.decimal -> <<Opt(200, "width", IntKind), Opt(201, "scale", IntKind)>>
    [] kind = Kinds.string -> <<Opt(200, "collation", StringKind)>>
    [] kind = Kinds.list -> <<Req(200, "child", TypeKind)>>
    [] kind = Kinds.struct -> <<Opt(200, "children", ListOf(Object("child")))>>
    [] kind = Kinds.enum -> <<Req(200, "count", IntKind), Req(201, "values", ListOf(StringKind))>>
    [] kind = Kinds.aggregate -> <<Req(200, "function", StringKind), Req(201, "returns", TypeKind),
                                   Req(202, "args", ListOf(TypeKind))>>
    [] kind = Kinds.array -> <<Req(200, "child", TypeKind), Req(201, "size", IntKind)>>
    [] kind = Kinds.any -> <<Req(200, "target", TypeKind), Req(201, "score", <<"uleb">>)>>
    [] kind = Kinds.template -> <<Opt(200, "name", StringKind)>>
    [] kind = Kinds.geo -> <<Opt(200, "crs", Object("crs"))>>
    [] kind = Kinds.unbound -> <<Opt(200, "name", StringKind), Opt(201, "catalog", StringKind),
                                 Opt(202, "schema", StringKind)>>
    [] OTHER -> <<>>

ExtraTypeInfoFields(got) ==
  <<Req(100, "kind", IntKind), Opt(101, "alias", StringKind),
    Opt(103, "", <<"nullable", <<"nothing">>>>)>> \o
  IF "kind" \in DOMAIN got THEN InfoFields(got.kind) ELSE <<>>

ChunkFields(got) ==
  <<Req(100, "rows", IntKind), Req(101, "types", ListOf(TypeKind))>> \o
  IF "types" \in DOMAIN got
    THEN <<Req(102, "columns", <<"columns", got.types, got.rows>>)>> ELSE <<>>

BodyFields(name) ==
  CASE name = "ConnectionRequest" ->
         <<Opt(1, "auth", StringKind), Opt(2, "version", StringKind), Opt(3, "platform", StringKind),
           Opt(4, "min", <<"uleb">>), Opt(5, "max", <<"uleb">>)>>
    [] name = "ConnectionResponse" ->
         <<Opt(1, "version", StringKind), Opt(2, "platform", StringKind), Opt(3, "quack", <<"just">>)>>
    [] name = "PrepareRequest" -> <<Opt(1, "sql", StringKind)>>
    [] name = "PrepareResponse" ->
         <<Opt(1, "types", ListOf(TypeKind)), Opt(2, "names", ListOf(StringKind)),
           Opt(3, "more", <<"bool">>), Opt(4, "results", ListOf(<<"pointer">>)),
           Req(5, "uuid", <<"huge">>)>>
    [] name = "FetchRequest" -> <<Req(1, "uuid", <<"huge">>)>>
    [] name = "FetchResponse" -> <<Opt(1, "results", ListOf(<<"pointer">>)), Req(2, "batch", <<"index">>)>>
    [] name = "AppendRequest" ->
         <<Opt(1, "schema", StringKind), Opt(2, "table", StringKind), Opt(3, "chunk", <<"pointer">>)>>
    [] name = "ErrorResponse" -> <<Opt(1, "message", StringKind)>>
    [] OTHER -> <<>>

Fields(name, got) ==
  CASE name = "header" -> HeaderFields
    [] name = "type" -> TypeFields
    [] name = "info" -> ExtraTypeInfoFields(got)
    [] name = "child" -> <<Req(0, "name", StringKind), Req(1, "type", TypeKind)>>
    [] name = "crs" -> <<Opt(100, "definition", StringKind)>>
    [] name = "entry" -> <<Req(100, "offset", IntKind), Req(101, "length", IntKind)>>
    [] name = "wrapper" -> <<Req(300, "chunk", Object("chunk"))>>
    [] name = "chunk" -> ChunkFields(got)
    [] OTHER -> BodyFields(name)

NoChunk == [rows |-> 0, types |-> <<>>, columns |-> <<>>]

\* What a failed or absent read gives: Go's zero value.
Zero(kind) ==
  CASE kind[1] \in {"int", "uleb", "sleb"} -> 0
    [] kind[1] \in {"string", "list", "columns", "selection", "entries"} -> <<>>
    [] kind[1] = "bool" -> FALSE
    [] kind[1] = "huge" -> [upper |-> 0, lower |-> 0]
    [] kind[1] = "type" -> NoType
    [] kind[1] = "pointer" \/ kind = Object("chunk") -> NoChunk
    [] kind = Object("wrapper") -> [chunk |-> NoChunk]
    [] kind = Object("crs") -> [definition |-> <<>>]
    [] OTHER -> Nothing

\* Mistake: the lengths that must agree are not compared.
SlipAgree(name, got) == TRUE

\* What an object is read for, once all its fields are there.
Agree(name, got) ==
  CASE name = "chunk" -> Len(got.columns) = Len(got.types)
    [] name = "info" /\ got.kind = Kinds.enum -> Len(got.values) = got.count
    [] OTHER -> TRUE

\* The length of an ENUM's values is not kept.
Kept(got) == [n \in DOMAIN got \ {"count"} |-> got[n]]
----------------------------------------------------------------------------
(***************************************************************************)
(* Reading.                                                                *)
(***************************************************************************)
RECURSIVE ReadAs(_, _), ReadFields(_, _, _, _), ReadItems(_, _, _, _, _), DecodeVectorBody(_, _, _)

ReadThisID(r, id) == After(ReadFieldID(r), LAMBDA q : Check(q, q.v = id))
ReadRequiredField(r, f) == ReadAs(f.kind, ReadThisID(r, f.id))

\* The id is only peeked at, which may fail as well.
IfPresent(r, q, f) ==
  IF Ok(q) /\ q.v # f.id THEN Yield(r, Zero(f.kind)) ELSE ReadAs(f.kind, q)
ReadOptionalField(r, f) ==
  IF ~Ok(r) \/ EOF(r) THEN Yield(r, Zero(f.kind)) ELSE IfPresent(r, ReadFieldID(r), f)

ReadField(r, f) == IF f.required THEN ReadRequiredField(r, f) ELSE ReadOptionalField(r, f)

\* The i-th of these fields, and those after it.
Named(f, v) == IF f.name = "" THEN <<>> ELSE f.name :> v
ReadFrom(fields, r, name, i, got) ==
  IF i > Len(fields)
    THEN Yield(r, got)
    ELSE Then(ReadField(r, fields[i]),
               LAMBDA q : ReadFields(q, name, i + 1, Named(fields[i], q.v) @@ got))
ReadFields(r, name, i, got) == ReadFrom(Fields(name, got), r, name, i, got)

\* Mistake: the end of the input ends an object as well.
SlipEndObject(r) == IF EOF(r) THEN r ELSE Yield(ReadThisID(r, FieldEnd), r.v)

ReadEndObject(r) == Yield(ReadThisID(r, FieldEnd), r.v)

ReadObject(r, name) ==
  Then(ReadFields(r, name, 1, <<>>), LAMBDA q :
    ReadEndObject(Yield(IF Agree(name, q.v) THEN q ELSE AssertEOF(q), Kept(q.v))))

\* The i-th item: of the columns of a chunk, or the fields of a STRUCT, only
\* as many as there are types.
ItemKind(kind, i) ==
  CASE kind[1] = "list" -> kind[2]
    [] kind[1] = "columns" /\ i <= Len(kind[2]) -> <<"vector", kind[2][i], kind[3]>>
    [] OTHER -> <<"none">>

ReadItems(r, n, i, kind, items) ==
  IF i > n \/ ~Ok(r)
    THEN Yield(r, items)
    ELSE Then(ReadAs(ItemKind(kind, i), r),
               LAMBDA q : ReadItems(q, n, i + 1, kind, Append(items, q.v)))

ReadList(r, kind) ==
  After(ReadULEB128Int(r), LAMBDA q : ReadItems(Make(q, q.v), q.v, 1, kind, <<>>))

ReadNullable(r, kind) ==
  After(ReadBool(r), LAMBDA q :
    IF q.v THEN Then(ReadAs(kind, q), LAMBDA p : Yield(p, Just(p.v))) ELSE Yield(q, Nothing))

ReadChunkPointer(r) ==
  After(ReadNullable(r, Object("wrapper")),
        LAMBDA q : Yield(q, IF q.v = Nothing THEN NoChunk ELSE Get(q.v).chunk))

\* A blob of n bytes, as Just(bytes).
ReadBlobOf(r, n) ==
  Then(ReadString(r), LAMBDA q :
    IF Ok(q) /\ Len(q.v) = n THEN Yield(q, Just(q.v)) ELSE Yield(AssertEOF(q), Nothing))

\* The first of 4 bytes is the lowest.
FixedInt32(b) == FoldRight(LAMBDA x, sum : x + 2 * Radix * sum, b, 0)

ReadSelectionVector(r, count) ==
  LET Index(b, i) == FixedInt32(SubSeq(b, 4 * i - 3, 4 * i))
  IN  Then(ReadBlobOf(r, Signed(4 * count)), LAMBDA q :
        CASE q.v = Nothing -> Yield(q, <<>>)
          [] q.v # Nothing /\ count > MaxAlloc -> Panic(q)
          [] OTHER -> Yield(q, [i \in 1..count |-> Index(Get(q.v), i)]))

ReadValidityMask(r, count) == ReadBlobOf(r, WordCount(count))

ReadListEntries(r, count) ==
  After(ReadList(r, ListOf(Object("entry"))),
        LAMBDA q : IF Len(q.v) = count THEN q ELSE Yield(AssertEOF(q), <<>>))

ReadVector(r, t, count) == ReadEndObject(DecodeVectorBody(r, t, count))

Read(kind, r) ==
  CASE kind[1] = "int" -> ReadULEB128Int(r)
    [] kind[1] = "uleb" -> ReadULEB128(r)
    [] kind[1] = "sleb" -> ReadSLEB128(r)
    [] kind[1] = "just" -> After(ReadULEB128(r), LAMBDA q : Yield(q, Just(q.v)))
    [] kind[1] = "index" ->
         After(ReadULEB128(r), LAMBDA q : Yield(q, IF q.v = Invalid THEN Nothing ELSE Just(q.v)))
    [] kind[1] = "bool" -> ReadBool(r)
    [] kind[1] = "string" -> ReadString(r)
    [] kind[1] = "huge" -> ReadHugeInt(r)
    [] kind[1] \in {"type", "object"} -> ReadObject(r, kind[Len(kind)])
    [] kind[1] = "nullable" -> ReadNullable(r, kind[2])
    [] kind[1] = "pointer" -> ReadChunkPointer(r)
    [] kind[1] \in {"list", "columns"} -> ReadList(r, kind)
    [] kind[1] = "vector" -> ReadVector(r, kind[2], kind[3])
    [] kind[1] = "mask" -> ReadValidityMask(r, kind[2])
    [] kind[1] = "selection" -> ReadSelectionVector(r, kind[2])
    [] kind[1] = "entries" -> ReadListEntries(r, kind[2])
    [] kind[1] = "none" -> Yield(AssertEOF(r), Nothing)
    [] OTHER -> Yield(r, Nothing)

ReadAs(kind, r) ==
  IF Ok(r)
    THEN Then(Read(kind, r), LAMBDA q : IF Ok(q) THEN q ELSE Yield(q, Zero(kind)))
    ELSE Yield(r, Zero(kind))
----------------------------------------------------------------------------
(***************************************************************************)
(* Vectors.  After a failed read their values are still put together, from *)
(* what the reads have given: an index that is out of range then, or a nil *)
(* child, is a panic.                                                      *)
(***************************************************************************)
Valid(mask, i) ==
  mask = Nothing \/
  (Get(mask)[(i - 1) \div RowsPerWord + 1] \div 2 ^ ((i - 1) % RowsPerWord)) % 2 = 1

\* GetObject of a row, counted from 0.
HasRow(rows, k) == rows # Nothing /\ k >= 0 /\ k < Len(Get(rows))
Row(rows, k) == Get(rows)[k + 1]

\* make and then one value after another, absent where it is not valid.
Materialize(r, count, mask, HasValue(_), Value(_)) ==
  IF count \notin 0..MaxAlloc \/ \E i \in 1..count : Valid(mask, i) /\ ~HasValue(i)
    THEN Yield(Panic(r), Nothing)
    ELSE Yield(r, Just([i \in 1..count |-> IF Valid(mask, i) THEN Just(Value(i)) ELSE Nothing]))

FixedVector(r, t, count, mask) ==
  LET w == ByteWidth(t)
      Always(i) == TRUE
  IN  Then(ReadField(r, Req(102, "", StringKind)), LAMBDA q :
        IF Len(q.v) = Signed(w * count)
          THEN Materialize(q, count, mask, Always, LAMBDA i : SubSeq(q.v, w * (i - 1) + 1, w * i))
          ELSE Yield(AssertEOF(q), Nothing))

\* As many rows as there are strings.
VarcharVector(r, mask) ==
  LET Always(i) == TRUE
  IN  Then(ReadField(r, Req(102, "", ListOf(StringKind))), LAMBDA q :
        IF mask # Nothing /\ WordCount(Len(q.v)) > Len(Get(mask))
          THEN Yield(Panic(q), Nothing)
          ELSE Materialize(q, Len(q.v), mask, Always, LAMBDA i : q.v[i]))

\* A field whose column is missing is missing from the row.
StructVector(r, t, count, mask) ==
  LET types == ChildTypes(t)
      There(columns, c) == c <= Len(columns) /\ columns[c] # Nothing
      HasValue(columns, i) ==
        \A c \in DOMAIN types : There(columns, c) => HasRow(columns[c], i - 1)
      Value(columns, i) ==
        [c \in DOMAIN types |-> IF There(columns, c) THEN Row(columns[c], i - 1) ELSE Nothing]
  IN  Then(ReadField(r, Req(103, "", <<"columns", types, count>>)), LAMBDA q :
        Materialize(q, count, mask, LAMBDA i : HasValue(q.v, i), LAMBDA i : Value(q.v, i)))

\* An entry that was not read is of no rows.
ListVector(r, t, count, mask) ==
  LET Entry(entries, i) == IF i <= Len(entries) THEN entries[i] ELSE [offset |-> 0, length |-> 0]
      HasValue(child, e) == /\ e.length <= MaxAlloc
                            /\ \A k \in 1..e.length : HasRow(child, Signed(e.offset + k - 1))
      Value(child, e) == [k \in 1..e.length |-> Row(child, e.offset + k - 1)]
  IN  Then(ReadField(r, Req(104, "", IntKind)), LAMBDA size :
      Then(ReadField(size, Req(105, "", <<"entries", count>>)), LAMBDA entries :
      Then(ReadField(entries, Req(106, "", <<"vector", ChildType(t), size.v>>)), LAMBDA child :
        Materialize(child, count, mask,
                    LAMBDA i : HasValue(child.v, Entry(entries.v, i)),
                    LAMBDA i : Value(child.v, Entry(entries.v, i))))))

ArrayVector(r, t, count, mask) ==
  LET n == ArraySize(t)
      HasValue(rows, i) == n <= MaxAlloc /\ \A k \in 1..n : HasRow(rows, (i - 1) * n + k - 1)
      Value(rows, i) == [k \in 1..n |-> Row(rows, (i - 1) * n + k - 1)]
  IN  Then(ReadField(r, Req(103, "", IntKind)), LAMBDA size :
        IF size.v # n
          THEN Yield(AssertEOF(size), Nothing)
          ELSE Then(ReadField(size, Req(104, "", <<"vector", ChildType(t), Signed(n * count)>>)),
                     LAMBDA child : Materialize(child, count, mask,
                                                LAMBDA i : HasValue(child.v, i),
                                                LAMBDA i : Value(child.v, i))))

\* The body of a vector that has a mask, or none.
FlatBody(m, t, count) ==
  CASE ByteWidth(t) > 0 -> FixedVector(m, t, count, m.v)
    [] t.id \in VarcharIDs -> VarcharVector(m, m.v)
    [] t.id \in StructIDs -> StructVector(m, t, count, m.v)
    [] t.id \in ListIDs -> ListVector(m, t, count, m.v)
    [] t.id = ArrayID -> ArrayVector(m, t, count, m.v)
    [] OTHER -> Yield(AssertEOF(m), Nothing)

DecodeFlatVector(r, t, count) ==
  Then(IF t.id = GeometryID THEN ReadField(r, Opt(99, "", IntKind)) ELSE r, LAMBDA g :
  Then(ReadField(g, Req(100, "", <<"bool">>)), LAMBDA h :
    FlatBody(IF h.v THEN ReadField(h, Req(101, "", <<"mask", count>>)) ELSE Yield(h, Nothing),
             t, count)))

ConstantVector(r, t, count) ==
  LET Only(rows) == IF HasRow(rows, 0) THEN Row(rows, 0) ELSE Nothing
  IN  Then(DecodeVectorBody(r, t, IF count > 0 THEN 1 ELSE 0), LAMBDA q :
        IF count \notin 0..MaxAlloc THEN Panic(q)
                                    ELSE Yield(q, Just([i \in 1..count |-> Only(q.v)])))

DictionaryVector(r, t, count) ==
  LET Chosen(dict, s) ==
        IF \A i \in DOMAIN s : HasRow(dict.v, s[i])
          THEN Yield(dict, Just([i \in DOMAIN s |-> Row(dict.v, s[i])]))
          ELSE Yield(Panic(dict), Nothing)
  IN  Then(ReadField(r, Req(91, "", <<"selection", count>>)), LAMBDA selection :
      Then(ReadField(selection, Req(92, "", IntKind)), LAMBDA n :
        Chosen(DecodeVectorBody(n, t, n.v), selection.v)))

SequenceVector(r, count) ==
  LET Always(i) == TRUE
  IN  Then(ReadField(r, Req(91, "", <<"sleb">>)), LAMBDA start :
      Then(ReadField(start, Req(92, "", <<"sleb">>)), LAMBDA incr :
        Materialize(incr, count, Nothing, Always,
                    LAMBDA i : <<Signed(start.v + (i - 1) * incr.v)>>)))

\* FSST vectors and types unknown are refused.
DecodeVectorBody(r, t, count) ==
  Then(ReadField(r, Opt(90, "", IntKind)), LAMBDA q :
    CASE q.v = 0 -> DecodeFlatVector(q, t, count)
      [] q.v = 2 -> ConstantVector(q, t, count)
      [] q.v = 3 -> DictionaryVector(q, t, count)
      [] q.v = 4 -> SequenceVector(q, count)
      [] OTHER -> Yield(AssertEOF(q), Nothing))
----------------------------------------------------------------------------
(***************************************************************************)
(* Messages and, for the codec on its own, numbers.                        *)
(***************************************************************************)
\* A message of a type it does not know is nil, without an error.
DecodeMessage(bytes) ==
  LET Known(h) == Ok(h) /\ h.v.type \in DOMAIN MessageName
      Whole(h, e) == [err |-> e.err,
                      v |-> IF Ok(e) /\ Known(h) THEN Just([header |-> h.v, body |-> e.v]) ELSE Nothing]
  IN  Then(ReadObject(NewReader(bytes), "header"), LAMBDA h :
        Whole(h, AssertEOF(IF Known(h) THEN ReadObject(h, MessageName[h.v.type]) ELSE h)))

Encode(as, v) ==
  CASE as = "message" -> EncodeMessage(v)
    [] as = "uleb" -> WriteULEB128(v)
    [] as = "sleb" -> WriteSLEB128(v)
    [] as = "huge" -> WriteHugeInt(v)

Decode(as, bytes) ==
  IF as = "message"
    THEN DecodeMessage(bytes)
    ELSE Then(AssertEOF(ReadAs(<<as>>, NewReader(bytes))), LAMBDA e :
           [err |-> e.err, v |-> IF Ok(e) THEN Just(e.v) ELSE Nothing])

NoResult == [err |-> "unread", v |-> Nothing]

Init ==
  /\ \/ \E as \in DOMAIN Written : \E v \in Written[as] :
          /\ sent = [as |-> as, v |-> Just(v), nested |-> FALSE]
          /\ wire = Encode(as, v)
     \/ \E item \in Served :
          /\ sent = [as |-> item.as, v |-> item.v, nested |-> item.nested]
          /\ wire = item.wire
  /\ damage = "none"
  /\ result = NoResult

OnTheWay == damage = "none" /\ result = NoResult /\ sent.v # Nothing

Cut ==
  /\ OnTheWay
  /\ \E n \in 0..(Len(wire) - 1) : wire' = SubSeq(wire, 1, n)
  /\ damage' = "cut"
  /\ UNCHANGED <<sent, result>>

Extend ==
  /\ OnTheWay
  /\ \E b \in {0, 2 * Radix - 1} : wire' = Append(wire, b)
  /\ damage' = "extended"
  /\ UNCHANGED <<sent, result>>

Change ==
  /\ OnTheWay /\ sent.as = "message"
  /\ \E i \in DOMAIN wire, d \in Changes :
       wire' = [wire EXCEPT ![i] = (@ + d) % (2 * Radix)]
  /\ damage' = "changed"
  /\ UNCHANGED <<sent, result>>

Receive ==
  /\ result = NoResult
  /\ result' = Decode(sent.as, wire)
  /\ UNCHANGED <<sent, wire, damage>>

Next == Cut \/ Extend \/ Change \/ Receive

Spec == Init /\ [][Next]_vars
----------------------------------------------------------------------------
(***************************************************************************)
(* Properties.                                                             *)
(***************************************************************************)
Arrived(what) == damage = what /\ result # NoResult

TypeOK ==
  /\ sent.as \in {"message", "uleb", "sleb", "huge"}
  /\ wire \in Seq(Bytes)
  /\ damage \in {"none", "cut", "extended", "changed"}
  /\ result.err \in {"unread", "none", "error", "panic"}
  /\ result.err \in {"error", "panic"} => result.v = Nothing

\* What EncodeMessage has written, and what a server writes, DecodeMessage
\* reads as it was, to the last byte (internal/message/message_codec.go);
\* so do the readers of numbers.
RoundTrip ==
  Arrived("none") /\ sent.v # Nothing => result = [err |-> "none", v |-> sent.v]

\* Of a message cut off anywhere nothing is taken for a message: it is an
\* error, whatever the fields, most of them optional, that are gone.  Only
\* where values are looked up in another vector, which is nil when it could
\* not be read, the program may panic instead (vector_codec.go:180).
CutsAreRefused ==
  Arrived("cut") =>
    \/ result.err = "error"
    \/ result.err = "panic" /\ sent.nested

\* Bytes after a message, or after a number, are refused
\* (message_codec.go:32).
TrailingRefused == Arrived("extended") => result.err = "error"

\* DecodeMessage takes whole messages and nothing else, and returns either a
\* message or an error.
WholeOrRefused == TypeOK /\ CutsAreRefused /\ TrailingRefused

Chunks(m) ==
  CASE MessageName[m.header.type] \in {"PrepareResponse", "FetchResponse"} ->
         {m.body.results[i] : i \in DOMAIN m.body.results}
    [] MessageName[m.header.type] = "AppendRequest" -> {m.body.chunk}
    [] OTHER -> {}

\* Whatever byte was changed, a message that is accepted has a column for
\* every type of a chunk and a value for every row, although every check of
\* that in vector_codec.go (at 49 and in all that follows) goes through
\* AssertEOF, which lets it pass at the end of the input.  Columns of strings
\* are the exception: nothing compares their length with the rows
\* (vector_codec.go:134).
CountsAgree ==
  \A m \in result.v : sent.as = "message" =>
    \A chunk \in Chunks(m) :
      /\ Len(chunk.columns) = Len(chunk.types)
      /\ \A i \in DOMAIN chunk.columns :
           /\ chunk.columns[i] # Nothing
           /\ chunk.types[i].id \notin VarcharIDs => Len(Get(chunk.columns[i])) = chunk.rows

\* Whatever groups are read as a number, it fits its width, its own encoding
\* is not longer and reads the same: also where bits were shifted out
\* (binary_reader.go:201).
NumbersFit ==
  Arrived("none") /\ sent.as \in {"uleb", "sleb"} =>
    \A v \in result.v :
      LET bytes == Encode(sent.as, v)
      IN  /\ v \in IF sent.as = "uleb" THEN 0..Invalid ELSE (-MaxInt - 1)..MaxInt
          /\ Len(bytes) <= Len(wire)
          /\ Decode(sent.as, bytes) = result
============================================================================
