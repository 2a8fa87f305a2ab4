---------------------------- MODULE QuackColumn ----------------------------
(***************************************************************************)
(* The way of a column through the driver.  A server sends it as a vector, *)
(* internal/message decodes the vector, arrow_conv.go builds an Arrow      *)
(* array of it; the application may bind that array for an ingest, and     *)
(* bulk_ingest.go makes a vector of it again, which is encoded and stored  *)
(* by the server.  Messages are well formed: what the server may choose is *)
(* the encoding of every vector.                                           *)
(*                                                                         *)
(* A value of the database is NULL, or an integer (numbers, days, units of *)
(* time since midnight or the epoch, unscaled decimals, positions in an    *)
(* enum), a token (strings), 32 hex digits (UUID), or a sequence (lists,   *)
(* arrays, structs, and the <<key, value>> pairs of a map).  An Arrow      *)
(* value is the same kind of thing, in the unit of its Arrow type, and a   *)
(* UUID is 16 bytes.                                                       *)
(***************************************************************************)
EXTENDS QuackVector
LOCAL INSTANCE SequencesExt
LOCAL INSTANCE Bitwise

CONSTANTS
  Columns,          \* the columns read: pairs of a type and its rows
  ChildEncodings    \* the encodings a server uses inside a nested vector

VARIABLES
  type,      \* the column's logical type
  column,    \* its rows, as the server that holds it means them
  wire,      \* the vector last sent
  vec,       \* the decoded vector last made
  arrow,     \* the Arrow array
  step       \* how far the column has come

vars == <<type, column, wire, vec, arrow, step>>

---------------------------------------------------------------------------
(* The server: any encoding that means the rows.                           *)

NullRows(col) == {i - 1 : i \in {j \in DOMAIN col : col[j] = NULL}}

Masks(col) ==
  IF NullRows(col) = {} THEN {NULL, AllValid(Len(col))}
  ELSE {MaskWithout(NullRows(col), Len(col))}

\* What stands at the place of a NULL is not looked at.
RawValue(t, v) ==
  LET p == Physical(t)
      x == IF v = NULL THEN 0 ELSE v
  IN  CASE t.id = "UUID" -> IF v = NULL THEN [i \in 1..32 |-> 0] ELSE FlipFirst(v)
        [] p = "BOOL" -> IF v = NULL \/ ~v THEN 0 ELSE 1
        [] p \in {"FLOAT", "DOUBLE", "VARCHAR", "INTERVAL"} -> v
        [] t.id # "UUID" /\ p \in {"INT128", "UINT128"} -> Halves(x)
        [] OTHER -> Unsigned(Width(p), x)

RowLength(v) == IF v = NULL THEN 0 ELSE Len(v)

ListEntries(col) ==
  [i \in DOMAIN col |->
     [ length |-> RowLength(col[i]),
       offset |-> FoldLeft(LAMBDA n, v : n + RowLength(v), 0, SubSeq(col, 1, i - 1)) ]]

\* The rows of the child column, those of a NULL row included.
Children(t, col) ==
  LET pad == IF t.id = "ARRAY" THEN [k \in 1..t.size |-> NULL] ELSE <<>>
  IN  FlattenSeq([i \in DOMAIN col |-> IF col[i] = NULL THEN pad ELSE col[i]])

Field(col, c) == [i \in DOMAIN col |-> IF col[i] = NULL THEN NULL ELSE col[i][c]]

\* The distinct values of a column, with and without one it does not use.
Dictionaries(col) ==
  LET used == SetToSeq(ToSet(col)) IN {used, <<NULL>> \o used}

SequenceTypes == {"TINYINT", "UTINYINT", "SMALLINT", "USMALLINT", "INTEGER",
                  "UINTEGER", "BIGINT", "UBIGINT"}

ArithmeticVectors(t, col) ==
  IF t.id \notin SequenceTypes \/ Len(col) < 2 \/ NullRows(col) # {} THEN {}
  ELSE {s \in [enc : {"sequence"}, start : {col[1]}, incr : {col[2] - col[1]}] :
          /\ \A i \in DOMAIN col : col[i] = s.start + (i - 1) * s.incr
          /\ \A x \in {s.start, s.incr, col[Len(col)]} : Signed(64, x) = x}

RECURSIVE WireVectors(_, _)

ChildVectors(t, col) == {w \in WireVectors(t, col) : w.enc \in ChildEncodings}

FlatVectors(t, col) ==
  CASE t.id = "STRUCT" ->
         { [enc |-> "flat", mask |-> m, children |-> <<a, b>>] :
             m \in Masks(col), a \in ChildVectors(t.fields[1], Field(col, 1)),
             b \in ChildVectors(t.fields[2], Field(col, 2)) }
    [] Physical(t) = "LIST" ->
         { [enc |-> "flat", mask |-> m, entries |-> ListEntries(col),
            listSize |-> Len(Children(t, col)), child |-> c] :
             m \in Masks(col), c \in ChildVectors(t.child, Children(t, col)) }
    [] t.id = "ARRAY" ->
         { [enc |-> "flat", mask |-> m, child |-> c] :
             m \in Masks(col), c \in ChildVectors(t.child, Children(t, col)) }
    [] OTHER ->
         { [enc |-> "flat", mask |-> m, data |-> [i \in DOMAIN col |-> RawValue(t, col[i])]] :
             m \in Masks(col) }

DictionaryVectors(t, col) ==
  UNION { { [ enc |-> "dictionary", dictCount |-> Len(d), dict |-> w,
              selection |-> [i \in DOMAIN col |->
                               (CHOOSE k \in DOMAIN d : d[k] = col[i]) - 1] ] :
              w \in FlatVectors(t, d) } :
          d \in Dictionaries(col) }

ConstantVectors(t, col) ==
  IF Cardinality(ToSet(col)) > 1 THEN {}
  ELSE { [enc |-> "constant", inner |-> w] :
           w \in FlatVectors(t, IF col = <<>> THEN <<>> ELSE <<Head(col)>>) }

WireVectors(t, col) ==
  FlatVectors(t, col) \union ConstantVectors(t, col)
    \union DictionaryVectors(t, col) \union ArithmeticVectors(t, col)

\* What a server stores of a flat vector it is sent.
StoredValue(t, w, i) ==
  LET raw == w.data[i]
  IN  CASE ~IsValid(w.mask, i - 1) -> NULL
        [] IsValid(w.mask, i - 1) /\ Physical(t) = "VARCHAR" -> raw
        [] IsValid(w.mask, i - 1) /\ t.id = "DECIMAL" /\ Physical(t) # "INT128" ->
             Signed(Width(Physical(t)), raw)
        [] IsValid(w.mask, i - 1) /\ Physical(t) = "INT128" ->
             FromParts(Signed(64, raw.upper), raw.lower)
        [] IsValid(w.mask, i - 1) /\ Physical(t) = "UINT64" -> raw
        [] OTHER -> DecodePrimitive(Physical(t), raw)

---------------------------------------------------------------------------
(* From vectors to Arrow: arrow_conv.go.                                   *)

PlainArrow ==
  [ BOOLEAN |-> "bool", TINYINT |-> "int8", SMALLINT |-> "int16",
    INTEGER |-> "int32", BIGINT |-> "int64", UTINYINT |-> "uint8",
    USMALLINT |-> "uint16", UINTEGER |-> "uint32", UBIGINT |-> "uint64",
    FLOAT |-> "float32", DOUBLE |-> "float64", VARCHAR |-> "string",
    ENUM |-> "string", BLOB |-> "binary", DATE |-> "date32",
    TIME |-> "time64us", TIME_NS |-> "time64ns", TIMESTAMP |-> "timestamp",
    TIMESTAMP_S |-> "timestamp", TIMESTAMP_MS |-> "timestamp",
    TIMESTAMP_NS |-> "timestamp", TIMESTAMP_TZ |-> "timestamp_tz",
    UUID |-> "fixed16", INTERVAL |-> "interval" ]

RECURSIVE ArrowType(_)

ArrowType(t) ==
  CASE t.id = "DECIMAL" -> [at |-> "decimal", width |-> t.width, scale |-> t.scale]
    [] t.id \in {"HUGEINT", "UHUGEINT"} ->
         [at |-> "decimal", width |-> Digits[128], scale |-> 0]
    [] t.id = "LIST" -> [at |-> "list", child |-> ArrowType(t.child)]
    [] t.id = "ARRAY" -> [at |-> "fixedlist", child |-> ArrowType(t.child), size |-> t.size]
    [] t.id = "STRUCT" ->
         [at |-> "struct", fields |-> [c \in DOMAIN t.fields |-> ArrowType(t.fields[c])]]
    [] t.id = "MAP" ->
         [at |-> "map", key |-> ArrowType(t.child.fields[1]),
          item |-> ArrowType(t.child.fields[2])]
    [] OTHER -> [at |-> PlainArrow[t.id]]

ArrowWidth == [ int8 |-> 8, int16 |-> 16, int32 |-> 32, int64 |-> 64,
                uint8 |-> 8, uint16 |-> 16, uint32 |-> 32, uint64 |-> 64 ]

ArrowInteger(a, x) ==
  IF a.at \in {"int8", "int16", "int32", "int64"} THEN Signed(ArrowWidth[a.at], x)
  ELSE Unsigned(ArrowWidth[a.at], x)

ArrowDecimal(a, v) ==
  IF v.go = "rat" THEN Quo(v.val[1] * Ten ^ a.scale, Ten ^ v.val[2]) ELSE v.val

\* The builders that a column and a nested value are appended to alike.
SharedBuilders == DOMAIN ArrowWidth
  \union {"bool", "float32", "float64", "string", "binary", "decimal"}

SharedScalar(a, v) ==
  CASE a.at \in DOMAIN ArrowWidth -> ArrowInteger(a, ToInt64(v))
    [] a.at = "decimal" -> ArrowDecimal(a, v)
    [] OTHER -> v.val

RECURSIVE BoxedScalar(_, _)

\* A value inside a list, a struct or a map.  Dates, times, timestamps,
\* UUIDs, intervals and maps have no builder here and become null.
BoxedScalar(a, v) ==
  CASE v = NULL -> NULL
    [] v # NULL /\ a.at \in SharedBuilders -> SharedScalar(a, v)
    [] v # NULL /\ a.at \in {"list", "fixedlist"} ->
         [k \in DOMAIN v.val |-> BoxedScalar(a.child, v.val[k])]
    [] v # NULL /\ a.at = "struct" ->
         [c \in DOMAIN a.fields |-> BoxedScalar(a.fields[c], v.val[c])]
    [] OTHER -> NULL

\* Days since the epoch.  The difference of two times is an int64.
DateOf(nanos) ==
  LET most == 2 ^ (Bits[64] - 1) - 1
      duration == CASE nanos > most -> most
                    [] nanos < -most - 1 -> -most - 1
                    [] OTHER -> nanos
  IN  Quo(duration, Nanos.day)

\* The time of day in microseconds, whatever the unit of the Arrow type.
TimeOf(nanos) == (nanos % Nanos.day) \div Nanos.us

\* The positions of hex digits in a formatted UUID, and the digit at each.
DigitPositions == SelectSeq([i \in 1..36 |-> i - 1], LAMBDA i : i \notin {8, 13, 18, 23})
DigitAt(i) == i + 1 - Cardinality({d \in {8, 13, 18, 23} : d < i})

\* Which half of a byte a digit goes to is told from its position in the
\* string, dashes counted.
UuidBytes(hex) ==
  LET put(bytes, i) ==
        LET nib == hex[DigitAt(i)]
            n == Len(bytes)
        IN  IF i % 2 = 0 /\ n > 0 /\ n < 16 THEN [bytes EXCEPT ![n] = @ | nib]
            ELSE IF n >= 16 THEN bytes
            ELSE Append(bytes, nib * 16)
      bytes == FoldLeft(put, <<>>, DigitPositions)
  IN  bytes \o [i \in 1..16 - Len(bytes) |-> 0]

\* A value of a column of its own.
ColumnScalar(a, v) ==
  CASE v = NULL -> NULL
    [] v # NULL /\ a.at = "date32" -> DateOf(v.val)
    [] v # NULL /\ a.at \in {"time64us", "time64ns"} -> TimeOf(v.val)
    [] v # NULL /\ a.at \in {"timestamp", "timestamp_tz"} -> v.val \div Nanos.us
    [] v # NULL /\ a.at = "fixed16" -> UuidBytes(v.val)
    [] v # NULL /\ a.at = "map" ->
         [k \in DOMAIN v.val |-> << BoxedScalar(a.key, v.val[k].val[1]),
                                    BoxedScalar(a.item, v.val[k].val[2]) >>]
    [] OTHER -> BoxedScalar(a, v)

\* decimal128.FromBigInt panics when it is given more than 127 bits.
RECURSIVE TooBig(_)
TooBig(v) ==
  CASE v = NULL -> FALSE
    [] v # NULL /\ v.go = "bigint" ->
         v.val \notin -(2 ^ (Bits[128] - 1) - 1)..2 ^ (Bits[128] - 1) - 1
    [] v # NULL /\ v.go \in {"list", "map"} -> \E k \in DOMAIN v.val : TooBig(v.val[k])
    [] OTHER -> FALSE

---------------------------------------------------------------------------
(* From Arrow to vectors: bulk_ingest.go.                                  *)

\* The logical type an Arrow column is ingested as; NULL when there is none.
LogicalTypeForArrow(a) ==
  LET ids == {id \in DOMAIN PlainArrow : PlainArrow[id] = a.at}
  IN  CASE a.at = "decimal" -> DecimalOf(a.width, a.scale)
        [] a.at = "string" -> Of("VARCHAR")
        [] a.at = "timestamp" -> Of("TIMESTAMP")
        [] a.at \in DOMAIN ArrowWidth
             \union {"bool", "float32", "float64", "binary", "date32", "timestamp_tz"} ->
             Of(CHOOSE id \in ids : TRUE)
        [] OTHER -> NULL

\* The arrays that decodedVectorForArrow takes.
Encodable(a) ==
  /\ LogicalTypeForArrow(a) # NULL
  /\ a.at \notin {"date32", "timestamp", "timestamp_tz"}

\* A decimal is handed on as a big integer, unscaled.
ObjectOfArrow == [string |-> "string", binary |-> "bytes", decimal |-> "bigint"]

VectorForArrow(a, col) ==
  LET elem == Elem(Physical(LogicalTypeForArrow(a)))
      value(x) == CASE x = NULL -> Zero(elem)
                    [] x # NULL /\ elem \in DOMAIN GoWidth -> Signed(GoWidth[elem], x)
                    [] OTHER -> x
  IN  IF a.at \in DOMAIN ObjectOfArrow
      THEN Objects([i \in DOMAIN col |->
                      IF col[i] = NULL THEN NULL ELSE Go(ObjectOfArrow[a.at], col[i])])
      ELSE Prims(elem, [i \in DOMAIN col |-> value(col[i])],
                 MaskWithout(NullRows(col), Len(col)))

---------------------------------------------------------------------------
(* The way of one column.                                                  *)

Init ==
  /\ \E c \in Columns : type = c[1] /\ column = c[2]
  /\ wire = NULL
  /\ vec = NULL
  /\ arrow = <<>>
  /\ step = "held"

ServerSends ==
  /\ step = "held"
  /\ wire' \in WireVectors(type, column)
  /\ step' = "sent"
  /\ UNCHANGED <<type, column, vec, arrow>>

Decode ==
  /\ step = "sent"
  /\ vec' = DecodeVector(type, wire, Len(column))
  /\ step' = "decoded"
  /\ UNCHANGED <<type, column, wire, arrow>>

\* RecordFromChunk; no builder is known for intervals.
BuildColumn ==
  /\ step = "decoded"
  /\ LET a == ArrowType(type)
         rows == [i \in DOMAIN column |-> GetObject(vec, i - 1)]
     IN  \/ /\ a.at = "interval"
            /\ step' = "refused"
            /\ UNCHANGED arrow
         \/ /\ a.at # "interval"
            /\ \E i \in DOMAIN rows : TooBig(rows[i])
            /\ step' = "panicked"
            /\ UNCHANGED arrow
         \/ /\ a.at # "interval"
            /\ \A i \in DOMAIN rows : ~TooBig(rows[i])
            /\ arrow' = [i \in DOMAIN rows |-> ColumnScalar(a, rows[i])]
            /\ step' = "read"
  /\ UNCHANGED <<type, column, wire, vec>>

\* The application binds the array; chunkFromRecord.
ChunkFromRecord ==
  /\ step = "read"
  /\ LET a == ArrowType(type)
     IN  \/ /\ ~Encodable(a)
            /\ step' = "unsupported"
            /\ UNCHANGED <<type, vec>>
         \/ /\ Encodable(a)
            /\ type' = LogicalTypeForArrow(a)
            /\ vec' = VectorForArrow(a, arrow)
            /\ step' = "bound"
  /\ UNCHANGED <<column, wire, arrow>>

Encode ==
  /\ step = "bound"
  /\ wire' = EncodeVector(type, vec)
  /\ step' = "encoded"
  /\ UNCHANGED <<type, column, vec, arrow>>

ServerStores ==
  /\ step = "encoded"
  /\ column' = [i \in DOMAIN wire.data |-> StoredValue(type, wire, i)]
  /\ step' = "stored"
  /\ UNCHANGED <<type, wire, vec, arrow>>

Next ==
  \/ ServerSends
  \/ Decode
  \/ BuildColumn
  \/ ChunkFromRecord
  \/ Encode
  \/ ServerStores

Spec == Init /\ [][Next]_vars

---------------------------------------------------------------------------
(* Properties.                                                             *)

RECURSIVE Image(_, _)

\* The Arrow value that means v, to the precision of the Arrow type.
Image(t, v) ==
  CASE v = NULL -> NULL
    [] v # NULL /\ t.id = "TIMESTAMP_S" -> (v * Nanos.s) \div Nanos.us
    [] v # NULL /\ t.id = "TIMESTAMP_MS" -> (v * Nanos.ms) \div Nanos.us
    [] v # NULL /\ t.id = "TIMESTAMP_NS" -> v \div Nanos.us
    [] v # NULL /\ t.id = "UUID" -> [i \in 1..16 |-> 16 * v[2 * i - 1] + v[2 * i]]
    [] v # NULL /\ t.id \in {"LIST", "ARRAY"} -> [k \in DOMAIN v |-> Image(t.child, v[k])]
    [] v # NULL /\ t.id = "STRUCT" -> [c \in DOMAIN v |-> Image(t.fields[c], v[c])]
    [] v # NULL /\ t.id = "MAP" -> [k \in DOMAIN v |-> Image(t.child, v[k])]
    [] OTHER -> v

RECURSIVE LostInside(_, _)

\* The nested values that come out as null: those whose type has no builder
\* in appendBoxedScalar.
LostInside(t, v) ==
  CASE v = NULL -> FALSE
    [] v # NULL /\ t.id \in {"LIST", "ARRAY"} -> \E k \in DOMAIN v : LostInside(t.child, v[k])
    [] v # NULL /\ t.id = "STRUCT" -> \E c \in DOMAIN v : LostInside(t.fields[c], v[c])
    [] OTHER -> ArrowType(t).at \notin SharedBuilders

\* The values of a column that come out as others: days whose distance
\* from the epoch is no Duration, the time 24:00, every time in nanoseconds
\* but midnight, and every UUID with a digit other than 0 behind its first.
Lost(t, v) ==
  CASE v = NULL -> FALSE
    [] v # NULL /\ t.id = "DATE" -> Signed(64, v * Nanos.day) # v * Nanos.day
    [] v # NULL /\ t.id = "TIME" -> v * Nanos.us = Nanos.day
    [] v # NULL /\ t.id = "TIME_NS" -> v # 0
    [] v # NULL /\ t.id = "UUID" -> \E i \in 2..32 : v[i] # 0
    [] v # NULL /\ t.id = "MAP" ->
         \E k \in DOMAIN v : \E c \in 1..2 : LostInside(t.child.fields[c], v[k][c])
    [] OTHER -> LostInside(t, v) /\ ArrowType(t).at \in {"list", "fixedlist", "struct"}

Steps == {"held", "sent", "decoded", "refused", "panicked", "read",
          "unsupported", "bound", "encoded", "stored"}

\* Every row of the column has its place in the vectors and the array, on
\* both ways, and the mask a word for every WordBits rows.
TypeOK ==
  /\ step \in Steps
  /\ vec # NULL => Len(vec.vals) = Len(column)
  /\ vec # NULL /\ vec.elem # "object" /\ vec.mask # NULL =>
       /\ Len(vec.mask) = WordCount(Len(column))
       /\ \A w \in DOMAIN vec.mask : vec.mask[w] \subseteq 0..WordBits - 1
  /\ step \in {"read", "bound", "stored"} => Len(arrow) = Len(column)

\* Whichever way the server encodes a column, the Arrow array means its rows,
\* a null for a NULL and a value for a value, but for the values that Lost
\* names, and those are lost each time.  (DecodeVector and buildColumn
\* together, over every vector type, physical type and Arrow builder.)
ReadExact ==
  step = "read" =>
    \A i \in DOMAIN column :
      (arrow[i] = Image(type, column[i])) <=> ~Lost(type, column[i])

\* A column of 128-bit integers is read as it is or not at all: no value is
\* cut to what a Decimal128 holds.
HugeOrNothing ==
  type.id \in {"HUGEINT", "UHUGEINT"} /\ step \in {"read", "panicked"} =>
    (step = "panicked") <=>
      \E i \in DOMAIN column :
        column[i] # NULL /\ column[i] \notin -(2 ^ (Bits[128] - 1) - 1)..2 ^ (Bits[128] - 1) - 1

\* A column is read row by row, as it is or as Lost says, or it panics.
ReadOK == TypeOK /\ ReadExact /\ HugeOrNothing

\* What the server stores of an ingested array is the array, nulls included,
\* but for a decimal with a fraction, which is scaled twice and is right only
\* when it is zero.  (chunkFromRecord and EncodeVector together.)
StoredExact ==
  step = "stored" =>
    \A i \in DOMAIN column :
      (column[i] = arrow[i]) <=>
        ~(type.id = "DECIMAL" /\ type.scale > 0 /\ arrow[i] \notin {NULL, 0})
============================================================================
