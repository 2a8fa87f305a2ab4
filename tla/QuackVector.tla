---------------------------- MODULE QuackVector ----------------------------
(***************************************************************************)
(* The columns of a DataChunk, as internal/message and internal/quacktype  *)
(* see them: the physical type of a logical type, the validity bitmap, the *)
(* decoding of flat, constant, dictionary and sequence vectors, and the    *)
(* encoding of flat ones.                                                  *)
(*                                                                         *)
(* A wire vector stands for the bytes of one column that is well formed:   *)
(* the tags and lengths of the serializer are left out.  A fixed-width     *)
(* value on the wire is the unsigned integer its bits spell, 128-bit ones  *)
(* a pair of halves.  Integers keep their width, at a scale: an n-bit      *)
(* integer of the code has Bits[n] bits here, a mask word has WordBits     *)
(* rows, a decimal digit has Ten values.                                   *)
(*                                                                         *)
(* A decoded value is what GetObject returns: a record of its Go type and  *)
(* its value, or NULL for nil.  Times are nanoseconds since the epoch.     *)
(***************************************************************************)
EXTENDS Integers, Sequences, FiniteSets
LOCAL INSTANCE SequencesExt

CONSTANTS
  NULL,          \* SQL NULL, Go's nil, and an absent mask
  Bits,          \* width of the integers, per width of the code
  WordBits,      \* rows in a word of the validity mask (64)
  Ten,           \* the base of decimals (10)
  Digits,        \* decimal digits held by a width (4, 9, 18 and 38)
  Nanos          \* nanoseconds in a unit of time

ASSUME WidthAssumption ==
  /\ Bits \in [{8, 16, 32, 64, 128} -> Nat \ {0}]
  /\ Bits[8] < Bits[16] /\ Bits[16] < Bits[32] /\ Bits[32] < Bits[64]
  /\ Bits[128] = 2 * Bits[64]
  /\ WordBits \in Nat \ {0}
  /\ Ten \in Nat \ {0, 1}

ASSUME DigitAssumption ==
  \A w \in {16, 32, 64, 128} : Ten ^ Digits[w] <= 2 ^ (Bits[w] - 1)

---------------------------------------------------------------------------
(* Machine integers.                                                       *)

Unsigned(w, x) == x % (2 ^ Bits[w])

Signed(w, x) ==
  LET u == Unsigned(w, x)
  IN  IF u < 2 ^ (Bits[w] - 1) THEN u ELSE u - 2 ^ Bits[w]

\* Truncated division, Go's / on integers and big.Int.Quo.
Quo(a, b) == IF a >= 0 THEN a \div b ELSE -((-a) \div b)

---------------------------------------------------------------------------
(* Logical and physical types.                                             *)

Of(id) == [id |-> id]
DecimalOf(width, scale) == [id |-> "DECIMAL", width |-> width, scale |-> scale]
EnumOf(n) == [id |-> "ENUM", n |-> n]
ListOf(t) == [id |-> "LIST", child |-> t]
ArrayOf(t, n) == [id |-> "ARRAY", child |-> t, size |-> n]
StructOf(ts) == [id |-> "STRUCT", fields |-> ts]
MapOf(k, v) == [id |-> "MAP", child |-> StructOf(<<k, v>>)]

PlainPhysical ==
  [ BOOLEAN |-> "BOOL", TINYINT |-> "INT8", UTINYINT |-> "UINT8",
    SMALLINT |-> "INT16", USMALLINT |-> "UINT16", DATE |-> "INT32",
    INTEGER |-> "INT32", UINTEGER |-> "UINT32", BIGINT |-> "INT64",
    TIME |-> "INT64", TIME_NS |-> "INT64", TIMESTAMP |-> "INT64",
    TIMESTAMP_S |-> "INT64", TIMESTAMP_MS |-> "INT64",
    TIMESTAMP_NS |-> "INT64", TIMESTAMP_TZ |-> "INT64", UBIGINT |-> "UINT64",
    HUGEINT |-> "INT128", UUID |-> "INT128", UHUGEINT |-> "UINT128",
    FLOAT |-> "FLOAT", DOUBLE |-> "DOUBLE", VARCHAR |-> "VARCHAR",
    BLOB |-> "VARCHAR", INTERVAL |-> "INTERVAL", STRUCT |-> "STRUCT",
    LIST |-> "LIST", MAP |-> "LIST", ARRAY |-> "ARRAY" ]

DecimalPhysical(t) ==
  CASE t.width <= Digits[16] -> "INT16"
    [] t.width > Digits[16] /\ t.width <= Digits[32] -> "INT32"
    [] t.width > Digits[32] /\ t.width <= Digits[64] -> "INT64"
    [] OTHER -> "INT128"

EnumPhysical(t) ==
  CASE t.n < 2 ^ Bits[8] -> "UINT8"
    [] t.n >= 2 ^ Bits[8] /\ t.n < 2 ^ Bits[16] -> "UINT16"
    [] OTHER -> "UINT32"

Physical(t) ==
  CASE t.id = "DECIMAL" -> DecimalPhysical(t)
    [] t.id = "ENUM" -> EnumPhysical(t)
    [] OTHER -> PlainPhysical[t.id]

Width(p) ==
  CASE p \in {"INT8", "UINT8"} -> 8
    [] p \in {"INT16", "UINT16"} -> 16
    [] p \in {"INT32", "UINT32"} -> 32
    [] p \in {"INT64", "UINT64"} -> 64
    [] OTHER -> 128

IsConstantSize(p) == p \notin {"VARCHAR", "STRUCT", "LIST", "ARRAY"}

\* Types whose decoded values are objects although their width is fixed.
NeedsObjects(t) ==
  \/ t.id \in {"DECIMAL", "DATE", "TIME", "TIME_NS", "TIMESTAMP", "TIMESTAMP_S",
               "TIMESTAMP_MS", "TIMESTAMP_NS", "TIMESTAMP_TZ", "UUID",
               "INTERVAL", "HUGEINT", "UHUGEINT", "ENUM"}
  \/ Physical(t) \in {"INTERVAL", "INT128", "UINT128"}

IsObjects(t) == NeedsObjects(t) \/ ~IsConstantSize(Physical(t))

\* The Go type of the elements of a primitive vector.  An unsigned type is
\* promoted to the next signed one, except that 64 bits stay 64 bits.
Elem(p) ==
  CASE p = "BOOL" -> "bool"
    [] p = "INT8" -> "int8"
    [] p \in {"UINT8", "INT16"} -> "int16"
    [] p \in {"UINT16", "INT32"} -> "int32"
    [] p \in {"UINT32", "INT64", "UINT64"} -> "int64"
    [] p = "FLOAT" -> "float32"
    [] p = "DOUBLE" -> "float64"

GoWidth == [int8 |-> 8, int16 |-> 16, int32 |-> 32, int64 |-> 64]

Go(kind, x) == [go |-> kind, val |-> x]

---------------------------------------------------------------------------
(* The validity bitmap: a sequence of words, a word the set of its valid   *)
(* bits, or NULL when every row is valid.  Rows count from 0.              *)

WordCount(count) == (count + WordBits - 1) \div WordBits

IsValid(mask, row) ==
  mask = NULL \/ row % WordBits \in mask[row \div WordBits + 1]

AllValid(count) ==
  [w \in 1..WordCount(count) |->
     {b \in 0..WordBits - 1 : (w - 1) * WordBits + b < count}]

SetNull(mask, row) ==
  [mask EXCEPT ![row \div WordBits + 1] = @ \ {row % WordBits}]

\* A mask with the given rows cleared, made only when there is one.
MaskWithout(rows, count) ==
  IF rows = {} THEN NULL
  ELSE FoldLeft(SetNull, AllValid(count), SetToSeq(rows))

---------------------------------------------------------------------------
(* Decoded vectors: primitive values with a mask, or objects.              *)

Prims(elem, vals, mask) == [elem |-> elem, vals |-> vals, mask |-> mask]
Objects(vals) == [elem |-> "object", vals |-> vals]

IsNull(vec, row) ==
  IF vec.elem = "object" THEN vec.vals[row + 1] = NULL ELSE ~IsValid(vec.mask, row)

GetObject(vec, row) ==
  IF IsNull(vec, row) THEN NULL
  ELSE IF vec.elem = "object" THEN vec.vals[row + 1]
  ELSE Go(vec.elem, vec.vals[row + 1])

Zero(elem) == IF elem = "bool" THEN FALSE ELSE 0

---------------------------------------------------------------------------
(* Decoding.  A wire vector is a record of its encoding:                   *)
(*   flat        mask, and data, or the vectors of its children;           *)
(*   constant    inner, the vector of one row;                             *)
(*   dictionary  dict, the vector of dictCount rows, and the selection;    *)
(*   sequence    start and incr.                                           *)

FromParts(upper, lower) == upper * 2 ^ Bits[64] + lower

\* The sign bit of a UUID is flipped in storage; its value is 32 hex digits.
FlipFirst(hex) == [hex EXCEPT ![1] = (@ + 8) % 16]

Int64LogicalValue(t, x) ==
  CASE t.id \in {"TIME", "TIMESTAMP", "TIMESTAMP_TZ"} -> Go("time", x * Nanos.us)
    [] t.id \in {"TIME_NS", "TIMESTAMP_NS"} -> Go("time", x)
    [] t.id = "TIMESTAMP_MS" -> Go("time", x * Nanos.ms)
    [] t.id = "TIMESTAMP_S" -> Go("time", x * Nanos.s)
    [] t.id = "DECIMAL" -> Go("rat", <<x, t.scale>>)
    [] OTHER -> Go("int64", x)

DecodeInt128(t, raw) ==
  LET signed == FromParts(Signed(64, raw.upper), raw.lower)
  IN  IF t.id = "DECIMAL" THEN Go("rat", <<signed, t.scale>>) ELSE Go("bigint", signed)

DecodeFixedValue(t, raw) ==
  LET p == Physical(t)
  IN  CASE t.id = "ENUM" -> IF raw < t.n THEN Go("string", raw) ELSE Go("int", raw)
        [] t.id = "UUID" -> Go("string", FlipFirst(raw))
        [] t.id = "DATE" -> Go("time", Signed(32, raw) * Nanos.day)
        [] t.id = "INTERVAL" -> Go("interval", raw)
        [] p = "INT64" -> Int64LogicalValue(t, Signed(64, raw))
        [] t.id # "DATE" /\ p \in {"INT16", "INT32"} -> Go("rat", <<Signed(Width(p), raw), t.scale>>)
        [] p = "INT128" /\ t.id # "UUID" -> DecodeInt128(t, raw)
        [] p = "UINT128" -> Go("bigint", FromParts(raw.upper, raw.lower))

DecodePrimitive(p, raw) ==
  CASE p = "BOOL" -> raw # 0
    [] p \in {"INT8", "INT16", "INT32", "INT64", "UINT64"} -> Signed(Width(p), raw)
    [] OTHER -> raw

DecodeFixedFlatVector(t, w) ==
  LET p == Physical(t)
  IN  IF NeedsObjects(t)
      THEN Objects([i \in DOMAIN w.data |->
                      IF IsValid(w.mask, i - 1) THEN DecodeFixedValue(t, w.data[i])
                      ELSE NULL])
      ELSE Prims(Elem(p), [i \in DOMAIN w.data |-> DecodePrimitive(p, w.data[i])], w.mask)

DecodeStringLike(t, x) == Go(IF t.id = "BLOB" THEN "bytes" ELSE "string", x)

\* An object for every row that is valid.
ObjectPerRow(w, count, Value(_)) ==
  Objects([i \in 1..count |-> IF IsValid(w.mask, i - 1) THEN Value(i - 1) ELSE NULL])

\* One value for all rows.
BroadcastValue(t, value, count) ==
  LET elem == Elem(Physical(t))
      cast == IF elem \in DOMAIN GoWidth THEN Signed(GoWidth[elem], value.val)
              ELSE value.val
  IN  IF IsObjects(t) THEN Objects([i \in 1..count |-> value])
      ELSE IF value = NULL
      THEN Prims(elem, [i \in 1..count |-> Zero(elem)],
                 [w \in 1..WordCount(count) |-> {}])
      ELSE Prims(elem, [i \in 1..count |-> cast], NULL)

\* A slip of ProjectVector: the mask of the dictionary is not projected.
SlipProjectVector(t, dict, selection) ==
  IF IsObjects(t)
  THEN Objects([i \in DOMAIN selection |-> GetObject(dict, selection[i])])
  ELSE Prims(dict.elem, [i \in DOMAIN selection |-> dict.vals[selection[i] + 1]], NULL)

\* The rows of a dictionary that a selection names.
ProjectVector(t, dict, selection) ==
  LET nulls == {i \in DOMAIN selection : IsNull(dict, selection[i])}
  IN  IF IsObjects(t)
      THEN Objects([i \in DOMAIN selection |-> GetObject(dict, selection[i])])
      ELSE Prims(dict.elem,
                 [i \in DOMAIN selection |->
                    IF i \in nulls THEN Zero(dict.elem) ELSE dict.vals[selection[i] + 1]],
                 MaskWithout({i - 1 : i \in nulls}, Len(selection)))

\* The running value is an int64 that wraps.
SequenceVector(t, count, start, incr) ==
  LET at(i) == Signed(64, start + (i - 1) * incr)
  IN  CASE t.id = "INTEGER" -> Prims("int32", [i \in 1..count |-> Signed(32, at(i))], NULL)
        [] t.id = "BIGINT" -> Prims("int64", [i \in 1..count |-> at(i)], NULL)
        [] OTHER -> Objects([i \in 1..count |-> Int64LogicalValue(t, at(i))])

RECURSIVE DecodeVector(_, _, _)

DecodeStruct(t, w, count) ==
  LET children == [c \in DOMAIN t.fields |-> DecodeVector(t.fields[c], w.children[c], count)]
  IN  ObjectPerRow(w, count, LAMBDA row :
        Go("map", [c \in DOMAIN t.fields |-> GetObject(children[c], row)]))

DecodeList(t, w, count) ==
  LET child == DecodeVector(t.child, w.child, w.listSize)
  IN  ObjectPerRow(w, count, LAMBDA row :
        LET e == w.entries[row + 1]
        IN  Go("list", [k \in 1..e.length |-> GetObject(child, e.offset + k - 1)]))

DecodeArray(t, w, count) ==
  LET child == DecodeVector(t.child, w.child, t.size * count)
  IN  ObjectPerRow(w, count, LAMBDA row :
        Go("list", [k \in 1..t.size |-> GetObject(child, row * t.size + k - 1)]))

DecodeFlatVector(t, w, count) ==
  LET p == Physical(t)
  IN  CASE IsConstantSize(p) -> DecodeFixedFlatVector(t, w)
        [] p = "VARCHAR" ->
             ObjectPerRow(w, count, LAMBDA row : DecodeStringLike(t, w.data[row + 1]))
        [] p = "STRUCT" -> DecodeStruct(t, w, count)
        [] p = "LIST" -> DecodeList(t, w, count)
        [] p = "ARRAY" -> DecodeArray(t, w, count)

DecodeConstant(t, w, count) ==
  LET single == DecodeVector(t, w.inner, IF count > 0 THEN 1 ELSE 0)
  IN  BroadcastValue(t, IF count > 0 THEN GetObject(single, 0) ELSE NULL, count)

DecodeVector(t, w, count) ==
  CASE w.enc = "flat" -> DecodeFlatVector(t, w, count)
    [] w.enc = "constant" -> DecodeConstant(t, w, count)
    [] w.enc = "dictionary" ->
         ProjectVector(t, DecodeVector(t, w.dict, w.dictCount), w.selection)
    [] w.enc = "sequence" -> SequenceVector(t, count, w.start, w.incr)

---------------------------------------------------------------------------
(* Encoding: always flat, and never nested.                                *)

\* A slip of ExtractValidity: objects have no mask.
SlipExtractValidity(vec) == IF vec.elem = "object" THEN NULL ELSE vec.mask

\* A mask is there when the vector carries one, or holds a nil.
ExtractValidity(vec) ==
  IF vec.elem = "object"
  THEN MaskWithout({i - 1 : i \in {j \in DOMAIN vec.vals : vec.vals[j] = NULL}},
                   Len(vec.vals))
  ELSE vec.mask

\* A rational is cut to an integer; a big integer is taken for a whole
\* number, and scaled.
DecimalUnscaled(t, value) ==
  LET factor == Ten ^ t.scale
  IN  CASE value = NULL -> 0
        [] value # NULL /\ value.go = "rat" ->
             Quo(value.val[1] * factor, Ten ^ value.val[2])
        [] value # NULL /\ value.go # "rat" -> value.val * factor

Halves(x) ==
  [ lower |-> x % (2 ^ Bits[64]), upper |-> Unsigned(64, x \div (2 ^ Bits[64])) ]

ToInt64(value) ==
  IF value # NULL /\ value.go \in DOMAIN GoWidth THEN value.val ELSE 0

ToBit(value) == IF value # NULL /\ value.val THEN 1 ELSE 0

EncodeFixedValue(t, value) ==
  LET p == Physical(t)
      x == IF t.id = "DECIMAL" THEN DecimalUnscaled(t, value) ELSE ToInt64(value)
  IN  CASE p = "BOOL" -> ToBit(value)
        [] p \in {"FLOAT", "DOUBLE"} -> IF value = NULL THEN 0 ELSE value.val
        [] p = "INT128" -> Halves(x)
        [] OTHER -> Unsigned(Width(p), x)

\* The values of a string column are bytes; nil is the empty string.
EncodeStringLike(value) == IF value = NULL THEN "" ELSE value.val

EncodeVector(t, vec) ==
  [ enc |-> "flat", mask |-> ExtractValidity(vec),
    data |-> [i \in DOMAIN vec.vals |->
                IF Physical(t) = "VARCHAR" THEN EncodeStringLike(GetObject(vec, i - 1))
                ELSE EncodeFixedValue(t, GetObject(vec, i - 1))] ]
============================================================================
