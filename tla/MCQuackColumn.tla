--------------------------- MODULE MCQuackColumn ---------------------------
(***************************************************************************)
(* Instances of QuackColumn for TLC.  Widths of 2, 3, 4, 5 and 10 bits for *)
(* 8, 16, 32, 64 and 128, masks of two rows to a word, binary "decimals",  *)
(* two nanoseconds to a microsecond and three microseconds to a day, so    *)
(* that every boundary of the code is inside the values tried.             *)
(***************************************************************************)
EXTENDS QuackColumn, TLC

CONSTANTS MaxRows, MaxItems, Types

SmallBits == (8 :> 2) @@ (16 :> 3) @@ (32 :> 4) @@ (64 :> 5) @@ (128 :> 10)
SmallDigits == (16 :> 2) @@ (32 :> 3) @@ (64 :> 4) @@ (128 :> 9)
SmallNanos == [us |-> 2, ms |-> 4, s |-> 8, day |-> 6]

Signeds(w) == {-(2 ^ (Bits[w] - 1)), -1, 0, 1, 2 ^ (Bits[w] - 1) - 1}
Unsigneds(w) == {0, 1, 2 ^ (Bits[w] - 1), 2 ^ Bits[w] - 1}
InMicros(w, unit) ==
  LET micros(x) == (x * unit) \div Nanos.us
  IN  {x \in Signeds(w) \union {2, 3} : Signed(w, micros(x)) = micros(x)}

\* UUIDs with at most one digit that is not 0, and one of many.
Uuids == { [i \in 1..32 |-> IF i = d THEN 9 ELSE 0] : d \in {0, 1, 2, 14, 15, 31, 32} }
           \union { [i \in 1..32 |-> i % 16] }

PlainValues(t) ==
  CASE t.id = "BOOLEAN" -> BOOLEAN
    [] t.id \in {"TINYINT", "SMALLINT", "INTEGER", "BIGINT", "TIMESTAMP",
                 "TIMESTAMP_TZ", "TIMESTAMP_NS"} -> Signeds(Width(Physical(t)))
    [] t.id \in {"UTINYINT", "USMALLINT", "UINTEGER", "UBIGINT", "UHUGEINT"} ->
         Unsigneds(Width(Physical(t)))
    [] t.id = "HUGEINT" -> Signeds(128) \union {2 ^ Bits[64], -(2 ^ Bits[64])}
    [] t.id = "TIMESTAMP_S" -> InMicros(64, Nanos.s)
    [] t.id = "TIMESTAMP_MS" -> InMicros(64, Nanos.ms)
    [] t.id = "DATE" -> {-8, -3, -2, 0, 2, 3, 7}
    [] t.id = "TIME" -> 0..3
    [] t.id = "TIME_NS" -> 0..6
    [] t.id = "DECIMAL" -> {1 - 2 ^ t.width, -1, 0, 1, 2 ^ t.width - 1}
    [] t.id = "ENUM" -> {0, t.n - 1}
    [] t.id = "UUID" -> Uuids
    [] t.id \in {"VARCHAR", "BLOB"} -> {"a", "b"}
    [] OTHER -> {1, 2}

RECURSIVE Values(_)
Values(t) ==
  LET some(u) == {NULL, CHOOSE v \in Values(u) : TRUE}
  IN  CASE t.id = "LIST" -> UNION {[1..n -> some(t.child)] : n \in 0..MaxItems}
        [] t.id = "ARRAY" -> [1..t.size -> some(t.child)]
        [] t.id = "STRUCT" -> {<<a, b>> : a \in some(t.fields[1]), b \in some(t.fields[2])}
        [] t.id = "MAP" ->
             { SubSeq(<< <<k, v>> >>, 1, n) :
                 k \in some(t.child.fields[1]) \ {NULL}, v \in some(t.child.fields[2]),
                 n \in 0..1 }
        [] OTHER -> PlainValues(t)

Small == Of("TINYINT")
PlainTypes ==
  { Of(id) : id \in DOMAIN PlainPhysical \ {"LIST", "MAP", "ARRAY", "STRUCT"} }
    \union { EnumOf(n) : n \in {2, 3, 4, 7, 8} }
    \union { DecimalOf(1, 0), DecimalOf(2, 1), DecimalOf(3, 2), DecimalOf(4, 2), DecimalOf(5, 1) }
NestedTypes ==
  { ListOf(Small), ListOf(Of("DATE")), ListOf(Of("UUID")), ListOf(DecimalOf(2, 1)),
    ListOf(ListOf(Small)), ListOf(MapOf(Small, Small)),
    ArrayOf(Of("UINTEGER"), 2), ArrayOf(Of("TIMESTAMP"), 1),
    StructOf(<<Of("BIGINT"), Of("BLOB")>>), StructOf(<<Of("BOOLEAN"), Of("TIME")>>),
    MapOf(Of("VARCHAR"), Of("DOUBLE")), MapOf(Small, Of("INTERVAL")) }
AllTypes == PlainTypes \union NestedTypes

\* Nested columns are a row shorter: their children make up for it.
RowsOf(t) == IF t \in NestedTypes THEN 0..MaxRows - 1 ELSE 0..MaxRows

AllColumns ==
  UNION { { <<t, rows>> : rows \in UNION {[1..n -> Values(t) \union {NULL}] : n \in RowsOf(t)} } :
            t \in Types }
============================================================================
