--------------------------- MODULE MCQuackParams ---------------------------
(* Every short statement over the characters that matter to the scan, longer *)
(* ones over those of comments and strings, each with too few, enough and    *)
(* too many values.                                                          *)
EXTENDS QuackParams, FiniteSets

AllChars == {"'", "\"", "-", "/", "*", "\n", "?", "E", "\\", "$", "1"}
FewChars == {"'", "/", "*", "?"}
MaxLen == 4
MaxLongLen == 7

Markers(s) == Cardinality({k \in DOMAIN s : s[k] = "?"})

Integer(n) == [valid |-> TRUE, type |-> "integer", n |-> n]
Float(n) == [valid |-> TRUE, type |-> "float", n |-> n]
String(s) == [valid |-> TRUE, type |-> "string", s |-> s]
Decimal(n, scale) == [valid |-> TRUE, type |-> "decimal", n |-> n, scale |-> scale]
Null(type) == [valid |-> FALSE, type |-> type]
Dictionary(v) == [valid |-> TRUE, type |-> "dictionary", of |-> v]

Few == {Integer(-1), String(<<"'", "?">>), Null("decimal")}
Others == {Integer(0), Integer(12), Float(-5), String(<<>>), String(<<"x">>), String(<<"'", "'">>),
           String(<<"x", "'">>), String(<<"-", "-">>), Null("dictionary"), Dictionary(Null("string")),
           Dictionary(String(<<"'">>)), [valid |-> TRUE, type |-> "bool"],
           [valid |-> TRUE, type |-> "binary", s |-> <<"0", "'">>],
           [valid |-> TRUE, type |-> "temporal", s |-> <<"1", "-", "1">>]}
Decimals == {Decimal(n, scale) : n \in {-105, -7, 0, 3, 12, 100}, scale \in {-1, 0, 1, 2, 4}}
Rows(values, n) == [1..n -> values]

\* Where the markers may touch their neighbours, every value.
Seams == {<<c, "?">> : c \in AllChars} \union {<<"?", c>> : c \in AllChars}
Long == {<<"-", "-", "?", "\n", "?">>, <<"E", "'", "\\", "'", "?", "'", "?">>,
         <<"$", "E", "$", "?", "$", "E", "$">>, <<"\"", "\"", "\"", "?", "\"", "?">>}

\* As many values as there are markers, one less, or one more.
RowsFor(s) ==
  {r \in UNION {Rows(Few, n) : n \in 0..3} :
     \/ Len(r) = Markers(s)
     \/ Len(r) \in {Markers(s) - 1, Markers(s) + 1} /\ Range(r) \subseteq {Integer(-1)}}
RowsOf == [n \in 0..2 |-> RowsFor([k \in 1..n |-> "?"])]

MCStatements ==
  [sql : Seams, row : Rows(Few \union Others \union Decimals, 1)]
  \union UNION {[sql : {t \in texts : Markers(t) = n}, row : RowsOf[n]] :
                n \in 0..2,
                texts \in {Long} \union {[1..m -> AllChars] : m \in 0..MaxLen}
                               \union {[1..m -> FewChars] : m \in (MaxLen + 1)..MaxLongLen}}
=============================================================================
