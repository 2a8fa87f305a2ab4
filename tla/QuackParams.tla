---------------------------- MODULE QuackParams ----------------------------
(***************************************************************************)
(* The ? markers of a statement replaced by the literals of a bound row    *)
(* (substituteParams, driver/quack/params.go).  The statement is scanned   *)
(* once, character by character, and written to the one that is sent.      *)
(*                                                                         *)
(* Beside the scan run two readings of DuckDB's own: here, of the          *)
(* statement as the application wrote it, and there, of what is sent.      *)
(* Each is the state of Lex, which goes to "beyond", for good, at what the *)
(* scanner does not know of SQL: a nested comment, a comment that opens    *)
(* with /*/, a string in dollars, a quote behind a backslash in an E       *)
(* string, and a numbered marker (?1).                                     *)
(***************************************************************************)
EXTENDS Integers, Sequences, Functions

CONSTANT Statements  \* statements and the row of Arrow values bound: [sql, row]

VARIABLES sql, row,     \* the arguments of substituteParams
          i, idx,       \* its counters: characters read, i from 1, and values taken
          mode,         \* its four booleans: which of them is set, or "top"
          here, there,  \* what DuckDB has read of sql, and of what is sent
          glued,        \* a literal has become one token with a neighbour
          result        \* "none", "ok", or the error: "more", "fewer"
vars == <<sql, row, i, idx, mode, here, there, glued, result>>

Letters == {"x", "E"}
DigitChars == <<"0", "1", "2", "3", "4", "5", "6", "7", "8", "9">>
Digits == {DigitChars[k] : k \in 1..10}
Word == Letters \union Digits \union {"."}
Quote == "'"
Chars == Word \union {Quote, "\"", "-", "/", "*", "\n", "?", "\\", "$", ":", " "}

\* An Arrow value: NULL, or of a type that scalarAt knows.  Of a date or a time
\* it has the text that Format makes of it.
PlainTypes == {"bool", "integer", "float", "string", "binary", "decimal", "temporal"}
IsPlain(v) ==
  /\ v.valid \in BOOLEAN
  /\ v.valid =>
       /\ v.type \in PlainTypes
       /\ v.type \in {"integer", "float", "decimal"} => v.n \in Int
       /\ v.type = "decimal" => v.scale \in Int
       /\ v.type \in {"string", "binary"} => v.s \in Seq(Chars)
       /\ v.type = "temporal" => v.s \in Seq(Chars \ {Quote})
\* A column may hold positions in a dictionary.
Refers(v) == v.valid /\ v.type = "dictionary"
Referent(v) == IF Refers(v) THEN v.of ELSE v

ASSUME StatementsAssumption ==
  \A s \in Statements :
    /\ s.sql \in Seq(Chars)
    /\ Len(s.row) \in Nat
    /\ \A k \in 1..Len(s.row) : s.row[k].valid \in BOOLEAN /\ IsPlain(Referent(s.row[k]))
----------------------------------------------------------------------------
(* DuckDB's reading, one character at a time.                              *)

Insides == {"string", "estring", "backslash", "identifier", "line", "open", "block", "star", "inner"}
Outsides == {"gap", "word", "escape", "quoteEnd", "estringEnd", "identEnd", "dash", "slash",
             "dollar", "tag", "value"}
Readings == Insides \union Outsides \union {"beyond"}

\* A token, or a gap, that begins with c.
Start(c) ==
  CASE c = Quote -> "string"
    [] c = "\"" -> "identifier"
    [] c = "-" -> "dash"
    [] c = "/" -> "slash"
    [] c = "$" -> "dollar"
    [] c = "?" -> "value"
    [] c = "E" -> "escape"
    [] c \in Word \ {"E"} -> "word"
    [] OTHER -> "gap"

\* c goes on with the token of which q is the reading so far.
Continues(q, c) ==
  \/ q \in {"word", "escape"} /\ c \in Word \union {"$"}
  \/ q = "escape" /\ c = Quote
  \/ q \in {"quoteEnd", "estringEnd"} /\ c = Quote
  \/ q = "identEnd" /\ c = "\""
  \/ q = "dash" /\ c = "-"
  \/ q = "slash" /\ c = "*"
  \/ q \in {"dollar", "tag"} /\ c \in Word \union {"$"}
  \/ q = "value" /\ c \in Digits

\* The token of which q is the reading, and c with it.
Longer(q, c) ==
  CASE q = "escape" -> IF c = Quote THEN "estring" ELSE "word"
    [] q = "quoteEnd" -> "string"
    [] q = "estringEnd" -> "estring"
    [] q = "identEnd" -> "identifier"
    [] q = "dash" -> "line"
    [] q = "slash" -> "open"
    [] q = "dollar" -> IF c = "$" THEN "beyond" ELSE IF c \in Letters THEN "tag" ELSE "word"
    [] q = "tag" -> IF c = "$" THEN "beyond" ELSE q
    [] q = "value" -> "beyond"
    [] OTHER -> "word"

Lex(q, c) ==
  CASE q = "string" -> IF c = Quote THEN "quoteEnd" ELSE q
    [] q = "estring" -> IF c = Quote THEN "estringEnd" ELSE IF c = "\\" THEN "backslash" ELSE q
    [] q = "backslash" -> IF c = Quote THEN "beyond" ELSE "estring"
    [] q = "identifier" -> IF c = "\"" THEN "identEnd" ELSE q
    [] q = "line" -> IF c = "\n" THEN "gap" ELSE q
    [] q = "open" -> IF c = "/" THEN "beyond" ELSE IF c = "*" THEN "star" ELSE "block"
    [] q = "star" -> IF c = "/" THEN "gap" ELSE IF c = "*" THEN "star" ELSE "block"
    [] q = "block" -> IF c = "/" THEN "inner" ELSE IF c = "*" THEN "star" ELSE "block"
    [] q = "inner" -> IF c = "*" THEN "beyond" ELSE IF c = "/" THEN "inner" ELSE "block"
    [] q = "beyond" -> q
    [] OTHER -> IF Continues(q, c) THEN Longer(q, c) ELSE Start(c)

\* The reading of s that begins with q.
ReadOn(q, s) ==
  LET read[k \in 0..Len(s)] == IF k = 0 THEN q ELSE Lex(read[k - 1], s[k])
  IN  read[Len(s)]
----------------------------------------------------------------------------
(* The literals.                                                           *)

Keyword == <<"x", "x">>            \* NULL, TRUE, DATE, BLOB ...
Quoted(s) == <<Quote>> \o s \o <<Quote>>
Cast(s) == s \o <<":", ":">> \o Keyword
Magnitude(n) == IF n < 0 THEN -n ELSE n
Numeral(n) ==
  LET numeral[m \in 0..n] ==
        IF m < 10 THEN <<DigitChars[m + 1]>>
        ELSE Append(numeral[m \div 10], DigitChars[(m % 10) + 1])
  IN  numeral[n]
Signed(n, s) == IF n < 0 THEN <<"-">> \o s ELSE s

\* strings.ReplaceAll(x, "'", "''")
Doubled(s) ==
  LET doubled[k \in 0..Len(s)] ==
        IF k = 0 THEN <<>>
        ELSE IF s[k] = Quote THEN Append(Append(doubled[k - 1], Quote), Quote)
        ELSE Append(doubled[k - 1], s[k])
  IN  doubled[Len(s)]

SlipPadding(n, scale) ==
  LET s == Numeral(Magnitude(n))
      point == Len(s) - scale
  IN  Signed(n, IF scale <= 0 \/ point < 0 THEN s
                ELSE SubSeq(s, 1, point) \o <<".">> \o SubSeq(s, point + 1, Len(s)))
DecimalLiteral(n, scale) ==
  LET s == Numeral(Magnitude(n))
      padded == IF Len(s) <= scale THEN [k \in 1..(scale + 1 - Len(s)) |-> "0"] \o s ELSE s
      point == Len(padded) - scale
  IN  Signed(n, IF scale <= 0 THEN s
                ELSE SubSeq(padded, 1, point) \o <<".">> \o SubSeq(padded, point + 1, Len(padded)))

\* scalarAt: the Go value of an Arrow value.  A dictionary column is asked again
\* with its dictionary, and both can say NULL.
Nil == [kind |-> "nil"]
PlainScalar(v) ==
  IF ~v.valid THEN Nil ELSE
  CASE v.type = "bool" -> [kind |-> "bool"]
    [] v.type = "integer" -> [kind |-> "int64", n |-> v.n]
    [] v.type = "float" -> [kind |-> "float64", n |-> v.n]
    [] v.type = "string" -> [kind |-> "string", s |-> v.s]
    [] v.type = "binary" -> [kind |-> "bytes", s |-> v.s]
    [] v.type = "decimal" -> [kind |-> "sqlKeyword", s |-> DecimalLiteral(v.n, v.scale)]
    [] v.type = "temporal" -> [kind |-> "sqlKeyword", s |-> Keyword \o <<" ">> \o Quoted(v.s)]
ScalarAt(v) == PlainScalar(Referent(v))

\* A byte is written as two hexadecimal digits; which ones makes no difference.
Hex == <<"\\", "x", "0", "0">>
RenderLiteral(x) ==
  CASE x.kind \in {"nil", "bool"} -> Keyword
    [] x.kind = "int64" -> Signed(x.n, Numeral(Magnitude(x.n)))
    [] x.kind = "float64" -> Cast(Signed(x.n, Numeral(Magnitude(x.n))))
    [] x.kind = "string" -> Quoted(Doubled(x.s))
    [] x.kind = "bytes" -> Cast(Quoted([k \in 1..(4 * Len(x.s)) |-> Hex[((k - 1) % 4) + 1]]))
    [] x.kind = "sqlKeyword" -> x.s
Literal(v) == RenderLiteral(ScalarAt(v))

----------------------------------------------------------------------------
(* The scan.                                                               *)

Init ==
  /\ \E s \in Statements : sql = s.sql /\ row = s.row
  /\ i = 1 /\ idx = 0 /\ mode = "top"
  /\ here = "gap" /\ there = "gap" /\ glued = FALSE
  /\ result = "none"

\* The loop is at character c, in mode m.
At(m, c) == result = "none" /\ i <= Len(sql) /\ mode = m /\ sql[i] = c
Ahead(c) == i < Len(sql) /\ sql[i + 1] = c

SlipCopy(n) ==  \* the / that ends a comment is read but not written
  /\ i' = i + n
  /\ here' = IF n = 1 THEN Lex(here, sql[i]) ELSE Lex(Lex(here, sql[i]), sql[i + 1])
  /\ there' = Lex(there, sql[i])
  /\ glued' = (glued \/ (here = "value" /\ Continues(there, sql[i])))
  /\ UNCHANGED <<sql, row, idx, result>>

\* b.WriteByte, for the next n characters, 1 or 2.
Copy(n) ==
  LET Read(q) == IF n = 1 THEN Lex(q, sql[i]) ELSE Lex(Lex(q, sql[i]), sql[i + 1]) IN
  /\ i' = i + n
  /\ here' = Read(here) /\ there' = Read(there)
  /\ glued' = (glued \/ (here = "value" /\ Continues(there, sql[i])))
  /\ UNCHANGED <<sql, row, idx, result>>

InLineComment == \E c \in Range(sql) :
  /\ At("lineComment", c) /\ Copy(1)
  /\ mode' = IF c = "\n" THEN "top" ELSE mode

InBlockComment == \E c \in Range(sql) :
  /\ At("blockComment", c)
  /\ IF c = "*" /\ Ahead("/") THEN Copy(2) /\ mode' = "top" ELSE Copy(1) /\ mode' = mode

InStr == \E c \in Range(sql) :
  /\ At("inStr", c) /\ Copy(1)
  /\ mode' = IF c = Quote THEN "top" ELSE mode

InIdent == \E c \in Range(sql) :
  /\ At("inIdent", c) /\ Copy(1)
  /\ mode' = IF c = "\"" THEN "top" ELSE mode

\* The cases of the switch at the top level that set one of the booleans.
SlipOpens ==
  IF sql[i] = Quote THEN "inStr"
  ELSE IF sql[i] = "-" /\ Ahead("-") THEN "lineComment"
  ELSE IF sql[i] = "/" /\ Ahead("*") THEN "blockComment"
  ELSE "top"
Opens ==
  IF sql[i] = Quote THEN "inStr"
  ELSE IF sql[i] = "\"" THEN "inIdent"
  ELSE IF sql[i] = "-" /\ Ahead("-") THEN "lineComment"
  ELSE IF sql[i] = "/" /\ Ahead("*") THEN "blockComment"
  ELSE "top"

Top == \E c \in Range(sql) \ {"?"} :
  /\ At("top", c) /\ Copy(1)
  /\ mode' = Opens

Marker ==
  /\ At("top", "?") /\ idx < Len(row)
  /\ LET literal == Literal(row[idx + 1]) IN
     /\ there' = ReadOn(there, literal)
     /\ glued' = (glued \/ Continues(there, literal[1]))
  /\ i' = i + 1 /\ idx' = idx + 1 /\ here' = Lex(here, "?")
  /\ UNCHANGED <<sql, row, mode, result>>

MoreMarkers ==
  /\ At("top", "?") /\ idx >= Len(row)
  /\ result' = "more"
  /\ UNCHANGED <<sql, row, i, idx, mode, here, there, glued>>

Finish ==
  /\ result = "none" /\ i > Len(sql)
  /\ result' = IF idx # Len(row) THEN "fewer" ELSE "ok"
  /\ UNCHANGED <<sql, row, i, idx, mode, here, there, glued>>

Next ==
  \/ InLineComment \/ InBlockComment \/ InStr \/ InIdent
  \/ Top \/ Marker \/ MoreMarkers \/ Finish

Spec == Init /\ [][Next]_vars
----------------------------------------------------------------------------
Modes == {"top", "inStr", "inIdent", "lineComment", "blockComment"}

\* The variables keep their types; the scan never runs past the end of the
\* statement, nor takes more values than are bound.
TypeOK ==
  /\ sql \in Seq(Chars)
  /\ i \in 1..(Len(sql) + 1) /\ idx \in 0..Len(row)
  /\ mode \in Modes /\ here \in Readings /\ there \in Readings
  /\ glued \in BOOLEAN
  /\ result \in {"none", "ok", "more", "fewer"}

\* "Question marks inside string literals, quoted identifiers, and comments are
\* left alone" (params.go:194-196), and every other one is replaced: a value is
\* taken exactly where DuckDB would see a marker, until it reads what the scanner
\* does not know.
OnlyMarkers == [][here' # "beyond" /\ i' # i => (idx' = idx + 1 <=> here' = "value")]_vars

\* A literal stays a token of its own and leaves the rest of the statement as it
\* was: DuckDB reads what is sent as it reads what was written, with a finished
\* value for each marker (renderLiteral, params.go:161-192).  Not so where a
\* literal touches its neighbours (glued): -? with a negative value becomes a
\* comment, 'a'? one string, LIMIT? and ?? one word.
ReadsTheSame ==
  here # "beyond" /\ ~glued => \/ there = here
                               \/ here = "value" /\ there \in {"word", "quoteEnd"}

\* At every moment of the scan what was sent reads as what was written.
ScanOK == TypeOK /\ ReadsTheSame

\* What a literal means to DuckDB: the text between its quotes, with '' for a
\* quote, and a number as its digits with how many of them follow the point.
Unquoted(s) ==
  LET read[k \in 0..Len(s)] ==
        IF k = 0 THEN [text |-> <<>>, quote |-> FALSE]
        ELSE IF s[k] = Quote /\ ~read[k - 1].quote THEN [read[k - 1] EXCEPT !.quote = TRUE]
        ELSE [text |-> Append(read[k - 1].text, s[k]), quote |-> FALSE]
  IN  read[Len(s)]
DigitOf(c) == (CHOOSE k \in 1..10 : DigitChars[k] = c) - 1
NumberFrom(n, s) ==
  LET number[k \in 0..Len(s)] ==
        IF k = 0 THEN n
        ELSE IF s[k] \in Digits THEN 10 * number[k - 1] + DigitOf(s[k]) ELSE number[k - 1]
  IN  number[Len(s)]
NumberOf(s) == IF s[1] = "-" THEN -NumberFrom(0, s) ELSE NumberFrom(0, s)
FractionOf(s) ==
  IF "." \in Range(s) THEN Len(s) - (CHOOSE k \in 1..Len(s) : s[k] = ".") ELSE 0
TenTo(n) == LET power[k \in 0..n] == IF k = 0 THEN 1 ELSE 10 * power[k - 1] IN power[n]
Positive(n) == IF n > 0 THEN n ELSE 0

Means(v, literal) ==
  IF ~v.valid THEN literal = Keyword ELSE
  CASE v.type = "string" ->
         Unquoted(SubSeq(literal, 2, Len(literal) - 1)) = [text |-> v.s, quote |-> FALSE]
    [] v.type = "integer" -> NumberOf(literal) = v.n /\ "." \notin Range(literal)
    [] v.type = "decimal" -> NumberOf(literal) * TenTo(Positive(v.scale))
                               = v.n * TenTo(Positive(-v.scale)) * TenTo(FractionOf(literal))
    [] OTHER -> TRUE

\* A literal means the value it was made from (scalarAt, decimalLiteral and
\* renderLiteral, params.go:68-192), and only decimals of a negative scale do not:
\* decimalLiteral writes their digits without the zeros (params.go:144).
ExactOrScaled ==
  \A k \in 1..idx : LET v == Referent(row[k]) IN
    Means(v, Literal(row[k])) <=> ~(v.valid /\ v.type = "decimal" /\ v.scale < 0 /\ v.n # 0)

============================================================================
