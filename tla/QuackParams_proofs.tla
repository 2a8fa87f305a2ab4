------------------------- MODULE QuackParams_proofs -------------------------
(***************************************************************************)
(* For statements of any length and any values bound: the scanner takes a  *)
(* value exactly where DuckDB reads a marker, what is sent is read as what *)
(* was written, and every literal means the value it was made from.        *)
(*                                                                         *)
(* The scanner looks one character ahead and DuckDB's reading one behind,  *)
(* so that the two are apart by one character where a comment opens and    *)
(* closes: Together says how far.  The literals are followed by induction  *)
(* on their length: each leaves DuckDB at the end of a word or of a        *)
(* string (ReadsAs), and is the text or the digits that Means asks for.    *)
(***************************************************************************)
EXTENDS QuackParams, Facts

\* The next character, if there is one, is c.
Next1(c) == i <= Len(sql) /\ sql[i] = c

ScanType ==
  /\ sql \in Seq(Chars)
  /\ i \in 1..(Len(sql) + 1)
  /\ idx \in Nat
  /\ mode \in Modes
  /\ here \in Readings

\* What DuckDB may have read so far in each mode of the scanner.
Reads ==
  CASE mode = "top" -> Outsides
    [] mode = "inStr" -> {"string", "estring", "backslash"}
    [] mode = "inIdent" -> {"identifier"}
    [] mode = "lineComment" -> {"dash", "line"}
    [] mode = "blockComment" -> {"slash", "open", "block", "star", "inner"}

Together ==
  here # "beyond" =>
    /\ here \in Reads
    /\ here = "dash" => (Next1("-") <=> mode = "lineComment")
    /\ here = "slash" => (Next1("*") <=> mode = "blockComment")
    /\ here = "star" => ~Next1("/")

ScanInv == ScanType /\ Together
----------------------------------------------------------------------------
(***************************************************************************)
(* What DuckDB reads at one character.                                     *)
(***************************************************************************)
LEMMA DigitsAre == Digits = {"0", "1", "2", "3", "4", "5", "6", "7", "8", "9"}
<1>1. \A k \in 1..10 : k \in {1, 2, 3, 4, 5, 6, 7, 8, 9, 10}
  OBVIOUS
<1>2. \A k \in 1..10 : DigitChars[k] \in {"0", "1", "2", "3", "4", "5", "6", "7", "8", "9"}
  BY <1>1 DEF DigitChars
<1>3. /\ DigitChars[1] = "0" /\ DigitChars[2] = "1" /\ DigitChars[3] = "2"
      /\ DigitChars[4] = "3" /\ DigitChars[5] = "4" /\ DigitChars[6] = "5"
      /\ DigitChars[7] = "6" /\ DigitChars[8] = "7" /\ DigitChars[9] = "8"
      /\ DigitChars[10] = "9"
  BY DEF DigitChars
<1> QED
  BY <1>2, <1>3 DEF Digits

Marks == {Quote, "\"", "-", "/", "*", "\n", "?", "\\", "$", ":", " "}

\* No mark is a character of a word.
LEMMA MarksApart == Marks \intersect Word = {}
BY DigitsAre DEF Marks, Word, Letters, Quote

LEMMA LexType == ASSUME NEW q \in Readings, NEW c PROVE Lex(q, c) \in Readings
<1>1. Start(c) \in Readings
  BY DEF Start, Readings, Insides, Outsides
<1>2. Longer(q, c) \in Readings
  BY DEF Longer, Readings, Insides, Outsides
<1>3. CASE q \in Insides \union {"beyond"}
  BY <1>3, ZenonT(40) DEF Lex, Readings, Insides, Outsides
<1>4. CASE q \in Outsides
  <2>1. Lex(q, c) = IF Continues(q, c) THEN Longer(q, c) ELSE Start(c)
    BY <1>4 DEF Lex, Outsides
  <2> QED
    BY <1>1, <1>2, <2>1
<1> QED
  BY <1>3, <1>4 DEF Readings

\* Outside strings, identifiers and comments, where no comment is about to open.
LEMMA LexOutside ==
  ASSUME NEW q \in Outsides, NEW c \in Chars,
         q = "dash" => c # "-", q = "slash" => c # "*"
  PROVE  /\ c = Quote => Lex(q, c) \in {"string", "estring"}
         /\ c = "\"" => Lex(q, c) = "identifier"
         /\ c \notin {Quote, "\""} => Lex(q, c) \in Outsides \union {"beyond"}
         /\ c = "?" <=> Lex(q, c) = "value"
         /\ c = "-" <=> Lex(q, c) = "dash"
         /\ c = "/" <=> Lex(q, c) = "slash"
<1>1. Continues(q, c) =>
        \/ c \in Word \union {"$"} /\ q \in {"word", "escape", "dollar", "tag", "value"}
        \/ c = Quote /\ q \in {"escape", "quoteEnd", "estringEnd"}
        \/ c = "\"" /\ q = "identEnd"
  BY DEF Continues, Word
<1>2. c \in Word \union {"$"} => c \notin {Quote, "\"", "-", "/", "?"}
  BY MarksApart DEF Marks, Quote
<1>3. CASE ~Continues(q, c)
  <2>1. Lex(q, c) = Start(c)
    BY <1>3 DEF Lex, Outsides
  <2> QED
    BY <2>1, <1>2 DEF Start, Outsides, Quote
<1>4. CASE Continues(q, c)
  <2>1. Lex(q, c) = Longer(q, c)
    BY <1>4 DEF Lex, Outsides
  <2>2. CASE c = Quote
    BY <1>1, <1>2, <1>4, <2>1, <2>2 DEF Longer, Outsides, Quote
  <2>3. CASE c = "\""
    BY <1>1, <1>2, <1>4, <2>1, <2>3 DEF Longer, Outsides, Quote
  <2>4. CASE c \notin {Quote, "\""}
    BY <1>1, <1>2, <1>4, <2>1, <2>4 DEF Longer, Outsides, Quote
  <2> QED
    BY <2>2, <2>3, <2>4
<1> QED
  BY <1>3, <1>4

\* Inside a string, an identifier, a comment, and beyond.
LEMMA LexString ==
  ASSUME NEW q \in {"string", "estring", "backslash"}, NEW c, Lex(q, c) # "beyond"
  PROVE  Lex(q, c) \in IF c = Quote THEN {"quoteEnd", "estringEnd"}
                                    ELSE {"string", "estring", "backslash"}
BY DEF Lex

LEMMA LexIdentifier ==
  ASSUME NEW c
  PROVE  Lex("identifier", c) = IF c = "\"" THEN "identEnd" ELSE "identifier"
BY DEF Lex

LEMMA LexLine ==
  ASSUME NEW q \in {"dash", "line"}, NEW c, q = "dash" => c = "-"
  PROVE  Lex(q, c) = IF c = "\n" THEN "gap" ELSE "line"
BY ZenonT(120) DEF Lex, Continues, Longer

Comment == {"slash", "open", "block", "star", "inner"}

LEMMA LexComment ==
  ASSUME NEW q \in Comment, NEW c, Lex(q, c) # "beyond",
         q = "slash" => c = "*", q = "star" => c # "/"
  PROVE  /\ Lex(q, c) \in Comment \ {"slash"}
         /\ Lex(q, c) = "star" => c = "*"
         /\ c = "*" => Lex(Lex(q, c), "/") \in {"gap", "beyond"}
BY ZenonT(120) DEF Lex, Continues, Longer, Comment

LEMMA LexBeyond == ASSUME NEW c PROVE Lex("beyond", c) = "beyond"
BY DEF Lex
----------------------------------------------------------------------------
(***************************************************************************)
(* The scan.                                                               *)
(***************************************************************************)
Here == sql[i]

\* The character the scan is at, for each action.
LEMMA CharHere ==
  ASSUME ScanType, i <= Len(sql)
  PROVE  Here \in Chars
BY DEF ScanType, Here

LEMMA CopyOne ==
  ASSUME ScanType, i <= Len(sql), Copy(1)
  PROVE  /\ here' = Lex(here, Here)
         /\ i' = i + 1 /\ i' \in 1..(Len(sql) + 1)
         /\ UNCHANGED <<sql, row, idx, result>>
BY DEF Copy, ScanType, Here

LEMMA CopyTwo ==
  ASSUME ScanType, i < Len(sql), Copy(2)
  PROVE  /\ here' = Lex(Lex(here, Here), sql[i + 1])
         /\ i' = i + 2 /\ i' \in 1..(Len(sql) + 1)
         /\ UNCHANGED <<sql, row, idx, result>>
BY DEF Copy, ScanType, Here

\* What every step that reads on does to the two readings, and whether it
\* takes a value.
Good ==
  /\ Together'
  /\ i' # i
  /\ here' # "beyond" => (idx' = idx + 1 <=> here' = "value")

\* What a step that copies leaves behind.
Copied ==
  /\ Good
  /\ here' \in Readings /\ i' \in 1..(Len(sql) + 1) /\ mode' \in Modes
  /\ UNCHANGED <<sql, idx>>

LEMMA TopGood == ASSUME ScanType, Together, Top PROVE Copied
<1>1. /\ i <= Len(sql) /\ mode = "top" /\ Here # "?"
      /\ Copy(1) /\ mode' = Opens
  BY DEF Top, At, Here
<1>2. /\ here' = Lex(here, Here)
      /\ i' = i + 1 /\ i' \in 1..(Len(sql) + 1)
      /\ UNCHANGED <<sql, row, idx, result>>
  BY <1>1, CopyOne
<1>3. Here \in Chars
  BY <1>1, CharHere
<1>4. mode' \in Modes
  BY <1>1 DEF Opens, Modes
<1>5. i \in Nat /\ idx \in Nat
  BY DEF ScanType
<1>6. CASE here = "beyond"
  BY <1>2, <1>4, <1>5, <1>6, LexBeyond DEF Good, Copied, Together, Readings
<1>7. CASE here # "beyond"
  <2>1. /\ here \in Outsides
        /\ here = "dash" => Here # "-"
        /\ here = "slash" => Here # "*"
    BY <1>1, <1>7 DEF Together, Reads, Next1, Here
  <2>2. /\ Here = Quote => Lex(here, Here) \in {"string", "estring"}
        /\ Here = "\"" => Lex(here, Here) = "identifier"
        /\ Here \notin {Quote, "\""} => Lex(here, Here) \in Outsides \union {"beyond"}
        /\ Here = "?" <=> Lex(here, Here) = "value"
        /\ Here = "-" <=> Lex(here, Here) = "dash"
        /\ Here = "/" <=> Lex(here, Here) = "slash"
    BY <1>3, <2>1, LexOutside
  <2>3. Ahead("-") <=> Next1("-")'
    BY <1>2, <1>5 DEF Ahead, Next1, ScanType
  <2>4. Ahead("*") <=> Next1("*")'
    BY <1>2, <1>5 DEF Ahead, Next1, ScanType
  <2>5. here' # "value" /\ here' \in Readings
    BY <1>1, <1>2, <2>2 DEF Readings, Insides, Outsides
  <2>6. Together'
    <3>1. CASE Here = Quote
      <4>1. mode' = "inStr" /\ here' \in {"string", "estring"}
        BY <1>1, <1>2, <2>2, <3>1 DEF Opens, Here
      <4> QED
        BY <4>1 DEF Together, Reads
    <3>2. CASE Here = "\""
      <4>1. mode' = "inIdent" /\ here' = "identifier"
        BY <1>1, <1>2, <2>2, <3>2 DEF Opens, Here, Quote
      <4> QED
        BY <4>1 DEF Together, Reads
    <3>3. CASE Here \notin {Quote, "\""} /\ here' # "beyond"
      <4>1. /\ here' \in Outsides
            /\ Here = "-" <=> here' = "dash"
            /\ Here = "/" <=> here' = "slash"
        BY <1>2, <2>2, <3>3
      <4>2. /\ mode' \in {"top", "lineComment", "blockComment"}
            /\ mode' = "lineComment" <=> Here = "-" /\ Next1("-")'
            /\ mode' = "blockComment" <=> Here = "/" /\ Next1("*")'
        BY <1>1, <2>3, <2>4, <3>3 DEF Opens, Here
      <4> QED
        BY <4>1, <4>2 DEF Together, Reads, Outsides
    <3> QED
      BY <3>1, <3>2, <3>3 DEF Together
  <2> QED
    BY <1>2, <1>4, <1>5, <2>5, <2>6 DEF Good, Copied
<1> QED
  BY <1>6, <1>7

LEMMA StrGood == ASSUME ScanType, Together, InStr PROVE Copied
<1>1. /\ i <= Len(sql) /\ mode = "inStr" /\ Copy(1)
      /\ mode' = IF Here = Quote THEN "top" ELSE mode
  BY DEF InStr, At, Here
<1>2. /\ here' = Lex(here, Here)
      /\ i' = i + 1 /\ i' \in 1..(Len(sql) + 1)
      /\ UNCHANGED <<sql, row, idx, result>>
  BY <1>1, CopyOne
<1>3. i \in Nat /\ idx \in Nat
  BY DEF ScanType
<1>4. here' = "beyond" \/ here' \in IF Here = Quote THEN {"quoteEnd", "estringEnd"}
                                                   ELSE {"string", "estring", "backslash"}
  <2>1. here = "beyond" \/ here \in {"string", "estring", "backslash"}
    BY <1>1 DEF Together, Reads
  <2> QED
    BY <1>2, <2>1, LexString, LexBeyond
<1>5. here' \in Readings /\ here' # "value" /\ mode' \in Modes
  BY <1>1, <1>4 DEF Readings, Insides, Outsides, Modes
<1>6. Together'
  BY <1>1, <1>4 DEF Together, Reads, Outsides
<1> QED
  BY <1>2, <1>3, <1>5, <1>6 DEF Good, Copied

LEMMA IdentGood == ASSUME ScanType, Together, InIdent PROVE Copied
<1>1. /\ i <= Len(sql) /\ mode = "inIdent" /\ Copy(1)
      /\ mode' = IF Here = "\"" THEN "top" ELSE mode
  BY DEF InIdent, At, Here
<1>2. /\ here' = Lex(here, Here)
      /\ i' = i + 1 /\ i' \in 1..(Len(sql) + 1)
      /\ UNCHANGED <<sql, row, idx, result>>
  BY <1>1, CopyOne
<1>3. i \in Nat /\ idx \in Nat
  BY DEF ScanType
<1>4. here' = "beyond" \/ here' = IF Here = "\"" THEN "identEnd" ELSE "identifier"
  <2>1. here = "beyond" \/ here = "identifier"
    BY <1>1 DEF Together, Reads
  <2> QED
    BY <1>2, <2>1, LexIdentifier, LexBeyond
<1>5. here' \in Readings /\ here' # "value" /\ mode' \in Modes
  BY <1>1, <1>4 DEF Readings, Insides, Outsides, Modes
<1>6. Together'
  BY <1>1, <1>4 DEF Together, Reads, Outsides
<1> QED
  BY <1>2, <1>3, <1>5, <1>6 DEF Good, Copied

LEMMA LineGood == ASSUME ScanType, Together, InLineComment PROVE Copied
<1>1. /\ i <= Len(sql) /\ mode = "lineComment" /\ Copy(1)
      /\ mode' = IF Here = "\n" THEN "top" ELSE mode
  BY DEF InLineComment, At, Here
<1>2. /\ here' = Lex(here, Here)
      /\ i' = i + 1 /\ i' \in 1..(Len(sql) + 1)
      /\ UNCHANGED <<sql, row, idx, result>>
  BY <1>1, CopyOne
<1>3. i \in Nat /\ idx \in Nat
  BY DEF ScanType
<1>4. here' = "beyond" \/ here' = IF Here = "\n" THEN "gap" ELSE "line"
  <2>1. here = "beyond" \/ (here \in {"dash", "line"} /\ (here = "dash" => Here = "-"))
    BY <1>1 DEF Together, Reads, Next1, Here
  <2> QED
    BY <1>2, <2>1, LexLine, LexBeyond
<1>5. here' \in Readings /\ here' # "value" /\ mode' \in Modes
  BY <1>1, <1>4 DEF Readings, Insides, Outsides, Modes
<1>6. Together'
  BY <1>1, <1>4 DEF Together, Reads, Outsides
<1> QED
  BY <1>2, <1>3, <1>5, <1>6 DEF Good, Copied

LEMMA BlockGood == ASSUME ScanType, Together, InBlockComment PROVE Copied
<1>1. /\ i <= Len(sql) /\ mode = "blockComment"
      /\ IF Here = "*" /\ Ahead("/") THEN Copy(2) /\ mode' = "top"
                                     ELSE Copy(1) /\ mode' = mode
  BY DEF InBlockComment, At, Here
<1>2. i \in Nat /\ idx \in Nat
  BY DEF ScanType
<1>3. here = "beyond" \/ /\ here \in Comment
                         /\ here = "slash" => Here = "*"
                         /\ here = "star" => Here # "/"
  BY <1>1 DEF Together, Reads, Next1, Here, Comment
<1>4. CASE Here = "*" /\ Ahead("/")
  <2>1. i < Len(sql) /\ sql[i + 1] = "/" /\ Copy(2) /\ mode' = "top"
    BY <1>1, <1>4 DEF Ahead
  <2>2. /\ here' = Lex(Lex(here, Here), "/")
        /\ i' = i + 2 /\ i' \in 1..(Len(sql) + 1)
        /\ UNCHANGED <<sql, row, idx, result>>
    BY <2>1, CopyTwo
  <2>3. here' \in {"gap", "beyond"}
    BY <1>3, <1>4, <2>2, LexComment, LexBeyond
  <2> QED
    BY <1>2, <2>1, <2>2, <2>3
    DEF Good, Copied, Together, Reads, Readings, Outsides, Modes
<1>5. CASE ~(Here = "*" /\ Ahead("/"))
  <2>1. Copy(1) /\ mode' = "blockComment"
    BY <1>1, <1>5
  <2>2. /\ here' = Lex(here, Here)
        /\ i' = i + 1 /\ i' \in 1..(Len(sql) + 1)
        /\ UNCHANGED <<sql, row, idx, result>>
    BY <1>1, <2>1, CopyOne
  <2>3. here' = "beyond" \/ /\ here' \in Comment \ {"slash"}
                            /\ here' = "star" => Here = "*"
    BY <1>3, <2>2, LexComment, LexBeyond
  <2>4. Here = "*" => ~Next1("/")'
    BY <1>2, <1>5, <2>2 DEF Ahead, Next1, ScanType
  <2>5. Together'
    BY <2>1, <2>3, <2>4 DEF Together, Reads, Comment
  <2>6. here' \in Readings /\ here' # "value" /\ mode' \in Modes
    BY <2>1, <2>3 DEF Comment, Readings, Insides, Modes
  <2> QED
    BY <1>2, <2>2, <2>5, <2>6 DEF Good, Copied
<1> QED
  BY <1>4, <1>5

\* A marker: the scanner takes a value, and DuckDB reads one.
LEMMA MarkerGood ==
  ASSUME ScanType, Together, Marker
  PROVE  /\ Good
         /\ here' \in Readings /\ i' \in 1..(Len(sql) + 1)
         /\ idx' \in Nat /\ UNCHANGED <<sql, mode>>
<1>1. /\ i <= Len(sql) /\ Here = "?" /\ mode = "top"
      /\ i' = i + 1 /\ idx' = idx + 1 /\ here' = Lex(here, "?")
      /\ UNCHANGED <<sql, mode>>
  BY DEF Marker, At, Here
<1>2. i' \in 1..(Len(sql) + 1) /\ i' # i /\ idx' \in Nat
  BY <1>1 DEF ScanType
<1>3. here' \in {"value", "beyond"}
  <2>1. CASE here = "beyond"
    BY <1>1, <2>1, LexBeyond
  <2>2. CASE here # "beyond"
    <3>1. here \in Outsides
      BY <1>1, <2>2 DEF Together, Reads
    <3>2. "?" \in Chars
      BY DEF Chars
    <3> QED
      BY <1>1, <3>1, <3>2, LexOutside
  <2> QED
    BY <2>1, <2>2
<1>4. Together' /\ here' \in Readings
  BY <1>1, <1>3 DEF Together, Reads, Outsides, Readings
<1>5. here' # "beyond" => (idx' = idx + 1 <=> here' = "value")
  BY <1>1, <1>3
<1> QED
  BY <1>1, <1>2, <1>4, <1>5 DEF Good
----------------------------------------------------------------------------
(***************************************************************************)
(* The theorem.                                                            *)
(***************************************************************************)
Reading == Top \/ Marker \/ InLineComment \/ InBlockComment \/ InStr \/ InIdent
Ending == MoreMarkers \/ Finish

LEMMA ReadingGood == ScanInv /\ Reading => ScanInv' /\ Good
<1> SUFFICES ASSUME ScanInv, Reading
             PROVE  ScanInv' /\ Good
  OBVIOUS
<1> USE DEF ScanInv
<1>1. CASE Top
  BY <1>1, TopGood DEF ScanType, Copied, Good
<1>2. CASE Marker
  BY <1>2, MarkerGood DEF ScanType, Good
<1>3. CASE InLineComment
  BY <1>3, LineGood DEF ScanType, Copied, Good
<1>4. CASE InBlockComment
  BY <1>4, BlockGood DEF ScanType, Copied, Good
<1>5. CASE InStr
  BY <1>5, StrGood DEF ScanType, Copied, Good
<1>6. CASE InIdent
  BY <1>6, IdentGood DEF ScanType, Copied, Good
<1> QED
  BY <1>1, <1>2, <1>3, <1>4, <1>5, <1>6 DEF Reading

LEMMA EndingSilent == Ending \/ UNCHANGED vars => UNCHANGED <<sql, i, idx, mode, here>>
BY DEF Ending, MoreMarkers, Finish, vars

LEMMA ScanStep == ScanInv /\ [Next]_vars => ScanInv'
<1> SUFFICES ASSUME ScanInv, [Next]_vars
             PROVE  ScanInv'
  OBVIOUS
<1>1. CASE Reading
  BY <1>1, ReadingGood
<1>2. CASE Ending \/ UNCHANGED vars
  BY <1>2, EndingSilent DEF ScanInv, ScanType, Together, Reads, Next1
<1> QED
  BY <1>1, <1>2 DEF Next, Reading, Ending

LEMMA ScanInit == Init => ScanInv
<1> SUFFICES ASSUME Init
             PROVE  ScanInv
  OBVIOUS
<1>1. sql \in Seq(Chars)
  BY StatementsAssumption DEF Init
<1> QED
  BY <1>1 DEF Init, ScanInv, ScanType, Together, Reads, Readings, Outsides, Modes

LEMMA AlwaysTogether == Spec => []ScanInv
BY ScanInit, ScanStep, PTL DEF Spec

\* Of every statement, however long: substituteParams takes a value exactly
\* where DuckDB reads a parameter marker, never inside a string, a quoted
\* identifier or a comment and never passing one by, until DuckDB has read
\* what the scanner does not know.
THEOREM MarkersOnly == Spec => OnlyMarkers
<1>1. ScanInv /\ [Next]_vars =>
        [here' # "beyond" /\ i' # i => (idx' = idx + 1 <=> here' = "value")]_vars
  <2> SUFFICES ASSUME ScanInv, Next, here' # "beyond", i' # i
               PROVE  idx' = idx + 1 <=> here' = "value"
    OBVIOUS
  <2>1. Reading
    BY EndingSilent DEF Next, Reading, Ending
  <2> QED
    BY <2>1, ReadingGood DEF Good
<1> QED
  BY <1>1, AlwaysTogether, PTL DEF Spec, OnlyMarkers
----------------------------------------------------------------------------
(***************************************************************************)
(* What DuckDB reads of a text, character by character: its reading of two *)
(* texts one after the other, and of texts that leave it where it is.      *)
(***************************************************************************)
\* What the function inside ReadOn is: the readings after 0, 1, 2, ... characters.
Read(q, s, read) ==
  /\ read \in [0..Len(s) -> Readings]
  /\ read[0] = q
  /\ \A k \in 1..Len(s) : read[k] = Lex(read[k - 1], s[k])

LEMMA ReadOnIs ==
  ASSUME NEW q \in Readings, NEW s \in Seq(Chars)
  PROVE  \E read : Read(q, s, read) /\ ReadOn(q, s) = read[Len(s)]
<1> DEFINE n == Len(s)
           Is(read) == read = [k \in 0..n |-> IF k = 0 THEN q ELSE Lex(read[k - 1], s[k])]
           step == [p \in (1..n) \X Readings |-> Lex(p[2], s[p[1]])]
           r == CHOOSE read : Is(read)
<1>1. n \in Nat
  OBVIOUS
<1>2. step \in [(1..n) \X Readings -> Readings]
  BY LexType
<1>3. PICK f : Steps(n, Readings, q, step, f)
  <2> HIDE DEF step, n, Is, r
  <2> QED
    BY <1>1, <1>2, Recursion
<1>4. \A k \in 1..n : f[k] = Lex(f[k - 1], s[k])
  <2> SUFFICES ASSUME NEW k \in 1..n PROVE f[k] = Lex(f[k - 1], s[k])
    OBVIOUS
  <2>1. f[k - 1] \in Readings
    BY <1>1, <1>3 DEF Steps
  <2>2. <<k, f[k - 1]>> \in (1..n) \X Readings
    BY <2>1
  <2>3. step[<<k, f[k - 1]>>] = Lex(f[k - 1], s[k])
    BY <2>2
  <2> QED
    BY <1>3, <2>3 DEF Steps
<1> HIDE DEF step
<1>5. Is(f)
  BY <1>3, <1>4 DEF Steps
<1>6. Is(r)
  BY <1>5, Zenon
<1>7. ReadOn(q, s) = r[n]
  BY DEF ReadOn
<1> HIDE DEF r
<1>8. /\ DOMAIN r = 0..n /\ r[0] = q
      /\ \A k \in 1..n : r[k] = Lex(r[k - 1], s[k])
  BY <1>1, <1>6
<1>9. 0..n \subseteq {k \in 0..n : r[k] \in Readings}
  <2> DEFINE S == {k \in 0..n : r[k] \in Readings}
  <2>1. 0 \in S
    BY <1>1, <1>8
  <2>2. ASSUME NEW k \in 1..n, k - 1 \in S PROVE k \in S
    <3>1. k \in 0..n /\ r[k - 1] \in Readings
      BY <2>2
    <3> QED
      BY <1>8, <3>1, LexType
  <2> HIDE DEF S
  <2>3. 0..n \subseteq S
    BY <1>1, <2>1, <2>2, Induction
  <2> QED
    BY <2>3 DEF S
<1>10. r = [k \in 0..n |-> r[k]]
  BY <1>6, <1>8
<1>11. r \in [0..n -> Readings]
  BY <1>9, <1>10
<1>12. Read(q, s, r)
  BY <1>8, <1>11 DEF Read
<1> QED
  BY <1>7, <1>12

\* To read s and then t is to read the two together.
LEMMA ReadConcat ==
  ASSUME NEW q \in Readings, NEW s \in Seq(Chars), NEW t \in Seq(Chars)
  PROVE  ReadOn(q, s \o t) = ReadOn(ReadOn(q, s), t)
<1> DEFINE u == s \o t
           m == Len(s)
           n == Len(t)
<1>1. /\ u \in Seq(Chars) /\ Len(u) = m + n /\ m \in Nat /\ n \in Nat
      /\ \A k \in 1..m : u[k] = s[k]
      /\ \A k \in 1..n : u[m + k] = t[k]
  OBVIOUS
<1> HIDE DEF u
<1>2. PICK rs : Read(q, s, rs) /\ ReadOn(q, s) = rs[m]
  BY ReadOnIs
<1>3. PICK p \in Readings : p = rs[m]
  BY <1>1, <1>2 DEF Read
<1>4. PICK rt : Read(p, t, rt) /\ ReadOn(p, t) = rt[n]
  BY ReadOnIs
<1>5. PICK ru : Read(q, u, ru) /\ ReadOn(q, u) = ru[m + n]
  BY <1>1, ReadOnIs, ZenonT(40)
<1> HIDE DEF m, n
<1>6. 0..m \subseteq {k \in 0..m : ru[k] = rs[k]}
  <2> DEFINE S == {k \in 0..m : ru[k] = rs[k]}
  <2>1. 0 \in S
    BY <1>1, <1>2, <1>5 DEF Read
  <2>2. ASSUME NEW k \in 1..m, k - 1 \in S PROVE k \in S
    <3>1. k \in 0..m /\ k \in 1..(m + n) /\ ru[k - 1] = rs[k - 1]
      BY <1>1, <2>2
    <3>2. ru[k] = Lex(ru[k - 1], u[k]) /\ rs[k] = Lex(rs[k - 1], s[k])
      BY <1>1, <1>2, <1>5, <3>1 DEF Read, m
    <3> QED
      BY <1>1, <3>1, <3>2
  <2> HIDE DEF S
  <2>3. 0..m \subseteq S
    BY <1>1, <2>1, <2>2, Induction
  <2> QED
    BY <2>3 DEF S
<1>7. ru[m] = p
  BY <1>1, <1>3, <1>6
<1>8. 0..n \subseteq {k \in 0..n : ru[m + k] = rt[k]}
  <2> DEFINE S == {k \in 0..n : ru[m + k] = rt[k]}
  <2>1. 0 \in S
    BY <1>1, <1>4, <1>7 DEF Read
  <2>2. ASSUME NEW k \in 1..n, k - 1 \in S PROVE k \in S
    <3>1. /\ k \in 0..n /\ m + k \in 1..(m + n) /\ (m + k) - 1 = m + (k - 1)
          /\ ru[m + (k - 1)] = rt[k - 1]
      BY <1>1, <2>2
    <3>2. ru[m + k] = Lex(ru[(m + k) - 1], u[m + k])
      BY <1>1, <1>5, <3>1 DEF Read
    <3>3. rt[k] = Lex(rt[k - 1], t[k])
      BY <1>4 DEF Read, n
    <3> QED
      BY <1>1, <3>1, <3>2, <3>3
  <2> HIDE DEF S
  <2>3. 0..n \subseteq S
    BY <1>1, <2>1, <2>2, Induction
  <2> QED
    BY <2>3 DEF S
<1>9. ru[m + n] = rt[n]
  BY <1>1, <1>8
<1> QED
  BY <1>2, <1>3, <1>4, <1>5, <1>9 DEF u

LEMMA ReadOne ==
  ASSUME NEW q \in Readings, NEW c \in Chars
  PROVE  ReadOn(q, <<c>>) = Lex(q, c)
<1>1. <<c>> \in Seq(Chars) /\ Len(<<c>>) = 1 /\ <<c>>[1] = c
  OBVIOUS
<1>2. PICK r : Read(q, <<c>>, r) /\ ReadOn(q, <<c>>) = r[1]
  BY <1>1, ReadOnIs
<1> QED
  BY <1>1, <1>2 DEF Read

\* Characters that leave a reading as it is.
LEMMA ReadStays ==
  ASSUME NEW q \in Readings, NEW C, C \subseteq Chars, NEW s \in Seq(C),
         \A c \in C : Lex(q, c) = q
  PROVE  ReadOn(q, s) = q
<1>1. s \in Seq(Chars) /\ Len(s) \in Nat /\ \A k \in 1..Len(s) : s[k] \in C
  OBVIOUS
<1>2. PICK r : Read(q, s, r) /\ ReadOn(q, s) = r[Len(s)]
  BY <1>1, ReadOnIs
<1> DEFINE n == Len(s)
           S == {k \in 0..n : r[k] = q}
<1>3. 0 \in S
  BY <1>1, <1>2 DEF Read
<1>4. ASSUME NEW k \in 1..n, k - 1 \in S PROVE k \in S
  <2>1. k \in 0..n /\ r[k - 1] = q
    BY <1>4
  <2>2. r[k] = Lex(r[k - 1], s[k])
    BY <1>2 DEF Read
  <2> QED
    BY <1>1, <2>1, <2>2
<1> HIDE DEF S
<1>5. 0..n \subseteq S
  BY <1>1, <1>3, <1>4, Induction
<1>6. n \in S
  BY <1>1, <1>5
<1> QED
  BY <1>2, <1>6 DEF S

LEMMA ReadAppend ==
  ASSUME NEW q \in Readings, NEW s \in Seq(Chars), NEW c \in Chars
  PROVE  ReadOn(q, Append(s, c)) = Lex(ReadOn(q, s), c)
<1>1. <<c>> \in Seq(Chars) /\ Append(s, c) = s \o <<c>>
  BY AppendIs
<1>2. ReadOn(q, s) \in Readings
  <2>1. Len(s) \in 0..Len(s)
    OBVIOUS
  <2> QED
    BY <2>1, ReadOnIs DEF Read
<1>3. ReadOn(q, s \o <<c>>) = ReadOn(ReadOn(q, s), <<c>>)
  BY <1>1, ReadConcat
<1>4. ReadOn(ReadOn(q, s), <<c>>) = Lex(ReadOn(q, s), c)
  BY <1>2, ReadOne
<1> QED
  BY <1>1, <1>3, <1>4, Zenon

LEMMA ReadOnType ==
  ASSUME NEW q \in Readings, NEW s \in Seq(Chars)
  PROVE  ReadOn(q, s) \in Readings
<1>1. Len(s) \in 0..Len(s)
  OBVIOUS
<1> QED
  BY <1>1, ReadOnIs DEF Read
----------------------------------------------------------------------------
(***************************************************************************)
(* Numerals: what the digits of a number say, with zeros before them too.  *)
(***************************************************************************)
LEMMA DigitsApart ==
  /\ Digits \subseteq Word /\ Word \subseteq Chars /\ Digits \subseteq Chars
  /\ "." \notin Digits /\ "-" \notin Digits /\ Quote \notin Digits
  /\ "." \in Word /\ "x" \in Word /\ "x" \notin Digits
  /\ {"-", ":", "0", "x", "\\", " ", "."} \subseteq Chars /\ Quote \in Chars
<1>1. Digits \subseteq Word /\ Word \subseteq Chars
  BY DEF Word, Chars
<1>2. "." \in Word /\ "x" \in Word /\ {"-", ":", "\\", " "} \subseteq Chars /\ Quote \in Chars
  BY DEF Word, Chars, Letters
<1>3. "0" \in Digits /\ "." \notin Digits /\ "-" \notin Digits /\ Quote \notin Digits /\ "x" \notin Digits
  BY DigitsAre DEF Quote
<1> QED
  BY <1>1, <1>2, <1>3

LEMMA DigitValue ==
  ASSUME NEW d \in 0..9
  PROVE  DigitChars[d + 1] \in Digits /\ DigitOf(DigitChars[d + 1]) = d
<1>1. d + 1 \in 1..10
  OBVIOUS
<1>2. \A j, k \in 1..10 : DigitChars[j] = DigitChars[k] => j = k
  <2>1. \A k \in 1..10 : k \in {1, 2, 3, 4, 5, 6, 7, 8, 9, 10}
    OBVIOUS
  <2> QED
    BY <2>1 DEF DigitChars
<1>3. PICK k \in 1..10 : k = d + 1
  BY <1>1
<1>4. (CHOOSE j \in 1..10 : DigitChars[j] = DigitChars[k]) = k
  BY <1>2
<1>5. DigitOf(DigitChars[d + 1]) = k - 1
  BY <1>3, <1>4 DEF DigitOf
<1> QED
  BY <1>1, <1>3, <1>5 DEF Digits

\* The numerals of 0, 1, 2, ... up to n.
Numerals(n, f) ==
  /\ DOMAIN f = 0..n
  /\ \A m \in 0..n : f[m] = IF m < 10 THEN <<DigitChars[m + 1]>>
                            ELSE Append(f[m \div 10], DigitChars[(m % 10) + 1])

LEMMA Tenth ==
  ASSUME NEW m \in Nat
  PROVE  /\ m \div 10 \in Nat /\ m % 10 \in 0..9
         /\ 10 * (m \div 10) + (m % 10) = m
         /\ m >= 10 => m \div 10 < m
OBVIOUS

LEMMA NumeralsExist ==
  ASSUME NEW n \in Nat
  PROVE  \E f : Numerals(n, f)
<1> DEFINE S == {j \in 0..n : \E f : Numerals(j, f)}
<1>1. 0 \in S
  <2> DEFINE f == [m \in 0..0 |-> <<DigitChars[m + 1]>>]
  <2>1. DOMAIN f = 0..0 /\ \A m \in 0..0 : m < 10 /\ f[m] = <<DigitChars[m + 1]>>
    OBVIOUS
  <2> HIDE DEF f
  <2>2. Numerals(0, f)
    BY <2>1 DEF Numerals
  <2> QED
    BY <2>2
<1>2. ASSUME NEW j \in 1..n, j - 1 \in S PROVE j \in S
  <2>1. PICK f : Numerals(j - 1, f)
    BY <1>2
  <2> DEFINE last == IF j < 10 THEN <<DigitChars[j + 1]>>
                     ELSE Append(f[j \div 10], DigitChars[(j % 10) + 1])
             g == [m \in 0..j |-> IF m = j THEN last ELSE f[m]]
  <2>2. DOMAIN g = 0..j /\ g[j] = last /\ \A m \in 0..(j - 1) : g[m] = f[m]
    OBVIOUS
  <2>3. \A m \in 0..j : m >= 10 => m \div 10 \in 0..(j - 1) /\ m \div 10 < m
    <3> SUFFICES ASSUME NEW m \in 0..j, m >= 10 PROVE m \div 10 \in 0..(j - 1) /\ m \div 10 < m
      OBVIOUS
    <3>1. m \in Nat
      OBVIOUS
    <3> QED
      BY <3>1, Tenth
  <2> HIDE DEF g
  <2>4. ASSUME NEW m \in 0..j
        PROVE  g[m] = IF m < 10 THEN <<DigitChars[m + 1]>>
                      ELSE Append(g[m \div 10], DigitChars[(m % 10) + 1])
    <3>1. m >= 10 => g[m \div 10] = f[m \div 10]
      BY <2>2, <2>3
    <3>2. m < 10 \/ m >= 10
      OBVIOUS
    <3>3. CASE m = j
      BY <2>2, <3>1, <3>2, <3>3
    <3>4. CASE m # j
      <4>1. m \in 0..(j - 1)
        BY <3>4
      <4>2. f[m] = IF m < 10 THEN <<DigitChars[m + 1]>>
                   ELSE Append(f[m \div 10], DigitChars[(m % 10) + 1])
        BY <2>1, <4>1 DEF Numerals
      <4> QED
        BY <2>2, <3>1, <3>2, <4>1, <4>2
    <3> QED
      BY <3>3, <3>4
  <2>5. Numerals(j, g)
    BY <2>2, <2>4 DEF Numerals
  <2> QED
    BY <2>5
<1> HIDE DEF S
<1>3. 0..n \subseteq S
  BY <1>1, <1>2, Induction
<1>4. n \in S
  BY <1>3
<1> QED
  BY <1>4 DEF S

LEMMA NumeralIs ==
  ASSUME NEW n \in Nat
  PROVE  \E f : Numerals(n, f) /\ Numeral(n) = f[n]
<1> DEFINE Is(f) == f = [m \in 0..n |-> IF m < 10 THEN <<DigitChars[m + 1]>>
                                        ELSE Append(f[m \div 10], DigitChars[(m % 10) + 1])]
           c == CHOOSE f : Is(f)
<1>1. PICK f : Numerals(n, f)
  BY NumeralsExist
<1> DEFINE g == [m \in 0..n |-> f[m]]
<1>2. ASSUME NEW m \in 0..n PROVE m >= 10 => m \div 10 \in 0..n
  <2>1. m \in Nat
    OBVIOUS
  <2> QED
    BY <2>1, Tenth
<1>3. Is(g)
  <2>1. \A m \in 0..n : g[m] = f[m]
    OBVIOUS
  <2>2. ASSUME NEW m \in 0..n
        PROVE  g[m] = IF m < 10 THEN <<DigitChars[m + 1]>>
                      ELSE Append(g[m \div 10], DigitChars[(m % 10) + 1])
    <3>1. m < 10 \/ m >= 10
      OBVIOUS
    <3>2. m >= 10 => g[m \div 10] = f[m \div 10]
      BY <1>2, <2>1
    <3> HIDE DEF g
    <3> QED
      BY <1>1, <2>1, <3>1, <3>2 DEF Numerals
  <2> QED
    BY <2>2
<1> HIDE DEF g
<1>4. Is(c)
  BY <1>3, Zenon
<1>5. Numeral(n) = c[n]
  BY DEF Numeral
<1> HIDE DEF c
<1>6. Numerals(n, c)
  BY <1>4 DEF Numerals
<1> QED
  BY <1>5, <1>6

LEMMA DigitOfType == ASSUME NEW c \in Digits PROVE DigitOf(c) \in 0..9
<1>1. PICK k \in 1..10 : DigitChars[k] = c
  BY DEF Digits
<1>2. k - 1 \in 0..9 /\ (k - 1) + 1 = k
  OBVIOUS
<1>3. DigitOf(DigitChars[(k - 1) + 1]) = k - 1
  BY <1>2, DigitValue
<1> QED
  BY <1>1, <1>2, <1>3

\* What the function inside NumberFrom is.
Numbering(m, s, f) ==
  /\ f \in [0..Len(s) -> Int]
  /\ f[0] = m
  /\ \A k \in 1..Len(s) :
       f[k] = IF s[k] \in Digits THEN 10 * f[k - 1] + DigitOf(s[k]) ELSE f[k - 1]

LEMMA NumberFromIs ==
  ASSUME NEW m \in Int, NEW s \in Seq(Chars)
  PROVE  \E d : Numbering(m, s, d) /\ NumberFrom(m, s) = d[Len(s)]
<1> DEFINE n == Len(s)
           S == Int
           D(k, t) == IF s[k] \in Digits THEN 10 * t + DigitOf(s[k]) ELSE t
           Is(d) == d = [k \in 0..n |-> IF k = 0 THEN m ELSE D(k, d[k - 1])]
           step == [p \in (1..n) \X S |-> D(p[1], p[2])]
           r == CHOOSE d : Is(d)
<1>1. n \in Nat /\ m \in S
  OBVIOUS
<1>2. ASSUME NEW k \in 1..n, NEW t \in S PROVE D(k, t) \in S
  <2>1. s[k] \in Digits => DigitOf(s[k]) \in Int
    BY DigitOfType
  <2> QED
    BY <2>1
<1>3. NumberFrom(m, s) = r[n]
  BY DEF NumberFrom
<1> HIDE DEF D, S
<1>4. step \in [(1..n) \X S -> S]
  BY <1>2
<1>5. ASSUME NEW k \in 1..n, NEW t \in S PROVE step[<<k, t>>] = D(k, t)
  OBVIOUS
<1> HIDE DEF step
<1>6. PICK f : Steps(n, S, m, step, f)
  <2> HIDE DEF n, Is, r
  <2> QED
    BY <1>1, <1>4, Recursion
<1>7. Is(f)
  <2>1. \A k \in 1..n : f[k - 1] \in S
    BY <1>1, <1>6 DEF Steps
  <2>2. \A k \in 1..n : f[k] = D(k, f[k - 1])
    BY <1>5, <1>6, <2>1 DEF Steps
  <2> QED
    BY <1>1, <1>6, <2>2 DEF Steps
<1>8. Is(r)
  BY <1>7, Zenon
<1> HIDE DEF r
<1>9. /\ r = [k \in 0..n |-> r[k]] /\ r[0] = m
      /\ \A k \in 1..n : r[k] = D(k, r[k - 1])
  BY <1>1, <1>8
<1>10. \A k \in 1..n : r[k - 1] \in S => r[k] = step[<<k, r[k - 1]>>]
  BY <1>5, <1>9
<1>11. Steps(n, S, m, step, r)
  <2> HIDE DEF n, Is
  <2> QED
    BY <1>1, <1>4, <1>9, <1>10, Unrolled
<1>12. Numbering(m, s, r)
  BY <1>9, <1>11 DEF Numbering, Steps, S, D
<1> QED
  BY <1>3, <1>12

LEMMA NumberFromType ==
  ASSUME NEW m \in Int, NEW s \in Seq(Chars)
  PROVE  NumberFrom(m, s) \in Int
<1>1. Len(s) \in 0..Len(s)
  OBVIOUS
<1> QED
  BY <1>1, NumberFromIs DEF Numbering

LEMMA NumberFromConcat ==
  ASSUME NEW m \in Int, NEW s \in Seq(Chars), NEW t \in Seq(Chars)
  PROVE  NumberFrom(m, s \o t) = NumberFrom(NumberFrom(m, s), t)
<1> DEFINE u == s \o t
           j == Len(s)
           n == Len(t)
<1>1. /\ u \in Seq(Chars) /\ Len(u) = j + n /\ j \in Nat /\ n \in Nat
      /\ \A k \in 1..j : k \in 1..(j + n) /\ u[k] = s[k]
      /\ \A k \in 1..n : u[j + k] = t[k]
  OBVIOUS
<1> HIDE DEF u
<1>2. PICK fs : Numbering(m, s, fs) /\ NumberFrom(m, s) = fs[j]
  BY NumberFromIs
<1>3. PICK p \in Int : p = fs[j] /\ p = NumberFrom(m, s)
  BY <1>1, <1>2, SMTT(30) DEF Numbering
<1>4. PICK ft : Numbering(p, t, ft) /\ NumberFrom(p, t) = ft[n]
  BY NumberFromIs
<1>5. PICK fu : Numbering(m, u, fu) /\ NumberFrom(m, u) = fu[j + n]
  BY <1>1, NumberFromIs, ZenonT(40)
<1>6. fu[j] = fs[j]
  <2>1. fu[0] = fs[0]
    BY <1>2, <1>5 DEF Numbering
  <2>2. ASSUME NEW k \in 1..j, fu[k - 1] = fs[k - 1] PROVE fu[k] = fs[k]
    BY <1>1, <1>2, <1>5, <2>2 DEF Numbering
  <2> HIDE DEF j
  <2> QED
    BY <1>1, <2>1, <2>2, Alike
<1> DEFINE g == [k \in 0..n |-> fu[j + k]]
<1>7. g[n] = ft[n]
  <2>1. g[0] = ft[0]
    BY <1>1, <1>3, <1>4, <1>6 DEF Numbering
  <2>2. ASSUME NEW k \in 1..n, g[k - 1] = ft[k - 1] PROVE g[k] = ft[k]
    <3>1. g[k] = fu[j + k] /\ fu[(j + k) - 1] = ft[k - 1] /\ j + k \in 1..(j + n)
      <4>1. k \in 0..n /\ k - 1 \in 0..n /\ j + (k - 1) = (j + k) - 1
        BY <1>1
      <4> QED
        BY <1>1, <2>2, <4>1
    <3> HIDE DEF g
    <3>2. fu[j + k] = IF u[j + k] \in Digits THEN 10 * fu[(j + k) - 1] + DigitOf(u[j + k])
                                             ELSE fu[(j + k) - 1]
      BY <1>1, <1>5, <3>1 DEF Numbering
    <3>3. ft[k] = IF t[k] \in Digits THEN 10 * ft[k - 1] + DigitOf(t[k]) ELSE ft[k - 1]
      BY <1>4 DEF Numbering
    <3> QED
      BY <1>1, <3>1, <3>2, <3>3, Zenon
  <2> HIDE DEF n, g
  <2> QED
    BY <1>1, <2>1, <2>2, Alike
<1>8. g[n] = fu[j + n]
  BY <1>1
<1> QED
  BY <1>3, <1>4, <1>5, <1>7, <1>8 DEF u

LEMMA NumberFromOne ==
  ASSUME NEW m \in Int, NEW c \in Chars
  PROVE  NumberFrom(m, <<c>>) = IF c \in Digits THEN 10 * m + DigitOf(c) ELSE m
<1>1. <<c>> \in Seq(Chars) /\ Len(<<c>>) = 1 /\ <<c>>[1] = c
  OBVIOUS
<1>2. PICK f : Numbering(m, <<c>>, f) /\ NumberFrom(m, <<c>>) = f[1]
  BY <1>1, NumberFromIs
<1> QED
  BY <1>1, <1>2 DEF Numbering

\* The numeral of n is digits, and they say n.
IsNumeral(s, n) ==
  s \in Seq(Digits) /\ s \in Seq(Chars) /\ Len(s) >= 1 /\ NumberFrom(0, s) = n

LEMMA NumeralOneDigit ==
  ASSUME NEW d \in 0..9
  PROVE  IsNumeral(<<DigitChars[d + 1]>>, d)
<1>1. DigitChars[d + 1] \in Digits /\ DigitOf(DigitChars[d + 1]) = d
  BY DigitValue
<1>2. PICK c \in Digits : c = DigitChars[d + 1] /\ DigitOf(c) = d
  BY <1>1
<1>3. c \in Chars
  BY DigitsApart
<1>4. NumberFrom(0, <<c>>) = d
  BY <1>2, <1>3, NumberFromOne
<1>5. <<c>> \in Seq(Digits) /\ <<c>> \in Seq(Chars) /\ Len(<<c>>) >= 1
  BY <1>3
<1> QED
  BY <1>2, <1>4, <1>5 DEF IsNumeral

LEMMA NumeralLonger ==
  ASSUME NEW m \in Nat, NEW s, IsNumeral(s, m), NEW d \in 0..9
  PROVE  IsNumeral(Append(s, DigitChars[d + 1]), 10 * m + d)
<1>1. DigitChars[d + 1] \in Digits /\ DigitOf(DigitChars[d + 1]) = d
  BY DigitValue
<1>2. PICK c \in Digits : c = DigitChars[d + 1] /\ DigitOf(c) = d
  BY <1>1
<1>3. c \in Chars /\ <<c>> \in Seq(Chars)
  <2>1. c \in Chars
    BY DigitsApart
  <2> QED
    BY <2>1
<1>4. s \in Seq(Digits) /\ s \in Seq(Chars) /\ Len(s) >= 1 /\ NumberFrom(0, s) = m
  BY DEF IsNumeral
<1>5. /\ Append(s, c) \in Seq(Digits) /\ Append(s, c) \in Seq(Chars)
      /\ Len(Append(s, c)) >= 1 /\ Append(s, c) = s \o <<c>>
  BY <1>3, <1>4, AppendIs
<1>6. NumberFrom(0, s \o <<c>>) = NumberFrom(m, <<c>>)
  <2>1. NumberFrom(0, s \o <<c>>) = NumberFrom(NumberFrom(0, s), <<c>>)
    <3>1. 0 \in Int /\ s \in Seq(Chars) /\ <<c>> \in Seq(Chars)
      BY <1>3, <1>4
    <3> QED
      BY <3>1, NumberFromConcat, Zenon
  <2> QED
    BY <1>4, <2>1
<1>7. NumberFrom(m, <<c>>) = 10 * m + d
  BY <1>2, <1>3, NumberFromOne
<1>8. NumberFrom(0, Append(s, c)) = 10 * m + d
  BY <1>5, <1>6, <1>7
<1> QED
  BY <1>2, <1>5, <1>8 DEF IsNumeral

LEMMA NumeralGood ==
  ASSUME NEW n \in Nat
  PROVE  IsNumeral(Numeral(n), n)
<1>1. PICK f : Numerals(n, f) /\ Numeral(n) = f[n]
  BY NumeralIs
<1> DEFINE S == {m \in 0..n : IsNumeral(f[m], m)}
<1>2. ASSUME NEW m \in 0..n, \A j \in 0..(m - 1) : j \in S PROVE m \in S
  <2>1. m \in Nat /\ (m < 10 \/ m >= 10)
    OBVIOUS
  <2>2. CASE m < 10
    <3>1. m \in 0..9 /\ f[m] = <<DigitChars[m + 1]>>
      BY <1>1, <2>2 DEF Numerals
    <3> QED
      BY <3>1, NumeralOneDigit
  <2>3. CASE m >= 10
    <3>1. PICK j \in 0..(m - 1), d \in 0..9 :
            j = m \div 10 /\ d = m % 10 /\ 10 * j + d = m
      <4>1. /\ m \div 10 \in Nat /\ m % 10 \in 0..9 /\ m \div 10 < m
            /\ 10 * (m \div 10) + (m % 10) = m
        BY <2>1, <2>3, Tenth
      <4> QED
        BY <2>1, <4>1
    <3>2. f[m] = Append(f[j], DigitChars[d + 1])
      <4>1. ~(m < 10)
        BY <2>1, <2>3
      <4>2. f[m] = Append(f[m \div 10], DigitChars[(m % 10) + 1])
        BY <1>1, <4>1 DEF Numerals
      <4> QED
        BY <3>1, <4>2, Zenon
    <3>3. j \in Nat /\ IsNumeral(f[j], j)
      BY <1>2
    <3>4. IsNumeral(Append(f[j], DigitChars[d + 1]), 10 * j + d)
      BY <3>3, NumeralLonger
    <3> QED
      BY <3>1, <3>2, <3>4
  <2> QED
    BY <2>1, <2>2, <2>3
<1> HIDE DEF S
<1>3. 0..n \subseteq S
  BY <1>2, StrongInduction
<1>4. n \in S
  BY <1>3
<1> QED
  BY <1>1, <1>4 DEF S

\* Zeros before it change nothing, and nor does a point within it.
LEMMA ZerosSay ==
  ASSUME NEW j \in Nat
  PROVE  IsNumeral([k \in 1..j |-> "0"], 0) \/ j = 0
<1> DEFINE z == [k \in 1..j |-> "0"]
<1>1. /\ z \in Seq(Digits) /\ z \in Seq(Chars) /\ Len(z) = j
      /\ \A k \in 1..j : z[k] = "0"
  <2>1. "0" \in Digits /\ "0" \in Chars
    BY DigitsAre, DigitsApart
  <2> QED
    BY <2>1
<1> HIDE DEF z
<1>2. "0" \in Digits /\ DigitOf("0") = 0
  <2>1. DigitChars[0 + 1] = "0" /\ 0 \in 0..9
    BY DEF DigitChars
  <2> QED
    BY <2>1, DigitValue
<1>3. PICK f : Numbering(0, z, f) /\ NumberFrom(0, z) = f[j]
  BY <1>1, NumberFromIs
<1> DEFINE g == [k \in 0..j |-> 0]
<1>4. f[j] = g[j]
  <2>1. f[0] = g[0]
    BY <1>3 DEF Numbering
  <2>2. ASSUME NEW k \in 1..j, f[k - 1] = g[k - 1] PROVE f[k] = g[k]
    <3>1. g[k] = 0 /\ g[k - 1] = 0
      OBVIOUS
    <3>2. f[k] = 10 * f[k - 1] + 0
      BY <1>1, <1>2, <1>3 DEF Numbering
    <3> QED
      BY <2>2, <3>1, <3>2
  <2> HIDE DEF g
  <2> QED
    BY <2>1, <2>2, Alike
<1> QED
  BY <1>1, <1>3, <1>4 DEF z, IsNumeral

LEMMA Padded ==
  ASSUME NEW n \in Nat, NEW s, IsNumeral(s, n), NEW j \in Nat
  PROVE  /\ IsNumeral([k \in 1..j |-> "0"] \o s, n)
         /\ Len([k \in 1..j |-> "0"] \o s) = j + Len(s)
<1> DEFINE z == [k \in 1..j |-> "0"]
<1>1. z \in Seq(Digits) /\ z \in Seq(Chars) /\ Len(z) = j
  <2>1. "0" \in Digits /\ "0" \in Chars
    BY DigitsAre, DigitsApart
  <2> QED
    BY <2>1
<1>2. j = 0 => z = <<>>
  OBVIOUS
<1>3. j # 0 => NumberFrom(0, z) = 0
  BY ZerosSay DEF IsNumeral
<1>4. NumberFrom(0, <<>>) = 0
  <2>1. PICK e \in Seq(Chars) : e = <<>> /\ Len(e) = 0
    <3>1. <<>> \in Seq(Chars) /\ Len(<<>>) = 0
      OBVIOUS
    <3> QED
      BY <3>1, Zenon
  <2>2. PICK f : Numbering(0, e, f) /\ NumberFrom(0, e) = f[Len(e)]
    BY NumberFromIs
  <2> QED
    BY <2>1, <2>2 DEF Numbering
<1>5. NumberFrom(0, z) = 0
  BY <1>2, <1>3, <1>4
<1> HIDE DEF z
<1>6. s \in Seq(Digits) /\ s \in Seq(Chars) /\ Len(s) >= 1 /\ NumberFrom(0, s) = n
  BY DEF IsNumeral
<1>7. NumberFrom(0, z \o s) = NumberFrom(NumberFrom(0, z), s)
  BY <1>1, <1>6, NumberFromConcat
<1>8. NumberFrom(0, z \o s) = n
  BY <1>5, <1>6, <1>7
<1>9. /\ z \o s \in Seq(Digits) /\ z \o s \in Seq(Chars) /\ Len(z \o s) = j + Len(s)
      /\ j + Len(s) >= 1
  BY <1>1, <1>6
<1> QED
  BY <1>8, <1>9 DEF z, IsNumeral
----------------------------------------------------------------------------
(***************************************************************************)
(* Signs, points and powers of ten.                                        *)
(***************************************************************************)
\* Digits, with a point among them or not.
IsNumber(s) == s \in Seq(Digits \union {"."}) /\ Len(s) >= 1 /\ s[1] \in Digits

\* A number of m, with so many of its digits behind the point.
Says(s, m, places) ==
  /\ IsNumber(s) /\ s \in Seq(Chars) /\ NumberFrom(0, s) = m
  /\ places > 0 <=> \E k \in 1..Len(s) : s[k] = "."
  /\ \A k \in 1..Len(s) : s[k] = "." => Len(s) - k = places

LEMMA NumeralSays ==
  ASSUME NEW m \in Nat, NEW s, IsNumeral(s, m)
  PROVE  Says(s, m, 0)
<1>1. s \in Seq(Digits) /\ s \in Seq(Chars) /\ Len(s) >= 1 /\ NumberFrom(0, s) = m
  BY DEF IsNumeral
<1>2. "." \notin Digits
  BY DigitsApart
<1>3. \A k \in 1..Len(s) : s[k] \in Digits
  BY <1>1
<1>4. s \in Seq(Digits \union {"."}) /\ 1 \in 1..Len(s)
  BY <1>1
<1> QED
  BY <1>1, <1>2, <1>3, <1>4 DEF Says, IsNumber

LEMMA PointSays ==
  ASSUME NEW m \in Nat, NEW t, IsNumeral(t, m), NEW places \in Nat \ {0}, places < Len(t)
  PROVE  Says(SubSeq(t, 1, Len(t) - places) \o <<".">>
                \o SubSeq(t, Len(t) - places + 1, Len(t)), m, places)
<1> DEFINE p == Len(t) - places
           u == SubSeq(t, 1, p)
           w == SubSeq(t, p + 1, Len(t))
<1>1. t \in Seq(Digits) /\ t \in Seq(Chars) /\ Len(t) >= 1 /\ NumberFrom(0, t) = m
  BY DEF IsNumeral
<1>2. p \in 1..Len(t) /\ p \in 0..Len(t) /\ Len(t) \in Nat /\ Len(t) - p = places
  BY <1>1
<1>3. /\ u \in Seq(Digits) /\ w \in Seq(Digits) /\ Len(u) = p /\ Len(w) = places
      /\ u \in Seq(Chars) /\ w \in Seq(Chars) /\ u \o w = t
  <2> HIDE DEF p
  <2> QED
    BY <1>1, <1>2, Joined
<1> HIDE DEF u, w, p
<1>4. PICK dot \in Seq({"."}) : dot = <<".">>
  <2>1. <<".">> \in Seq({"."})
    OBVIOUS
  <2> QED
    BY <2>1, Zenon
<1>5. dot \in Seq(Chars) /\ Len(dot) = 1 /\ dot[1] = "."
  <2>1. "." \in Chars
    BY DigitsApart
  <2>2. <<".">> \in Seq(Chars) /\ Len(<<".">>) = 1 /\ <<".">>[1] = "."
    BY <2>1
  <2> QED
    BY <1>4, <2>2, Zenon
<1> DEFINE b == (u \o dot) \o w
<1>6. /\ b \in Seq(Chars) /\ Len(b) = p + 1 + places /\ b[p + 1] = "."
      /\ \A k \in 1..p : b[k] = u[k]
      /\ \A k \in (p + 2)..(p + 1 + places) : b[k] = w[k - (p + 1)]
  <2>1. /\ u \o dot \in Seq(Chars) /\ Len(u \o dot) = p + 1 /\ (u \o dot)[p + 1] = "."
        /\ \A k \in 1..p : (u \o dot)[k] = u[k]
    <3>1. /\ u \o dot \in Seq(Chars) /\ Len(u \o dot) = Len(u) + Len(dot)
          /\ \A k \in 1..Len(u) : (u \o dot)[k] = u[k]
          /\ \A k \in (Len(u) + 1)..(Len(u) + Len(dot)) : (u \o dot)[k] = dot[k - Len(u)]
      BY <1>3, <1>5, ConcatIs, ZenonT(40)
    <3>2. p + 1 \in (p + 1)..(p + 1) /\ (p + 1) - p = 1
      BY <1>2
    <3>3. (u \o dot)[p + 1] = dot[(p + 1) - p]
      BY <1>3, <1>5, <3>1, <3>2, Zenon
    <3> QED
      BY <1>3, <1>5, <3>1, <3>2, <3>3, Zenon
  <2>2. /\ b \in Seq(Chars) /\ Len(b) = p + 1 + places
        /\ \A k \in 1..(p + 1) : b[k] = (u \o dot)[k]
        /\ \A k \in (p + 1 + 1)..(p + 1 + places) : b[k] = w[k - (p + 1)]
    <3>1. PICK v \in Seq(Chars) : v = u \o dot /\ Len(v) = p + 1
      BY <2>1, Zenon
    <3>2. /\ v \o w \in Seq(Chars) /\ Len(v \o w) = Len(v) + Len(w)
          /\ \A k \in 1..Len(v) : (v \o w)[k] = v[k]
          /\ \A k \in (Len(v) + 1)..(Len(v) + Len(w)) : (v \o w)[k] = w[k - Len(v)]
      BY <1>3, ConcatIs, ZenonT(40)
    <3> QED
      BY <1>3, <3>1, <3>2, Zenon
  <2>3. /\ p + 1 \in 1..(p + 1) /\ p + 1 + 1 = p + 2
        /\ \A k \in 1..p : k \in 1..(p + 1)
    BY <1>2
  <2> HIDE DEF b
  <2> QED
    BY <2>1, <2>2, <2>3, Zenon
<1>7. b \in Seq(Digits \union {"."})
  <2>1. /\ u \in Seq(Digits \union {"."}) /\ w \in Seq(Digits \union {"."})
        /\ dot \in Seq(Digits \union {"."})
    BY <1>3, <1>4
  <2> QED
    BY <2>1
<1>8. NumberFrom(0, b) = m
  <2>1. NumberFrom(0, b) = NumberFrom(NumberFrom(0, u \o dot), w)
    <3>1. 0 \in Int /\ u \o dot \in Seq(Chars)
      BY <1>3, <1>5, ConcatIs
    <3> QED
      BY <1>3, <3>1, NumberFromConcat, Zenon
  <2>2. NumberFrom(0, u \o dot) = NumberFrom(NumberFrom(0, u), dot)
    BY <1>3, <1>5, NumberFromConcat
  <2>3. NumberFrom(0, u) \in Int
    BY <1>3, NumberFromType
  <2>4. PICK n \in Int : n = NumberFrom(0, u)
    BY <2>3
  <2>5. NumberFrom(n, dot) = n
    <3>1. "." \in Chars /\ "." \notin Digits
      BY DigitsApart
    <3> QED
      BY <1>4, <3>1, NumberFromOne
  <2>6. NumberFrom(0, u \o w) = NumberFrom(n, w)
    <3>1. 0 \in Int
      OBVIOUS
    <3> QED
      BY <1>3, <2>4, <3>1, NumberFromConcat, Zenon
  <2> HIDE DEF b
  <2> QED
    BY <1>1, <1>3, <2>1, <2>2, <2>4, <2>5, <2>6, Zenon
<1> HIDE DEF b
<1>9. \A k \in 1..Len(b) : k # p + 1 => b[k] \in Digits
  <2> SUFFICES ASSUME NEW k \in 1..Len(b), k # p + 1 PROVE b[k] \in Digits
    OBVIOUS
  <2>1. CASE k <= p
    <3>1. k \in 1..p /\ u[k] \in Digits
      BY <1>2, <1>3, <2>1
    <3> QED
      BY <1>6, <3>1
  <2>2. CASE k > p
    <3>1. k \in (p + 2)..(p + 1 + places) /\ k - (p + 1) \in 1..places
      BY <1>2, <1>6, <2>2
    <3>2. w[k - (p + 1)] \in Digits
      BY <1>3, <3>1
    <3> QED
      BY <1>6, <3>1, <3>2
  <2> QED
    BY <1>2, <2>1, <2>2
<1>10. Len(b) - (p + 1) = places /\ p + 1 \in 1..Len(b) /\ 1 \in 1..Len(b) /\ 1 # p + 1
  BY <1>2, <1>6
<1>11. IsNumber(b)
  BY <1>7, <1>9, <1>10 DEF IsNumber
<1>12. \A k \in 1..Len(b) : b[k] = "." => Len(b) - k = places
  BY <1>9, <1>10, DigitsApart
<1>13. \E k \in 1..Len(b) : b[k] = "."
  BY <1>6, <1>10
<1>14. Says(b, m, places)
  BY <1>6, <1>8, <1>11, <1>12, <1>13 DEF Says
<1> QED
  <2>1. b = u \o <<".">> \o w
    BY <1>4 DEF b
  <2> QED
    BY <1>14, <2>1 DEF u, w, p

LEMMA MagnitudeType ==
  ASSUME NEW n \in Int
  PROVE  /\ Magnitude(n) \in Nat
         /\ IsNumeral(Numeral(Magnitude(n)), Magnitude(n))
<1>1. Magnitude(n) \in Nat
  BY DEF Magnitude
<1> QED
  BY <1>1, NumeralGood

LEMMA DecimalSays ==
  ASSUME NEW n \in Int, NEW scale \in Int
  PROVE  \E s : /\ DecimalLiteral(n, scale) = Signed(n, s)
                /\ Says(s, Magnitude(n), Positive(scale))
<1> DEFINE m == Magnitude(n)
           s == Numeral(m)
           zeros == [k \in 1..(scale + 1 - Len(s)) |-> "0"]
           padded == IF Len(s) <= scale THEN zeros \o s ELSE s
           point == Len(padded) - scale
           pointed == SubSeq(padded, 1, point) \o <<".">> \o SubSeq(padded, point + 1, Len(padded))
<1>1. DecimalLiteral(n, scale) = Signed(n, IF scale <= 0 THEN s ELSE pointed)
  BY DEF DecimalLiteral
<1>2. m \in Nat /\ IsNumeral(s, m)
  BY MagnitudeType
<1>3. Len(s) \in Nat /\ Len(s) >= 1
  BY <1>2 DEF IsNumeral
<1> HIDE DEF s, m
<1>4. CASE scale <= 0
  <2>1. Says(s, m, 0) /\ Positive(scale) = 0
    BY <1>2, <1>4, NumeralSays DEF Positive
  <2> QED
    BY <1>1, <1>4, <2>1 DEF m
<1>5. CASE scale > 0
  <2>1. scale \in Nat \ {0} /\ Positive(scale) = scale /\ ~(scale <= 0)
    BY <1>5 DEF Positive
  <2>2. IsNumeral(padded, m) /\ scale < Len(padded)
    <3>1. CASE Len(s) <= scale
      <4>1. PICK j \in Nat : j = scale + 1 - Len(s)
        BY <1>3, <2>1, <3>1
      <4>2. /\ IsNumeral([k \in 1..j |-> "0"] \o s, m)
            /\ Len([k \in 1..j |-> "0"] \o s) = j + Len(s)
        BY <1>2, Padded
      <4>3. padded = [k \in 1..j |-> "0"] \o s
        BY <3>1, <4>1
      <4> HIDE DEF padded
      <4>4. scale < j + Len(s)
        BY <1>3, <4>1
      <4> QED
        BY <4>2, <4>3, <4>4
    <3>2. CASE ~(Len(s) <= scale)
      BY <1>2, <1>3, <3>2
    <3> QED
      BY <3>1, <3>2
  <2> HIDE DEF padded
  <2>3. Says(pointed, m, scale)
    BY <1>2, <2>1, <2>2, PointSays
  <2> HIDE DEF pointed
  <2> QED
    BY <1>1, <2>1, <2>3 DEF m
<1> QED
  BY <1>4, <1>5

\* Where the point stands in s, if there is one.
Point(s, places) ==
  /\ places > 0 <=> \E k \in 1..Len(s) : s[k] = "."
  /\ \A k \in 1..Len(s) : s[k] = "." => Len(s) - k = places

LEMMA FractionIs ==
  ASSUME NEW s \in Seq(Chars), NEW places \in Nat, Point(s, places)
  PROVE  FractionOf(s) = places /\ ("." \in Range(s) <=> places > 0)
<1>1. "." \in Range(s) <=> \E k \in 1..Len(s) : s[k] = "."
  BY DEF Range
<1>2. CASE \E k \in 1..Len(s) : s[k] = "."
  <2>1. PICK k \in 1..Len(s) : k = (CHOOSE j \in 1..Len(s) : s[j] = ".") /\ s[k] = "."
    BY <1>2, Zenon
  <2>2. FractionOf(s) = Len(s) - k
    BY <1>1, <1>2, <2>1 DEF FractionOf
  <2> QED
    BY <1>1, <1>2, <2>1, <2>2 DEF Point
<1>3. CASE ~\E k \in 1..Len(s) : s[k] = "."
  <2>1. FractionOf(s) = 0
    BY <1>1, <1>3 DEF FractionOf
  <2>2. ~(places > 0)
    BY <1>3 DEF Point
  <2>3. places = 0
    BY <2>2
  <2> QED
    BY <1>1, <1>3, <2>1, <2>2, <2>3
<1> QED
  BY <1>2, <1>3

LEMMA SignedSays ==
  ASSUME NEW n \in Int, NEW places \in Nat, NEW s, Says(s, Magnitude(n), places)
  PROVE  /\ NumberOf(Signed(n, s)) = n
         /\ FractionOf(Signed(n, s)) = places
         /\ "." \in Range(Signed(n, s)) <=> places > 0
<1>1. /\ s \in Seq(Chars) /\ Len(s) >= 1 /\ s[1] \in Digits /\ Point(s, places)
      /\ NumberFrom(0, s) = Magnitude(n) /\ Len(s) \in Nat
  BY DEF Says, IsNumber, Point
<1>2. CASE n >= 0
  <2>1. Signed(n, s) = s /\ Magnitude(n) = n
    BY <1>2 DEF Signed, Magnitude
  <2>2. s[1] # "-"
    BY <1>1, DigitsApart
  <2>3. NumberOf(s) = n
    BY <1>1, <2>1, <2>2 DEF NumberOf
  <2> QED
    BY <1>1, <2>1, <2>3, FractionIs
<1>3. CASE n < 0
  <2>1. PICK minus \in Seq(Chars) : minus = <<"-">> /\ Len(minus) = 1 /\ minus[1] = "-"
    <3>1. "-" \in Chars
      BY DigitsApart
    <3>2. <<"-">> \in Seq(Chars) /\ Len(<<"-">>) = 1 /\ <<"-">>[1] = "-"
      BY <3>1
    <3> QED
      BY <3>2, Zenon
  <2>2. PICK t : t = minus \o s
    OBVIOUS
  <2>3. /\ t \in Seq(Chars) /\ Len(t) = 1 + Len(s)
        /\ \A k \in 1..1 : t[k] = minus[k]
        /\ \A k \in (1 + 1)..(1 + Len(s)) : t[k] = s[k - 1]
    <3>1. /\ minus \o s \in Seq(Chars) /\ Len(minus \o s) = Len(minus) + Len(s)
          /\ \A k \in 1..Len(minus) : (minus \o s)[k] = minus[k]
          /\ \A k \in (Len(minus) + 1)..(Len(minus) + Len(s)) : (minus \o s)[k] = s[k - Len(minus)]
      BY <1>1, ConcatIs
    <3> QED
      BY <2>1, <2>2, <3>1, Zenon
  <2>4. t[1] = "-" /\ Len(t) = Len(s) + 1 /\ \A k \in 2..(Len(s) + 1) : t[k] = s[k - 1]
    BY <1>1, <2>1, <2>3
  <2>5. NumberFrom(0, t) = Magnitude(n)
    <3>1. NumberFrom(0, minus \o s) = NumberFrom(NumberFrom(0, minus), s)
      BY <1>1, NumberFromConcat
    <3>2. NumberFrom(0, minus) = 0
      <4>1. "-" \in Chars /\ "-" \notin Digits
        BY DigitsApart
      <4> QED
        BY <2>1, <4>1, NumberFromOne
    <3> QED
      BY <1>1, <2>2, <3>1, <3>2
  <2>6. NumberOf(t) = n
    BY <1>3, <2>4, <2>5 DEF NumberOf, Magnitude
  <2>7. Point(t, places)
    <3>1. \A k \in 1..Len(t) : t[k] = "." => k - 1 \in 1..Len(s) /\ s[k - 1] = "."
      <4> SUFFICES ASSUME NEW k \in 1..Len(t), t[k] = "."
                   PROVE  k - 1 \in 1..Len(s) /\ s[k - 1] = "."
        OBVIOUS
      <4>1. k # 1
        BY <2>4
      <4>2. k \in 2..(Len(s) + 1)
        BY <1>1, <2>4, <4>1
      <4>3. k - 1 \in 1..Len(s)
        BY <1>1, <4>2
      <4> QED
        BY <2>4, <4>2, <4>3
    <3>2. \A k \in 1..Len(s) : s[k] = "." => k + 1 \in 1..Len(t) /\ t[k + 1] = "."
      <4> SUFFICES ASSUME NEW k \in 1..Len(s), s[k] = "."
                   PROVE  k + 1 \in 1..Len(t) /\ t[k + 1] = "."
        OBVIOUS
      <4>1. k + 1 \in 2..(Len(s) + 1) /\ (k + 1) - 1 = k /\ k + 1 \in 1..Len(t)
        BY <1>1, <2>4
      <4>2. t[k + 1] = s[(k + 1) - 1]
        BY <2>4, <4>1
      <4> QED
        BY <4>1, <4>2
    <3>3. ASSUME NEW k \in 1..Len(t), t[k] = "." PROVE Len(t) - k = places
      <4>1. Len(s) - (k - 1) = places
        BY <1>1, <3>1, <3>3 DEF Point
      <4> QED
        BY <1>1, <2>4, <4>1
    <3> QED
      BY <1>1, <3>1, <3>2, <3>3 DEF Point
  <2>8. Signed(n, s) = t
    BY <1>3, <2>1, <2>2 DEF Signed
  <2> QED
    BY <2>3, <2>6, <2>7, <2>8, FractionIs
<1> QED
  BY <1>2, <1>3

\* What the function inside TenTo is.
Powers(n, f) ==
  /\ f \in [0..n -> Nat \ {0}]
  /\ f[0] = 1
  /\ \A k \in 1..n : f[k] = 10 * f[k - 1]

LEMMA TenToIs ==
  ASSUME NEW n \in Nat
  PROVE  \E f : Powers(n, f) /\ TenTo(n) = f[n]
<1> DEFINE S == Nat \ {0}
           D(k, t) == 10 * t
           Is(f) == f = [k \in 0..n |-> IF k = 0 THEN 1 ELSE D(k, f[k - 1])]
           step == [p \in (1..n) \X S |-> D(p[1], p[2])]
           r == CHOOSE f : Is(f)
<1>1. 1 \in S
  OBVIOUS
<1>2. ASSUME NEW k \in 1..n, NEW t \in S PROVE D(k, t) \in S
  OBVIOUS
<1>3. TenTo(n) = r[n]
  BY DEF TenTo
<1> HIDE DEF D, S
<1>4. step \in [(1..n) \X S -> S]
  BY <1>2
<1>5. ASSUME NEW k \in 1..n, NEW t \in S PROVE step[<<k, t>>] = D(k, t)
  OBVIOUS
<1> HIDE DEF step
<1>6. PICK f : Steps(n, S, 1, step, f)
  <2> HIDE DEF Is, r
  <2> QED
    BY <1>1, <1>4, Recursion
<1>7. Is(f)
  <2>1. \A k \in 1..n : f[k - 1] \in S
    BY <1>1, <1>6 DEF Steps
  <2>2. \A k \in 1..n : f[k] = D(k, f[k - 1])
    BY <1>5, <1>6, <2>1 DEF Steps
  <2> QED
    BY <1>1, <1>6, <2>2 DEF Steps
<1>8. Is(r)
  BY <1>7, Zenon
<1> HIDE DEF r
<1>9. /\ r = [k \in 0..n |-> r[k]] /\ r[0] = 1
      /\ \A k \in 1..n : r[k] = D(k, r[k - 1])
  BY <1>1, <1>8
<1>10. \A k \in 1..n : r[k - 1] \in S => r[k] = step[<<k, r[k - 1]>>]
  BY <1>5, <1>9
<1>11. Steps(n, S, 1, step, r)
  <2> HIDE DEF Is
  <2> QED
    BY <1>1, <1>4, <1>9, <1>10, Unrolled
<1>12. Powers(n, r)
  BY <1>9, <1>11 DEF Powers, Steps, S, D
<1> QED
  BY <1>3, <1>12

LEMMA TenToType ==
  ASSUME NEW n \in Nat
  PROVE  /\ TenTo(n) \in Nat
         /\ n = 0 => TenTo(n) = 1
         /\ n > 0 => TenTo(n) >= 10
<1>1. PICK f : Powers(n, f) /\ TenTo(n) = f[n]
  BY TenToIs
<1>2. CASE n = 0
  BY <1>1, <1>2 DEF Powers
<1>3. CASE n > 0
  <2>1. n - 1 \in 0..n /\ n \in 1..n
    BY <1>3
  <2>2. f[n] = 10 * f[n - 1] /\ f[n - 1] \in Nat \ {0}
    BY <1>1, <2>1 DEF Powers
  <2> QED
    BY <1>1, <1>3, <2>2
<1> QED
  BY <1>2, <1>3
----------------------------------------------------------------------------
(***************************************************************************)
(* Strings: the text between the quotes, and the quotes within it.         *)
(***************************************************************************)
\* What the function inside Doubled is.
Doubling(s, d) ==
  /\ d \in [0..Len(s) -> Seq(Chars)]
  /\ d[0] = <<>>
  /\ \A k \in 1..Len(s) :
       d[k] = IF s[k] = Quote THEN Append(Append(d[k - 1], Quote), Quote)
                              ELSE Append(d[k - 1], s[k])

LEMMA DoubledIs ==
  ASSUME NEW s \in Seq(Chars)
  PROVE  \E d : Doubling(s, d) /\ Doubled(s) = d[Len(s)]
<1> DEFINE n == Len(s)
           S == Seq(Chars)
           D(k, t) == IF s[k] = Quote THEN Append(Append(t, Quote), Quote) ELSE Append(t, s[k])
           Is(d) == d = [k \in 0..n |-> IF k = 0 THEN <<>> ELSE D(k, d[k - 1])]
           step == [p \in (1..n) \X S |-> D(p[1], p[2])]
           r == CHOOSE d : Is(d)
<1>1. n \in Nat /\ <<>> \in S
  OBVIOUS
<1>2. ASSUME NEW k \in 1..n, NEW t \in S PROVE D(k, t) \in S
  <2>0. Quote \in Chars
    BY DEF Chars
  <2>1. Quote \in Chars /\ s[k] \in Chars
    BY <2>0
  <2>2. Append(t, Quote) \in S /\ Append(t, s[k]) \in S
    BY <2>1
  <2> QED
    BY <2>1, <2>2
<1>3. Doubled(s) = r[n]
  BY DEF Doubled
<1> HIDE DEF D, S
<1>4. step \in [(1..n) \X S -> S]
  BY <1>2
<1>5. ASSUME NEW k \in 1..n, NEW t \in S PROVE step[<<k, t>>] = D(k, t)
  OBVIOUS
<1> HIDE DEF step
<1>6. PICK f : Steps(n, S, <<>>, step, f)
  <2> HIDE DEF n, Is, r
  <2> QED
    BY <1>1, <1>4, Recursion
<1>7. Is(f)
  <2>1. \A k \in 1..n : f[k - 1] \in S
    BY <1>1, <1>6 DEF Steps
  <2>2. \A k \in 1..n : f[k] = D(k, f[k - 1])
    BY <1>5, <1>6, <2>1 DEF Steps
  <2> QED
    BY <1>1, <1>6, <2>2 DEF Steps
<1>8. Is(r)
  BY <1>7, Zenon
<1> HIDE DEF r
<1>9. /\ r = [k \in 0..n |-> r[k]] /\ r[0] = <<>>
      /\ \A k \in 1..n : r[k] = D(k, r[k - 1])
  BY <1>1, <1>8
<1>10. \A k \in 1..n : r[k - 1] \in S => r[k] = step[<<k, r[k - 1]>>]
  BY <1>5, <1>9
<1>11. Steps(n, S, <<>>, step, r)
  <2> HIDE DEF n, Is
  <2> QED
    BY <1>1, <1>4, <1>9, <1>10, Unrolled
<1>12. Doubling(s, r)
  BY <1>9, <1>11 DEF Doubling, Steps, S, D
<1> QED
  BY <1>3, <1>12

\* What the function inside Unquoted is.
Meanings == [text : Seq(Chars), quote : BOOLEAN]
Unquote(t, c) ==
  IF c = Quote /\ ~t.quote THEN [t EXCEPT !.quote = TRUE]
  ELSE [text |-> Append(t.text, c), quote |-> FALSE]
Unquoting(s, f) ==
  /\ f \in [0..Len(s) -> Meanings]
  /\ f[0] = [text |-> <<>>, quote |-> FALSE]
  /\ \A k \in 1..Len(s) : f[k] = Unquote(f[k - 1], s[k])

LEMMA UnquotedIs ==
  ASSUME NEW s \in Seq(Chars)
  PROVE  \E d : Unquoting(s, d) /\ Unquoted(s) = d[Len(s)]
<1> DEFINE n == Len(s)
           S == Meanings
           D(k, t) == Unquote(t, s[k])
           Is(d) == d = [k \in 0..n |-> IF k = 0 THEN [text |-> <<>>, quote |-> FALSE] ELSE D(k, d[k - 1])]
           step == [p \in (1..n) \X S |-> D(p[1], p[2])]
           r == CHOOSE d : Is(d)
<1>1. n \in Nat /\ [text |-> <<>>, quote |-> FALSE] \in S
  BY DEF Meanings
<1>2. ASSUME NEW k \in 1..n, NEW t \in S PROVE D(k, t) \in S
  <2>1. s[k] \in Chars /\ t.text \in Seq(Chars)
    BY DEF Meanings
  <2>2. Append(t.text, s[k]) \in Seq(Chars)
    BY <2>1
  <2>3. [t EXCEPT !.quote = TRUE] \in S
    BY DEF Meanings
  <2>4. [text |-> Append(t.text, s[k]), quote |-> FALSE] \in S
    BY <2>2 DEF Meanings
  <2> QED
    BY <2>3, <2>4 DEF Unquote
<1>3. Unquoted(s) = r[n]
  BY DEF Unquoted, Unquote
<1> HIDE DEF D, S
<1>4. step \in [(1..n) \X S -> S]
  BY <1>2
<1>5. ASSUME NEW k \in 1..n, NEW t \in S PROVE step[<<k, t>>] = D(k, t)
  OBVIOUS
<1> HIDE DEF step
<1>6. PICK f : Steps(n, S, [text |-> <<>>, quote |-> FALSE], step, f)
  <2> HIDE DEF n, Is, r
  <2> QED
    BY <1>1, <1>4, Recursion
<1>7. Is(f)
  <2>1. \A k \in 1..n : f[k - 1] \in S
    BY <1>1, <1>6 DEF Steps
  <2>2. \A k \in 1..n : f[k] = D(k, f[k - 1])
    BY <1>5, <1>6, <2>1 DEF Steps
  <2> QED
    BY <1>1, <1>6, <2>2 DEF Steps
<1>8. Is(r)
  BY <1>7, Zenon
<1> HIDE DEF r
<1>9. /\ r = [k \in 0..n |-> r[k]] /\ r[0] = [text |-> <<>>, quote |-> FALSE]
      /\ \A k \in 1..n : r[k] = D(k, r[k - 1])
  BY <1>1, <1>8, SMTT(30)
<1>10. \A k \in 1..n : r[k - 1] \in S => r[k] = step[<<k, r[k - 1]>>]
  BY <1>5, <1>9
<1>11. Steps(n, S, [text |-> <<>>, quote |-> FALSE], step, r)
  <2> HIDE DEF n, Is
  <2> QED
    BY <1>1, <1>4, <1>9, <1>10, Unrolled
<1>12. Unquoting(s, r)
  BY <1>9, <1>11 DEF Unquoting, Steps, S, D
<1> QED
  BY <1>3, <1>12

LEMMA UnquotedEmpty == Unquoted(<<>>) = [text |-> <<>>, quote |-> FALSE]
<1>1. <<>> \in Seq(Chars) /\ Len(<<>>) = 0
  OBVIOUS
<1> QED
  BY <1>1, UnquotedIs DEF Unquoting

LEMMA UnquotedAppend ==
  ASSUME NEW s \in Seq(Chars), NEW c \in Chars
  PROVE  Unquoted(Append(s, c)) = Unquote(Unquoted(s), c)
<1> DEFINE u == Append(s, c)
           n == Len(s)
<1>1. /\ n \in Nat /\ u \in Seq(Chars) /\ Len(u) = n + 1 /\ n + 1 \in 1..(n + 1)
      /\ (n + 1) - 1 = n /\ u[n + 1] = c
      /\ \A k \in 1..n : k \in 1..(n + 1) /\ u[k] = s[k]
  BY AppendIs
<1> HIDE DEF u
<1>2. PICK f : Unquoting(s, f) /\ Unquoted(s) = f[n]
  BY UnquotedIs
<1>3. PICK g : Unquoting(u, g) /\ Unquoted(u) = g[n + 1]
  BY <1>1, UnquotedIs
<1>4. g[n] = f[n]
  <2>1. g[0] = f[0]
    BY <1>2, <1>3 DEF Unquoting
  <2>2. ASSUME NEW k \in 1..n, g[k - 1] = f[k - 1] PROVE g[k] = f[k]
    BY <1>1, <1>2, <1>3, <2>2 DEF Unquoting
  <2> HIDE DEF n
  <2> QED
    BY <1>1, <2>1, <2>2, Alike
<1>5. g[n + 1] = Unquote(g[n], c)
  BY <1>1, <1>3 DEF Unquoting
<1> QED
  BY <1>2, <1>3, <1>4, <1>5, Zenon DEF u

LEMMA UnquoteIs ==
  ASSUME NEW p, NEW c
  PROVE  /\ c # Quote => Unquote([text |-> p, quote |-> FALSE], c)
                           = [text |-> Append(p, c), quote |-> FALSE]
         /\ Unquote([text |-> p, quote |-> FALSE], Quote) = [text |-> p, quote |-> TRUE]
         /\ Unquote([text |-> p, quote |-> TRUE], Quote) = [text |-> Append(p, Quote), quote |-> FALSE]
BY DEF Unquote

\* The quotes of a string come back from the pairs they were written as.
LEMMA UnquotedDoubled ==
  ASSUME NEW s \in Seq(Chars)
  PROVE  Unquoted(Doubled(s)) = [text |-> s, quote |-> FALSE]
<1>1. PICK d : Doubling(s, d) /\ Doubled(s) = d[Len(s)]
  BY DoubledIs
<1> DEFINE n == Len(s)
           Is(k) == /\ d[k] \in Seq(Chars)
                    /\ Unquoted(d[k]) = [text |-> SubSeq(s, 1, k), quote |-> FALSE]
           S == {k \in 0..n : Is(k)}
<1>2. n \in Nat /\ Quote \in Chars
  <2>1. n \in Nat
    OBVIOUS
  <2> QED
    BY <2>1, DigitsApart
<1>3. 0 \in S
  <2>1. SubSeq(s, 1, 0) = <<>> /\ <<>> \in Seq(Chars) /\ 0 \in 0..n
    OBVIOUS
  <2>2. d[0] = <<>>
    BY <1>1 DEF Doubling
  <2>3. Is(0)
    BY <2>1, <2>2, UnquotedEmpty, Zenon
  <2> HIDE DEF Is
  <2> QED
    BY <2>1, <2>3
<1>4. ASSUME NEW k \in 1..n, k - 1 \in S PROVE k \in S
  <2>1. k \in 0..n /\ s[k] \in Chars
    OBVIOUS
  <2>2. PICK t \in Seq(Chars), p \in Seq(Chars) :
          /\ t = d[k - 1] /\ p = SubSeq(s, 1, k - 1)
          /\ Unquoted(t) = [text |-> p, quote |-> FALSE]
    BY <1>4, PrefixNext, Zenon
  <2>3. d[k] = IF s[k] = Quote THEN Append(Append(t, Quote), Quote) ELSE Append(t, s[k])
    BY <1>1, <2>2 DEF Doubling
  <2>4. SubSeq(s, 1, k) = Append(p, s[k])
    BY <2>2, PrefixNext, Zenon
  <2>5. CASE s[k] = Quote
    <3>1. PICK u \in Seq(Chars) : u = Append(t, Quote)
      BY <1>2, AppendIs, Zenon
    <3>2. Unquoted(u) = [text |-> p, quote |-> TRUE]
      BY <1>2, <2>2, <3>1, UnquotedAppend, UnquoteIs, Zenon
    <3>3. Unquoted(Append(u, Quote)) = [text |-> Append(p, Quote), quote |-> FALSE]
      BY <1>2, <3>2, UnquotedAppend, UnquoteIs, Zenon
    <3>4. d[k] = Append(u, Quote) /\ Append(u, Quote) \in Seq(Chars)
      BY <1>2, <2>3, <2>5, <3>1, AppendIs, Zenon
    <3>5. Is(k)
      BY <2>4, <2>5, <3>3, <3>4, Zenon
    <3> HIDE DEF Is
    <3> QED
      BY <2>1, <3>5
  <2>6. CASE s[k] # Quote
    <3>1. Unquoted(Append(t, s[k])) = [text |-> Append(p, s[k]), quote |-> FALSE]
      BY <2>1, <2>2, <2>6, UnquotedAppend, UnquoteIs, ZenonT(40)
    <3>2. d[k] = Append(t, s[k]) /\ Append(t, s[k]) \in Seq(Chars)
      BY <2>1, <2>3, <2>6, AppendIs, Zenon
    <3>3. Is(k)
      BY <2>4, <3>1, <3>2, Zenon
    <3> HIDE DEF Is
    <3> QED
      BY <2>1, <3>3
  <2> QED
    BY <2>5, <2>6
<1> HIDE DEF S
<1>5. 0..n \subseteq S
  BY <1>2, <1>3, <1>4, Induction
<1>6. n \in S
  BY <1>2, <1>5
<1>7. SubSeq(s, 1, n) = s
  OBVIOUS
<1> QED
  BY <1>1, <1>6, <1>7, Zenon DEF S

LEMMA BetweenQuotes ==
  ASSUME NEW t \in Seq(Chars)
  PROVE  SubSeq(Quoted(t), 2, Len(Quoted(t)) - 1) = t
<1>1. PICK quote \in Seq(Chars) : quote = <<Quote>> /\ Len(quote) = 1
  <2>1. Quote \in Chars
    BY DigitsApart
  <2>2. <<Quote>> \in Seq(Chars) /\ Len(<<Quote>>) = 1
    BY <2>1
  <2> QED
    BY <2>2, Zenon
<1>2. PICK a \in Seq(Chars) : a = quote \o t /\ Len(a) = 1 + Len(t)
                              /\ \A k \in 1..Len(t) : a[k + 1] = t[k]
  <2>1. /\ quote \o t \in Seq(Chars) /\ Len(quote \o t) = 1 + Len(t)
        /\ \A k \in 1..Len(t) : (quote \o t)[k + 1] = t[k]
    BY <1>1
  <2> QED
    BY <2>1, Zenon
<1>3. PICK b \in Seq(Chars) : b = a \o quote /\ Len(b) = Len(t) + 2
                              /\ \A k \in 1..(Len(t) + 1) : b[k] = a[k]
  <2>1. /\ a \o quote \in Seq(Chars) /\ Len(a \o quote) = Len(t) + 2
        /\ \A k \in 1..(Len(t) + 1) : (a \o quote)[k] = a[k]
    BY <1>1, <1>2
  <2> QED
    BY <2>1, Zenon
<1>4. Quoted(t) = b
  BY <1>1, <1>2, <1>3, Zenon DEF Quoted
<1>5. \A k \in 1..Len(t) : b[k + 1] = t[k]
  <2> SUFFICES ASSUME NEW k \in 1..Len(t) PROVE b[k + 1] = t[k]
    OBVIOUS
  <2>1. k + 1 \in 1..(Len(t) + 1)
    OBVIOUS
  <2> QED
    BY <1>2, <1>3, <2>1, Zenon
<1>6. PICK m \in Nat : m = Len(t) /\ Len(b) - 1 = m + 1
  BY <1>3
<1>7. PICK w \in Seq(Chars) : w = SubSeq(b, 2, m + 1) /\ Len(w) = m /\ \A k \in 1..m : w[k] = b[k + 1]
  <2>1. /\ SubSeq(b, 2, m + 1) \in Seq(Chars) /\ Len(SubSeq(b, 2, m + 1)) = m
        /\ \A k \in 1..m : SubSeq(b, 2, m + 1)[k] = b[k + 1]
    BY <1>3, <1>6
  <2> QED
    BY <2>1, Zenon
<1>8. w = t
  BY <1>5, <1>6, <1>7
<1> QED
  BY <1>4, <1>6, <1>7, <1>8, Zenon
----------------------------------------------------------------------------
(***************************************************************************)
(* Literals: each is a token of its own, and means its value.              *)
(***************************************************************************)
\* Where a token begins with the first character of s, s is read as ends says.
ReadsAs(s, ends) ==
  /\ s \in Seq(Chars) /\ Len(s) >= 1
  /\ \A q \in Outsides : ~Continues(q, s[1]) => ReadOn(q, s) \in ends

LEMMA ReadFirst ==
  ASSUME NEW q \in Outsides, NEW c \in Chars, NEW t \in Seq(Chars), ~Continues(q, c)
  PROVE  ReadOn(q, <<c>> \o t) = ReadOn(Start(c), t)
<1>1. q \in Readings /\ Lex(q, c) = Start(c)
  BY DEF Readings, Lex, Outsides
<1>2. PICK s \in Seq(Chars) : s = <<c>>
  BY One, Zenon
<1>3. ReadOn(q, s \o t) = ReadOn(ReadOn(q, s), t)
  BY <1>1, ReadConcat
<1>4. ReadOn(q, s) = Start(c)
  BY <1>1, <1>2, ReadOne
<1> QED
  BY <1>2, <1>3, <1>4, Zenon

\* By its first character and the rest.
LEMMA ReadsFrom ==
  ASSUME NEW c \in Chars, NEW t \in Seq(Chars), NEW ends, ReadOn(Start(c), t) \in ends
  PROVE  ReadsAs(<<c>> \o t, ends)
<1>1. /\ <<c>> \o t \in Seq(Chars) /\ Len(<<c>> \o t) >= 1
      /\ (<<c>> \o t)[1] = c
  OBVIOUS
<1>2. PICK s : s = <<c>> \o t
  OBVIOUS
<1>3. \A q \in Outsides : ~Continues(q, c) => ReadOn(q, s) \in ends
  BY <1>2, ReadFirst
<1> QED
  BY <1>1, <1>2, <1>3 DEF ReadsAs

\* By a part that is read as one of some readings, and the rest.
LEMMA ReadsThen ==
  ASSUME NEW s, NEW ends \in SUBSET Readings, ReadsAs(s, ends), NEW t \in Seq(Chars), NEW more,
         \A q \in ends : ReadOn(q, t) \in more
  PROVE  ReadsAs(s \o t, more)
<1>1. s \in Seq(Chars) /\ Len(s) >= 1
  BY DEF ReadsAs
<1>2. /\ s \o t \in Seq(Chars) /\ Len(s \o t) >= 1 /\ (s \o t)[1] = s[1]
  BY <1>1
<1>3. ASSUME NEW q \in Outsides, ~Continues(q, s[1])
      PROVE  ReadOn(q, s \o t) \in more
  <2>1. ReadOn(q, s) \in ends
    BY <1>3 DEF ReadsAs
  <2>2. q \in Readings
    BY DEF Readings
  <2>3. ReadOn(q, s \o t) = ReadOn(ReadOn(q, s), t)
    BY <1>1, <2>2, ReadConcat, Zenon
  <2> QED
    BY <2>1, <2>3, Zenon
<1>4. PICK u : u = s \o t
  OBVIOUS
<1> QED
  BY <1>2, <1>3, <1>4 DEF ReadsAs

LEMMA Starts ==
  /\ Start("x") = "word" /\ Start(":") = "gap" /\ Start(" ") = "gap"
  /\ Start("-") = "dash" /\ Start(Quote) = "string"
  /\ \A c \in Digits : Start(c) = "word"
<1>1. {":", " ", "-", Quote} \intersect Word = {} /\ "x" \in Word
  BY MarksApart, DigitsApart DEF Marks
<1>2. \A c \in Digits :
        c \in Word /\ c # Quote /\ c # "\"" /\ c # "-" /\ c # "/" /\ c # "$" /\ c # "?" /\ c # "E"
  BY DigitsAre, DigitsApart DEF Quote
<1>3. \A c \in Digits : Start(c) = "word"
  BY <1>2 DEF Start
<1>4. Start("x") = "word" /\ Start("-") = "dash" /\ Start(Quote) = "string"
  BY <1>1 DEF Start, Quote
<1>5. Start(":") = "gap" /\ Start(" ") = "gap"
  BY <1>1 DEF Start, Quote
<1> QED
  BY <1>3, <1>4, <1>5

LEMMA LexWord == ASSUME NEW c \in Word PROVE Lex("word", c) = "word"
BY DEF Lex, Continues, Longer

LEMMA WordStays ==
  ASSUME NEW s \in Seq(Word)
  PROVE  ReadOn("word", s) = "word"
<1>1. Word \subseteq Chars /\ "word" \in Readings
  BY DigitsApart DEF Readings, Outsides
<1> QED
  BY <1>1, LexWord, ReadStays

LEMMA KeywordRead == Keyword \in Seq(Chars) /\ ReadsAs(Keyword, {"word"})
<1>1. "x" \in Word /\ "x" \in Chars
  BY DigitsApart
<1>2. PICK x \in Seq(Word) : x = <<"x">>
  BY <1>1, One, Zenon
<1>3. x \in Seq(Chars)
  BY <1>1, <1>2
<1>4. ReadOn(Start("x"), x) \in {"word"}
  BY Starts, WordStays
<1>5. ReadsAs(<<"x">> \o x, {"word"})
  BY <1>1, <1>3, <1>4, ReadsFrom
<1>6. <<"x">> \o x = Keyword
  <2>1. <<"x">> \o <<"x">> = <<"x", "x">>
    BY <1>1, Two
  <2> QED
    BY <1>2, <2>1, Zenon DEF Keyword
<1>7. Keyword \in Seq(Chars)
  BY <1>1 DEF Keyword
<1> QED
  BY <1>5, <1>6, <1>7

LEMMA NumberRead ==
  ASSUME NEW s, IsNumber(s)
  PROVE  ReadsAs(s, {"word"})
<1>1. Digits \subseteq Word /\ Word \subseteq Chars /\ "." \in Word
  BY DigitsApart
<1>2. s \in Seq(Word) /\ Len(s) >= 1 /\ s[1] \in Digits
  BY <1>1, SMTT(30) DEF IsNumber
<1>3. PICK c \in Digits, t \in Seq(Word) : s = <<c>> \o t
  <2>1. s = <<s[1]>> \o Tail(s) /\ Tail(s) \in Seq(Word)
    BY <1>2
  <2> QED
    BY <1>2, <2>1
<1>4. c \in Chars /\ t \in Seq(Chars)
  BY <1>1
<1>5. ReadOn(Start(c), t) \in {"word"}
  BY Starts, WordStays
<1> QED
  BY <1>3, <1>4, <1>5, ReadsFrom

LEMMA SignedRead ==
  ASSUME NEW n \in Int, NEW s, IsNumber(s)
  PROVE  ReadsAs(Signed(n, s), {"word"})
<1>1. ReadsAs(s, {"word"})
  BY NumberRead
<1>2. CASE n >= 0
  BY <1>1, <1>2 DEF Signed
<1>3. CASE n < 0
  <2>1. "-" \in Chars /\ s \in Seq(Chars) /\ s[1] \in Digits
    BY <1>1, DigitsApart DEF ReadsAs, IsNumber
  <2>2. s[1] # "-"
    BY <2>1, DigitsApart
  <2>3. ~Continues("dash", s[1])
    BY <2>2 DEF Continues
  <2>4. "dash" \in Outsides
    BY DEF Outsides
  <2>5. ReadOn(Start("-"), s) \in {"word"}
    BY <1>1, <2>3, <2>4, Starts DEF ReadsAs
  <2>6. ReadsAs(<<"-">> \o s, {"word"})
    BY <2>1, <2>5, ReadsFrom
  <2> QED
    BY <1>3, <2>6 DEF Signed
<1> QED
  BY <1>2, <1>3

Finished == {"word", "quoteEnd"}

LEMMA CastRead ==
  ASSUME NEW s, ReadsAs(s, Finished)
  PROVE  ReadsAs(Cast(s), {"word"})
<1>1. /\ Finished \in SUBSET Readings /\ {"gap"} \in SUBSET Readings
      /\ "gap" \in Outsides
  BY DEF Finished, Readings, Outsides
<1>2. ":" \in Chars
  BY DigitsApart
<1>3. PICK colons \in Seq(Chars), colon \in Seq(Chars) :
        colons = <<":", ":">> /\ colon = <<":">> /\ colons = <<":">> \o colon
  <2>1. <<":">> \in Seq(Chars) /\ <<":", ":">> \in Seq(Chars)
    BY <1>2
  <2>2. <<":", ":">> = <<":">> \o <<":">>
    OBVIOUS
  <2> QED
    BY <2>1, <2>2, Zenon
<1>4. ASSUME NEW q \in {"word", "quoteEnd", "gap"}
      PROVE  ~Continues(q, ":")
  <2>1. ":" \notin Word
    BY MarksApart DEF Marks
  <2> QED
    BY <2>1 DEF Continues, Quote
<1>5. ReadOn("gap", colon) = "gap"
  <2>1. Lex("gap", ":") = "gap"
    BY <1>4, Starts DEF Lex
  <2> QED
    BY <1>1, <1>2, <1>3, <2>1, ReadOne DEF Readings
<1>6. \A q \in Finished : ReadOn(q, colons) \in {"gap"}
  <2> SUFFICES ASSUME NEW q \in Finished PROVE ReadOn(q, colons) \in {"gap"}
    OBVIOUS
  <2>1. q \in Outsides /\ ~Continues(q, ":")
    BY <1>4 DEF Finished, Outsides
  <2>2. ReadOn(q, <<":">> \o colon) = ReadOn(Start(":"), colon)
    BY <1>2, <2>1, ReadFirst
  <2> QED
    BY <1>3, <1>5, <2>2, Starts
<1>7. ReadsAs(s \o colons, {"gap"})
  BY <1>1, <1>6, ReadsThen
<1>8. ReadOn("gap", Keyword) \in {"word"}
  <2>1. ~Continues("gap", Keyword[1])
    BY DEF Continues
  <2> QED
    BY <1>1, <2>1, KeywordRead DEF ReadsAs
<1>9. ReadsAs((s \o colons) \o Keyword, {"word"})
  <2>1. \A q \in {"gap"} : ReadOn(q, Keyword) \in {"word"}
    BY <1>8
  <2> QED
    BY <1>1, <1>7, <2>1, KeywordRead, ReadsThen
<1> QED
  BY <1>3, <1>9 DEF Cast

LEMMA QuotedRead ==
  ASSUME NEW t \in Seq(Chars), ReadOn("string", t) = "string"
  PROVE  ReadsAs(Quoted(t), {"quoteEnd"})
<1>1. Quote \in Chars /\ "string" \in Readings /\ {"string"} \in SUBSET Readings
  BY DigitsApart DEF Readings, Insides
<1>2. PICK quote \in Seq(Chars) : quote = <<Quote>>
  BY <1>1, One, Zenon
<1>3. ReadsAs(<<Quote>> \o t, {"string"})
  BY <1>1, Starts, ReadsFrom
<1>4. ReadOn("string", quote) \in {"quoteEnd"}
  BY <1>1, <1>2, ReadOne DEF Lex
<1>5. ReadsAs((<<Quote>> \o t) \o quote, {"quoteEnd"})
  <2>1. \A q \in {"string"} : ReadOn(q, quote) \in {"quoteEnd"}
    BY <1>4
  <2> QED
    BY <1>1, <1>3, <2>1, ReadsThen
<1> QED
  BY <1>2, <1>5 DEF Quoted

LEMMA PlainStays ==
  ASSUME NEW t \in Seq(Chars \ {Quote})
  PROVE  t \in Seq(Chars) /\ ReadOn("string", t) = "string"
<1>1. \A c \in Chars \ {Quote} : Lex("string", c) = "string"
  BY DEF Lex
<1>2. "string" \in Readings /\ Chars \ {Quote} \subseteq Chars
  BY DEF Readings, Insides
<1>3. ReadOn("string", t) = "string"
  BY <1>1, <1>2, ReadStays
<1>4. t \in Seq(Chars)
  OBVIOUS
<1> QED
  BY <1>3, <1>4

LEMMA DoubledStays ==
  ASSUME NEW s \in Seq(Chars)
  PROVE  Doubled(s) \in Seq(Chars) /\ ReadOn("string", Doubled(s)) = "string"
<1>1. PICK d : Doubling(s, d) /\ Doubled(s) = d[Len(s)]
  BY DoubledIs
<1> DEFINE n == Len(s)
           S == {k \in 0..n : d[k] \in Seq(Chars) /\ ReadOn("string", d[k]) = "string"}
<1>2. n \in Nat /\ "string" \in Readings /\ Quote \in Chars
  <2>1. "string" \in Readings /\ Quote \in Chars
    BY DigitsApart DEF Readings, Insides
  <2>2. n \in Nat
    OBVIOUS
  <2> QED
    BY <2>1, <2>2
<1>3. 0 \in S
  <2>1. <<>> \in Seq(Chars \ {Quote})
    OBVIOUS
  <2>2. d[0] \in Seq(Chars) /\ ReadOn("string", d[0]) = "string"
    BY <1>1, <2>1, PlainStays DEF Doubling
  <2> QED
    BY <1>2, <2>2
<1>4. ASSUME NEW k \in 1..n, k - 1 \in S PROVE k \in S
  <2>1. k \in 0..n /\ s[k] \in Chars
    OBVIOUS
  <2>2. PICK t \in Seq(Chars) : t = d[k - 1] /\ ReadOn("string", t) = "string"
    BY <1>4
  <2>3. d[k] = IF s[k] = Quote THEN Append(Append(t, Quote), Quote) ELSE Append(t, s[k])
    BY <1>1, <2>2 DEF Doubling
  <2>4. CASE s[k] = Quote
    <3>1. PICK u \in Seq(Chars) : u = Append(t, Quote)
      BY <1>2, AppendIs, Zenon
    <3>2. ReadOn("string", u) = "quoteEnd"
      <4>1. ReadOn("string", Append(t, Quote)) = Lex("string", Quote)
        BY <1>2, <2>2, ReadAppend
      <4> QED
        BY <3>1, <4>1 DEF Lex
    <3>3. ReadOn("string", Append(u, Quote)) = Lex("quoteEnd", Quote)
      BY <1>2, <3>2, ReadAppend
    <3>4. Lex("quoteEnd", Quote) = "string"
      BY DEF Lex, Continues, Longer
    <3>5. d[k] = Append(u, Quote)
      BY <2>3, <2>4, <3>1
    <3>6. Append(u, Quote) \in Seq(Chars)
      BY <1>2
    <3> QED
      BY <2>1, <3>3, <3>4, <3>5, <3>6, Zenon
  <2>5. CASE s[k] # Quote
    <3>1. d[k] = Append(t, s[k]) /\ Append(t, s[k]) \in Seq(Chars)
      BY <2>1, <2>3, <2>5
    <3>2. ReadOn("string", Append(t, s[k])) = Lex("string", s[k])
      BY <1>2, <2>1, <2>2, ReadAppend
    <3>3. Lex("string", s[k]) = "string"
      BY <2>5 DEF Lex
    <3> QED
      BY <2>1, <3>1, <3>2, <3>3, Zenon
  <2> QED
    BY <2>4, <2>5
<1> HIDE DEF S
<1>5. 0..n \subseteq S
  BY <1>2, <1>3, <1>4, Induction
<1>6. n \in S
  BY <1>2, <1>5
<1> QED
  BY <1>1, <1>6 DEF S

Rendered(x) == RenderLiteral(PlainScalar(x))

LEMMA RenderedIs ==
  ASSUME NEW x, x.valid => x.type \in PlainTypes
  PROVE  /\ ~x.valid => Rendered(x) = Keyword
         /\ x.valid =>
              /\ x.type = "bool" => Rendered(x) = Keyword
              /\ x.type = "integer" => Rendered(x) = Signed(x.n, Numeral(Magnitude(x.n)))
              /\ x.type = "float" => Rendered(x) = Cast(Signed(x.n, Numeral(Magnitude(x.n))))
              /\ x.type = "string" => Rendered(x) = Quoted(Doubled(x.s))
              /\ x.type = "binary" =>
                   Rendered(x) = Cast(Quoted([k \in 1..(4 * Len(x.s)) |-> Hex[((k - 1) % 4) + 1]]))
              /\ x.type = "decimal" => Rendered(x) = DecimalLiteral(x.n, x.scale)
              /\ x.type = "temporal" => Rendered(x) = Keyword \o <<" ">> \o Quoted(x.s)
<1>1. CASE ~x.valid
  <2>1. PlainScalar(x) = [kind |-> "nil"]
    BY <1>1 DEF PlainScalar, Nil
  <2>2. RenderLiteral([kind |-> "nil"]) = Keyword
    BY DEF RenderLiteral
  <2> QED
    BY <1>1, <2>1, <2>2 DEF Rendered
<1>2. CASE x.valid
  <2>1. CASE x.type = "bool"
    <3>1. PlainScalar(x) = [kind |-> "bool"]
      BY <1>2, <2>1 DEF PlainScalar
    <3>2. RenderLiteral([kind |-> "bool"]) = Keyword
      BY DEF RenderLiteral
    <3> QED
      BY <1>2, <2>1, <3>1, <3>2 DEF Rendered
  <2>2. CASE x.type = "integer"
    <3>1. PlainScalar(x) = [kind |-> "int64", n |-> x.n]
      BY <1>2, <2>2 DEF PlainScalar
    <3>2. \A n : RenderLiteral([kind |-> "int64", n |-> n]) = Signed(n, Numeral(Magnitude(n)))
      BY DEF RenderLiteral
    <3> QED
      BY <1>2, <2>2, <3>1, <3>2 DEF Rendered
  <2>3. CASE x.type = "float"
    <3>1. PlainScalar(x) = [kind |-> "float64", n |-> x.n]
      BY <1>2, <2>3 DEF PlainScalar
    <3>2. \A n : RenderLiteral([kind |-> "float64", n |-> n]) = Cast(Signed(n, Numeral(Magnitude(n))))
      BY DEF RenderLiteral
    <3> QED
      BY <1>2, <2>3, <3>1, <3>2 DEF Rendered
  <2>4. CASE x.type = "string"
    <3>1. PlainScalar(x) = [kind |-> "string", s |-> x.s]
      BY <1>2, <2>4 DEF PlainScalar
    <3>2. \A s : RenderLiteral([kind |-> "string", s |-> s]) = Quoted(Doubled(s))
      BY DEF RenderLiteral
    <3> QED
      BY <1>2, <2>4, <3>1, <3>2 DEF Rendered
  <2>5. CASE x.type = "binary"
    <3>1. PlainScalar(x) = [kind |-> "bytes", s |-> x.s]
      BY <1>2, <2>5 DEF PlainScalar
    <3>2. \A s : RenderLiteral([kind |-> "bytes", s |-> s])
                   = Cast(Quoted([k \in 1..(4 * Len(s)) |-> Hex[((k - 1) % 4) + 1]]))
      BY DEF RenderLiteral
    <3> QED
      BY <1>2, <2>5, <3>1, <3>2 DEF Rendered
  <2>6. CASE x.type = "decimal"
    <3>1. PlainScalar(x) = [kind |-> "sqlKeyword", s |-> DecimalLiteral(x.n, x.scale)]
      BY <1>2, <2>6 DEF PlainScalar
    <3>2. \A s : RenderLiteral([kind |-> "sqlKeyword", s |-> s]) = s
      BY DEF RenderLiteral
    <3> QED
      BY <1>2, <2>6, <3>1, <3>2 DEF Rendered
  <2>7. CASE x.type = "temporal"
    <3>1. PlainScalar(x) = [kind |-> "sqlKeyword", s |-> Keyword \o <<" ">> \o Quoted(x.s)]
      BY <1>2, <2>7 DEF PlainScalar
    <3>2. \A s : RenderLiteral([kind |-> "sqlKeyword", s |-> s]) = s
      BY DEF RenderLiteral
    <3> QED
      BY <1>2, <2>7, <3>1, <3>2 DEF Rendered
  <2> QED
    BY <1>2, <2>1, <2>2, <2>3, <2>4, <2>5, <2>6, <2>7 DEF PlainTypes
<1> QED
  BY <1>1, <1>2

LEMMA PlainHas ==
  ASSUME NEW x, IsPlain(x)
  PROVE  /\ x.valid \in BOOLEAN
         /\ x.valid =>
              /\ x.type \in PlainTypes
              /\ x.type \in {"integer", "float", "decimal"} => x.n \in Int
              /\ x.type = "decimal" => x.scale \in Int
              /\ x.type \in {"string", "binary"} => x.s \in Seq(Chars)
              /\ x.type = "temporal" => x.s \in Seq(Chars \ {Quote})
BY DEF IsPlain

LEMMA ReadsWider ==
  ASSUME NEW s, NEW ends, ReadsAs(s, ends), NEW more, ends \subseteq more
  PROVE  ReadsAs(s, more)
BY DEF ReadsAs

\* Every literal is read, from where a token may begin, as a token of its own.
LEMMA LiteralReads ==
  ASSUME NEW x, IsPlain(x)
  PROVE  ReadsAs(Rendered(x), Finished)
<1> USE PlainHas
<1>1. {"word"} \subseteq Finished /\ {"quoteEnd"} \subseteq Finished
  BY DEF Finished
<1>2. CASE ~x.valid \/ x.type = "bool"
  <2>1. Rendered(x) = Keyword
    BY <1>2, RenderedIs
  <2> QED
    BY <1>1, <2>1, KeywordRead, ReadsWider
<1>3. ASSUME NEW n \in Int PROVE ReadsAs(Signed(n, Numeral(Magnitude(n))), {"word"})
  <2>1. Magnitude(n) \in Nat /\ IsNumeral(Numeral(Magnitude(n)), Magnitude(n))
    BY MagnitudeType
  <2>2. IsNumber(Numeral(Magnitude(n)))
    BY <2>1, NumeralSays DEF Says
  <2> QED
    BY <2>2, SignedRead
<1>4. CASE x.valid /\ x.type = "integer"
  <2>1. Rendered(x) = Signed(x.n, Numeral(Magnitude(x.n))) /\ x.n \in Int
    BY <1>4, RenderedIs
  <2> QED
    BY <1>1, <1>3, <2>1, ReadsWider
<1>5. CASE x.valid /\ x.type = "float"
  <2>1. Rendered(x) = Cast(Signed(x.n, Numeral(Magnitude(x.n)))) /\ x.n \in Int
    BY <1>5, RenderedIs
  <2>2. ReadsAs(Signed(x.n, Numeral(Magnitude(x.n))), Finished)
    BY <1>1, <1>3, <2>1, ReadsWider
  <2>3. ReadsAs(Cast(Signed(x.n, Numeral(Magnitude(x.n)))), {"word"})
    BY <2>2, CastRead
  <2> QED
    BY <1>1, <2>1, <2>3, ReadsWider
<1>6. CASE x.valid /\ x.type = "string"
  <2>1. Rendered(x) = Quoted(Doubled(x.s)) /\ x.s \in Seq(Chars)
    BY <1>6, RenderedIs
  <2>2. ReadsAs(Quoted(Doubled(x.s)), {"quoteEnd"})
    BY <2>1, DoubledStays, QuotedRead
  <2> QED
    BY <1>1, <2>1, <2>2, ReadsWider
<1>7. CASE x.valid /\ x.type = "binary"
  <2> DEFINE digits == [k \in 1..(4 * Len(x.s)) |-> Hex[((k - 1) % 4) + 1]]
  <2>1. Rendered(x) = Cast(Quoted(digits)) /\ x.s \in Seq(Chars)
    BY <1>7, RenderedIs
  <2>2. ASSUME NEW k \in 1..(4 * Len(x.s)) PROVE Hex[((k - 1) % 4) + 1] \in Chars \ {Quote}
    <3>1. Len(x.s) \in Nat
      BY <2>1
    <3>2. k - 1 \in Nat
      BY <3>1
    <3>3. ((k - 1) % 4) + 1 \in {1, 2, 3, 4}
      BY <3>2
    <3>4. \A j \in {1, 2, 3, 4} : Hex[j] \in {"\\", "x", "0"}
      BY DEF Hex
    <3>5. {"\\", "x", "0"} \subseteq Chars \ {Quote}
      BY DigitsApart DEF Quote
    <3> QED
      BY <3>3, <3>4, <3>5
  <2>3. digits \in Seq(Chars \ {Quote})
    <3>1. PICK m \in Nat : m = 4 * Len(x.s)
      BY <2>1
    <3> QED
      BY <2>2, <3>1
  <2> HIDE DEF digits
  <2>4. ReadsAs(Quoted(digits), {"quoteEnd"})
    BY <2>3, PlainStays, QuotedRead
  <2>5. ReadsAs(Cast(Quoted(digits)), {"word"})
    BY <1>1, <2>4, ReadsWider, CastRead
  <2> QED
    BY <1>1, <2>1, <2>5, ReadsWider
<1>8. CASE x.valid /\ x.type = "decimal"
  <2>1. Rendered(x) = DecimalLiteral(x.n, x.scale) /\ x.n \in Int /\ x.scale \in Int
    BY <1>8, RenderedIs
  <2>2. PICK s : DecimalLiteral(x.n, x.scale) = Signed(x.n, s)
                 /\ Says(s, Magnitude(x.n), Positive(x.scale))
    BY <2>1, DecimalSays
  <2>3. ReadsAs(Signed(x.n, s), {"word"})
    BY <2>1, <2>2, SignedRead DEF Says
  <2> QED
    BY <1>1, <2>1, <2>2, <2>3, ReadsWider
<1>9. CASE x.valid /\ x.type = "temporal"
  <2>1. Rendered(x) = Keyword \o <<" ">> \o Quoted(x.s) /\ x.s \in Seq(Chars \ {Quote})
    BY <1>9, RenderedIs
  <2>2. PICK blank \in Seq(Chars) : blank = <<" ">>
    <3>1. " " \in Chars
      BY DigitsApart
    <3> QED
      BY <3>1, One, Zenon
  <2>3. {"word"} \in SUBSET Readings /\ {"gap"} \in SUBSET Readings /\ "gap" \in Outsides
        /\ "word" \in Readings
    BY DEF Readings, Outsides
  <2>4. ReadOn("word", blank) \in {"gap"}
    <3>1. " " \notin Word /\ " " \in Chars
      BY MarksApart, DigitsApart DEF Marks
    <3>2. ~Continues("word", " ")
      BY <3>1 DEF Continues
    <3>3. Lex("word", " ") = "gap"
      BY <3>2, Starts DEF Lex
    <3> QED
      BY <2>2, <2>3, <3>1, <3>3, ReadOne
  <2>5. ReadsAs(Keyword \o blank, {"gap"})
    <3>1. \A q \in {"word"} : ReadOn(q, blank) \in {"gap"}
      BY <2>4
    <3> QED
      BY <2>3, <3>1, KeywordRead, ReadsThen
  <2>6. ReadsAs(Quoted(x.s), {"quoteEnd"})
    BY <2>1, PlainStays, QuotedRead
  <2>7. PICK q \in Seq(Chars) : q = Quoted(x.s)
    BY <2>6 DEF ReadsAs
  <2>8. \A g \in {"gap"} : ReadOn(g, q) \in {"quoteEnd"}
    <3>1. ~Continues("gap", q[1])
      BY DEF Continues
    <3> QED
      BY <2>3, <2>6, <2>7, <3>1 DEF ReadsAs
  <2>9. ReadsAs((Keyword \o blank) \o q, {"quoteEnd"})
    BY <2>3, <2>5, <2>8, ReadsThen
  <2> QED
    BY <1>1, <2>1, <2>2, <2>7, <2>9, ReadsWider
<1> QED
  BY <1>2, <1>4, <1>5, <1>6, <1>7, <1>8, <1>9 DEF PlainTypes

\* What a literal means.
LEMMA LiteralMeans ==
  ASSUME NEW x, IsPlain(x)
  PROVE  Means(x, Rendered(x)) <=> ~(x.valid /\ x.type = "decimal" /\ x.scale < 0 /\ x.n # 0)
<1> USE PlainHas
<1>1. CASE ~x.valid
  BY <1>1, RenderedIs DEF Means
<1>2. CASE x.valid /\ x.type \in {"bool", "float", "binary", "temporal"}
  BY <1>2 DEF Means
<1>3. CASE x.valid /\ x.type = "string"
  <2>1. Rendered(x) = Quoted(Doubled(x.s)) /\ x.s \in Seq(Chars)
    BY <1>3, RenderedIs
  <2>2. Doubled(x.s) \in Seq(Chars)
    BY <2>1, DoubledStays
  <2>3. SubSeq(Rendered(x), 2, Len(Rendered(x)) - 1) = Doubled(x.s)
    BY <2>1, <2>2, BetweenQuotes
  <2>4. Unquoted(SubSeq(Rendered(x), 2, Len(Rendered(x)) - 1)) = [text |-> x.s, quote |-> FALSE]
    BY <2>1, <2>3, UnquotedDoubled
  <2>5. Means(x, Rendered(x))
    BY <1>3, <2>4 DEF Means
  <2> QED
    BY <1>3, <2>5
<1>4. CASE x.valid /\ x.type = "integer"
  <2>1. PICK n \in Int : n = x.n /\ Rendered(x) = Signed(n, Numeral(Magnitude(n)))
    BY <1>4, RenderedIs
  <2>2. Says(Numeral(Magnitude(n)), Magnitude(n), 0)
    BY MagnitudeType, NumeralSays
  <2>3. NumberOf(Rendered(x)) = x.n /\ "." \notin Range(Rendered(x))
    BY <2>1, <2>2, SignedSays
  <2>4. Means(x, Rendered(x))
    BY <1>4, <2>3 DEF Means
  <2> QED
    BY <1>4, <2>4
<1>5. CASE x.valid /\ x.type = "decimal"
  <2>1. PICK n \in Int, scale \in Int :
          n = x.n /\ scale = x.scale /\ Rendered(x) = DecimalLiteral(n, scale)
    BY <1>5, RenderedIs
  <2>2. PICK s : DecimalLiteral(n, scale) = Signed(n, s)
                 /\ Says(s, Magnitude(n), Positive(scale))
    BY DecimalSays
  <2>3. Positive(scale) \in Nat /\ Positive(-scale) \in Nat
    BY DEF Positive
  <2>4. NumberOf(Rendered(x)) = n /\ FractionOf(Rendered(x)) = Positive(scale)
    BY <2>1, <2>2, <2>3, SignedSays
  <2> DEFINE up == TenTo(Positive(-scale))
             down == TenTo(Positive(scale))
  <2>5. Means(x, Rendered(x)) <=> n * down = n * up * down
    BY <1>5, <2>1, <2>4 DEF Means
  <2>6. up \in Nat /\ down \in Nat
    BY <2>3, TenToType
  <2>7. CASE scale >= 0
    <3>1. Positive(-scale) = 0
      BY <2>7 DEF Positive
    <3>2. up = 1
      BY <3>1, TenToType
    <3> HIDE DEF up, down
    <3>3. n * down = n * up * down
      BY <2>6, <3>2
    <3> QED
      BY <2>1, <2>5, <2>7, <3>3
  <2>8. CASE scale < 0
    <3>1. Positive(scale) = 0 /\ Positive(-scale) > 0
      BY <2>8 DEF Positive
    <3>2. down = 1 /\ up >= 10
      BY <2>3, <3>1, TenToType
    <3> HIDE DEF up, down
    <3>3. n * down = n /\ n * up * down = n * up
      BY <2>6, <3>2
    <3>4. n = n * up <=> n = 0
      <4>1. ASSUME NEW u \in Nat, u >= 10 PROVE n = n * u <=> n = 0
        <5>1. CASE n > 0
          <6>1. n * u >= n * 10
            BY <4>1, <5>1
          <6> QED
            BY <5>1, <6>1
        <5>2. CASE n < 0
          <6>1. n * u =< n * 10
            BY <4>1, <5>2
          <6> QED
            BY <5>2, <6>1
        <5>3. CASE n = 0
          BY <5>3
        <5> QED
          BY <5>1, <5>2, <5>3
      <4> QED
        BY <2>6, <3>2, <4>1
    <3> QED
      BY <1>5, <2>1, <2>5, <2>8, <3>3, <3>4
  <2> QED
    BY <2>7, <2>8
<1> QED
  BY <1>1, <1>2, <1>3, <1>4, <1>5 DEF PlainTypes
----------------------------------------------------------------------------
(***************************************************************************)
(* What is sent.                                                           *)
(***************************************************************************)
Given == \E s \in Statements : sql = s.sql /\ row = s.row

Sent == ReadsTheSame' /\ there' \in Readings /\ glued' \in BOOLEAN

\* A character after a value: the two readings come together again.
LEMMA AfterValue ==
  ASSUME NEW q \in {"word", "quoteEnd"}, NEW c, ~Continues(q, c),
         Lex("value", c) # "beyond"
  PROVE  Lex(q, c) = Lex("value", c)
<1>1. Lex(q, c) = Start(c)
  BY DEF Lex
<1>2. Lex("value", c) = IF Continues("value", c) THEN "beyond" ELSE Start(c)
  BY DEF Lex, Longer
<1> QED
  BY <1>1, <1>2

LEMMA SentOne ==
  ASSUME TypeOK, ReadsTheSame, Copy(1)
  PROVE  Sent
<1>1. /\ here' = Lex(here, Here) /\ there' = Lex(there, Here)
      /\ glued' = (glued \/ (here = "value" /\ Continues(there, Here)))
  BY DEF Copy, Here
<1>2. there' \in Readings /\ glued' \in BOOLEAN
  BY <1>1, LexType DEF TypeOK
<1>3. ASSUME here' # "beyond", ~glued'
      PROVE  there' = here'
  <2>1. here # "beyond"
    BY <1>1, <1>3, LexBeyond
  <2>2. ~glued /\ (here = "value" => ~Continues(there, Here))
    BY <1>1, <1>3
  <2>3. CASE there = here
    BY <1>1, <2>3
  <2>4. CASE here = "value" /\ there \in {"word", "quoteEnd"}
    BY <1>1, <1>3, <2>2, <2>4, AfterValue
  <2> QED
    BY <2>1, <2>2, <2>3, <2>4 DEF ReadsTheSame
<1> QED
  BY <1>2, <1>3 DEF Sent, ReadsTheSame

LEMMA SentTwo ==
  ASSUME TypeOK, ReadsTheSame, Copy(2), here # "value"
  PROVE  Sent
<1>1. /\ here' = Lex(Lex(here, Here), sql[i + 1])
      /\ there' = Lex(Lex(there, Here), sql[i + 1])
      /\ glued' = glued
  BY DEF Copy, Here, TypeOK
<1>2. there' \in Readings /\ glued' \in BOOLEAN
  BY <1>1, LexType DEF TypeOK
<1>3. here = "beyond" => here' = "beyond"
  BY <1>1, LexBeyond
<1> QED
  BY <1>1, <1>2, <1>3 DEF Sent, ReadsTheSame

LEMMA SentMarker ==
  ASSUME Given, TypeOK, ScanInv, ReadsTheSame, Marker
  PROVE  Sent
<1> DEFINE literal == Literal(row[idx + 1])
<1>1. /\ idx < Len(row) /\ mode = "top"
      /\ there' = ReadOn(there, literal)
      /\ glued' = (glued \/ Continues(there, literal[1]))
      /\ here' = Lex(here, "?")
  BY DEF Marker, At
<1>2. literal \in Seq(Chars) /\ ReadsAs(literal, Finished)
  <2>1. PICK s \in Statements : sql = s.sql /\ row = s.row
    BY DEF Given
  <2>2. idx + 1 \in 1..Len(s.row)
    BY <1>1, <2>1, StatementsAssumption DEF TypeOK
  <2>3. IsPlain(Referent(row[idx + 1]))
    BY <2>1, <2>2, StatementsAssumption
  <2>4. literal = Rendered(Referent(row[idx + 1]))
    BY DEF Literal, ScalarAt, Rendered
  <2> QED
    BY <2>3, <2>4, LiteralReads DEF ReadsAs
<1> HIDE DEF literal
<1>3. there' \in Readings /\ glued' \in BOOLEAN
  BY <1>1, <1>2, ReadOnType DEF TypeOK
<1>4. ASSUME here' # "beyond", ~glued'
      PROVE  here' = "value" /\ there' \in {"word", "quoteEnd"}
  <2>1. here # "beyond"
    BY <1>1, <1>4, LexBeyond
  <2>2. here \in Outsides
    BY <1>1, <2>1 DEF ScanInv, Together, Reads
  <2>3. here' = "value"
    <3>1. "?" \in Chars
      BY DEF Chars
    <3> QED
      BY <1>1, <2>2, <3>1, LexOutside
  <2>4. ~glued /\ ~Continues(there, literal[1])
    BY <1>1, <1>4
  <2>5. there \in Outsides
    BY <2>1, <2>2, <2>4 DEF ReadsTheSame, Outsides
  <2> QED
    BY <1>1, <1>2, <2>3, <2>4, <2>5 DEF ReadsAs, Finished
<1> QED
  BY <1>3, <1>4 DEF Sent, ReadsTheSame

LEMMA SentReading ==
  ASSUME Given, TypeOK, ScanInv, ReadsTheSame, Reading
  PROVE  Sent
<1>1. CASE Top
  BY <1>1, SentOne DEF Top
<1>2. CASE Marker
  BY <1>2, SentMarker
<1>3. CASE InLineComment
  BY <1>3, SentOne DEF InLineComment
<1>4. CASE InStr
  BY <1>4, SentOne DEF InStr
<1>5. CASE InIdent
  BY <1>5, SentOne DEF InIdent
<1>6. CASE InBlockComment
  <2>1. Copy(1) \/ Copy(2)
    BY <1>6 DEF InBlockComment
  <2>2. here # "value"
    BY <1>6 DEF InBlockComment, At, ScanInv, Together, Reads
  <2> QED
    BY <2>1, <2>2, SentOne, SentTwo
<1> QED
  BY <1>1, <1>2, <1>3, <1>4, <1>5, <1>6 DEF Reading

ReadInv == Given /\ TypeOK /\ ScanInv /\ ReadsTheSame

LEMMA ReadStep == ReadInv /\ [Next]_vars => ReadInv'
<1> SUFFICES ASSUME ReadInv, [Next]_vars
             PROVE  ReadInv'
  OBVIOUS
<1> USE DEF ReadInv
<1>1. ScanInv'
  BY ScanStep
<1>2. UNCHANGED <<sql, row>>
  BY DEF Next, Top, Marker, InLineComment, InBlockComment, InStr, InIdent,
         Copy, MoreMarkers, Finish, vars
<1>3. Given'
  BY <1>2 DEF Given
<1>4. CASE Reading
  <2>1. Sent
    BY <1>4, SentReading
  <2>2. idx' \in 0..Len(row)
    <3>1. Len(row) \in Nat
      BY StatementsAssumption DEF Given
    <3>2. idx' = idx \/ (idx < Len(row) /\ idx' = idx + 1)
      BY <1>4 DEF Reading, Top, Marker, InLineComment, InBlockComment, InStr, InIdent, Copy
    <3> QED
      BY <3>1, <3>2 DEF TypeOK
  <2>3. result' = result
    BY <1>4 DEF Reading, Top, Marker, InLineComment, InBlockComment, InStr, InIdent, Copy
  <2> QED
    BY <1>1, <1>2, <1>3, <2>1, <2>2, <2>3 DEF Sent, TypeOK, ScanInv, ScanType
<1>5. CASE Ending \/ UNCHANGED vars
  BY <1>1, <1>3, <1>5 DEF Ending, MoreMarkers, Finish, vars, TypeOK, ReadsTheSame
<1> QED
  BY <1>4, <1>5 DEF Next, Reading, Ending

LEMMA ReadInit == Init => ReadInv
<1> SUFFICES ASSUME Init
             PROVE  ReadInv
  OBVIOUS
<1>1. Given
  BY DEF Init, Given
<1>2. sql \in Seq(Chars) /\ Len(row) \in Nat
  BY StatementsAssumption DEF Init
<1>3. 1 \in 1..(Len(sql) + 1) /\ 0 \in 0..Len(row)
  BY <1>2
<1>4. TypeOK /\ ReadsTheSame
  BY <1>2, <1>3 DEF Init, TypeOK, ReadsTheSame, Readings, Outsides, Modes
<1> QED
  BY <1>1, <1>4, ScanInit DEF ReadInv

LEMMA AlwaysRead == Spec => []ReadInv
BY ReadInit, ReadStep, PTL DEF Spec

\* However long the statement and whatever is bound, wherever its markers stand:
\* every literal is read as a finished value, and what follows it as the
\* application wrote it, unless the literal touched a neighbour.
THEOREM SentAsWritten == Spec => []ScanOK
<1>1. ReadInv => ScanOK
  BY DEF ReadInv, ScanOK
<1> QED
  BY <1>1, AlwaysRead, PTL

\* Of whatever is bound: a literal says to DuckDB the text or the number it was
\* made from, with every quote, sign, digit and place behind the point, and only
\* a decimal of a negative scale, other than 0, does not.
THEOREM LiteralsExact == Spec => []ExactOrScaled
<1>1. ReadInv => ExactOrScaled
  <2> SUFFICES ASSUME ReadInv, NEW k \in 1..idx
               PROVE  LET v == Referent(row[k]) IN
                        Means(v, Literal(row[k]))
                          <=> ~(v.valid /\ v.type = "decimal" /\ v.scale < 0 /\ v.n # 0)
    BY DEF ExactOrScaled
  <2>1. PICK s \in Statements : sql = s.sql /\ row = s.row
    BY DEF ReadInv, Given
  <2>2. k \in 1..Len(s.row)
    <3>1. Len(s.row) \in Nat /\ idx \in 0..Len(s.row)
      BY <2>1, StatementsAssumption DEF ReadInv, TypeOK
    <3> QED
      BY <3>1
  <2>3. IsPlain(Referent(row[k]))
    BY <2>1, <2>2, StatementsAssumption
  <2>4. Literal(row[k]) = Rendered(Referent(row[k]))
    BY DEF Literal, ScalarAt, Rendered
  <2> QED
    BY <2>3, <2>4, LiteralMeans
<1> QED
  BY <1>1, AlwaysRead, PTL
=============================================================================
