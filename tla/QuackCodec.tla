----------------------------- MODULE QuackCodec -----------------------------
(***************************************************************************)
(* internal/codec: how integers, strings and fields are written as bytes,  *)
(* and the reader, whose first error makes every later read a no-op.       *)
(*                                                                         *)
(* Widths are to scale.  A byte has Group bits of a LEB128 number and one  *)
(* that says whether more follow (7 and 1); Go's uint64 has Width bits, as *)
(* many as so many whole groups and one bit more (64 = 9 * 7 + 1).         *)
(***************************************************************************)
EXTENDS Integers, Sequences
LOCAL INSTANCE SequencesExt
LOCAL INSTANCE FiniteSetsExt

CONSTANTS
  Group,      \* bits of a number in a byte of LEB128
  Width,      \* bits of an integer
  MaxAlloc    \* bound: elements Go can make a slice of

ASSUME WidthAssumption ==
  /\ Group \in Nat /\ Group > 1
  /\ Width \in Nat /\ Width > Group /\ Width % Group = 1
  /\ MaxAlloc \in Nat /\ 16 * MaxAlloc < 2 ^ Width

Radix == 2 ^ Group                   \* also the bit that says more follow
Bytes == 0..(2 * Radix - 1)
FieldEnd == 4 * Radix * Radix - 1    \* 0xFFFF
MaxInt == 2 ^ (Width - 1) - 1
Invalid == 2 ^ Width - 1             \* OptionalIndexInvalid

Unsigned(x) == x % (2 ^ Width)
Signed(x) == IF Unsigned(x) > MaxInt THEN Unsigned(x) - 2 ^ Width ELSE Unsigned(x)

\* What may be absent is a set of at most one element.
Nothing == {}
Just(x) == {x}
Get(s) == CHOOSE x \in s : TRUE
----------------------------------------------------------------------------
(***************************************************************************)
(* BinaryWriter.  Nothing it is asked to write makes it fail.              *)
(***************************************************************************)
WriteFieldID(id) == <<id % (2 * Radix), id \div (2 * Radix)>>
WriteField(id, body) == WriteFieldID(id) \o body
WriteObject(body) == body \o WriteFieldID(FieldEnd)

WriteBool(v) == IF v THEN <<1>> ELSE <<0>>

RECURSIVE WriteULEB128(_)
WriteULEB128(v) ==
  IF v < Radix
    THEN <<v>>
    ELSE <<Radix + (v % Radix)>> \o WriteULEB128(v \div Radix)

\* Mistake: the sign is not looked for in the last group.
RECURSIVE SlipUnsigned(_)
SlipUnsigned(v) ==
  IF v \div Radix \in {0, -1}
    THEN <<v % Radix>>
    ELSE <<Radix + (v % Radix)>> \o SlipUnsigned(v \div Radix)

\* \div and % round down, as >> and & do on a negative number.
RECURSIVE WriteSLEB128(_)
WriteSLEB128(v) ==
  LET group == v % Radix  rest == v \div Radix  signBitSet == group >= Radix \div 2
  IN  IF (rest = 0 /\ ~signBitSet) \/ (rest = -1 /\ signBitSet)
        THEN <<group>>
        ELSE <<Radix + group>> \o WriteSLEB128(rest)

WriteString(s) == WriteULEB128(Len(s)) \o s

WriteList(items, Write(_)) ==
  WriteULEB128(Len(items)) \o FlattenSeq([i \in DOMAIN items |-> Write(items[i])])

WriteHugeInt(h) == WriteSLEB128(h.upper) \o WriteULEB128(h.lower)
----------------------------------------------------------------------------
(***************************************************************************)
(* BinaryReader: the bytes, the offset, whether a read has failed or the   *)
(* program has panicked, and the value of the last read.                   *)
(***************************************************************************)
NewReader(bytes) == [bytes |-> bytes, at |-> 0, err |-> "none", v |-> 0]

Ok(r) == r.err = "none"
EOF(r) == r.at >= Len(r.bytes)
Fail(r) == IF Ok(r) THEN [r EXCEPT !.err = "error"] ELSE r
Panic(r) == [r EXCEPT !.err = "panic"]
Yield(r, v) == [r EXCEPT !.v = v]
Check(r, ok) == IF ok THEN r ELSE Fail(r)

\* An error only when bytes are left, although some callers use it to fail.
AssertEOF(r) == Check(r, EOF(r))

\* make([]T, n)
Make(r, n) == IF n > MaxAlloc THEN Panic(r) ELSE r

\* What a read does with the value of the one before, if that has not failed.
After(q, Do(_)) == IF Ok(q) THEN Do(q) ELSE q

\* What is done next in any case, with the value of a read or the zero it left.
Then(q, Do(_)) == Do(q)

\* ensure, then the bytes up to end: the sum may have wrapped around, and bytes
\* that are not there cannot be made a slice of.
Advance(r, end) ==
  CASE end > Len(r.bytes) -> Fail(r)
    [] end < 0 -> Panic(r)
    [] OTHER -> [r EXCEPT !.at = end, !.v = SubSeq(r.bytes, r.at + 1, end)]

ReadBytes(r, n) == After(r, LAMBDA q : Advance(q, Signed(q.at + n)))

ReadFieldID(r) == After(ReadBytes(r, 2), LAMBDA q : Yield(q, q.v[1] + 2 * Radix * q.v[2]))

ReadBool(r) ==
  After(ReadBytes(r, 1), LAMBDA q : Yield(Check(q, q.v[1] \in {0, 1}), q.v[1] = 1))

MaxGroups == Width \div Group + 1    \* 10

\* The groups of the number at the offset, the last one without the bit; none
\* if the input or the number does not end.
Groups(r) ==
  LET rest == SubSeq(r.bytes, r.at + 1, Min({Len(r.bytes), r.at + MaxGroups}))
      ends == {i \in DOMAIN rest : rest[i] < Radix}
  IN  IF ends = {} THEN <<>> ELSE SubSeq(rest, 1, Min(ends))

\* The bits beyond the width are shifted out.
Spelled(groups) ==
  FoldRight(LAMBDA b, sum : (b % Radix) + Radix * sum, groups, 0)

Take(r, groups, Number(_)) ==
  IF groups = <<>> THEN Fail(r)
                   ELSE [r EXCEPT !.at = @ + Len(groups), !.v = Number(groups)]

\* Mistake: the groups are added up in a wider integer.
SlipWider(r) == After(r, LAMBDA q : Take(q, Groups(q), Spelled))

ReadULEB128(r) ==
  After(r, LAMBDA q : Take(q, Groups(q), LAMBDA groups : Unsigned(Spelled(groups))))

ReadULEB128Int(r) == After(ReadULEB128(r), LAMBDA q : Check(q, q.v <= MaxInt))

\* The sign is that of the last group, if it ends below the width.
SignBits(groups) ==
  IF Len(groups) * Group < Width /\ groups[Len(groups)] >= Radix \div 2
    THEN Radix ^ Len(groups) ELSE 0
ReadSLEB128(r) ==
  After(r, LAMBDA q :
    Take(q, Groups(q), LAMBDA groups : Signed(Spelled(groups) - SignBits(groups))))

ReadString(r) == After(ReadULEB128Int(r), LAMBDA q : ReadBytes(q, q.v))

ReadHugeInt(r) ==
  After(ReadSLEB128(r), LAMBDA u :
    After(ReadULEB128(u), LAMBDA l : Yield(l, [upper |-> u.v, lower |-> l.v])))
============================================================================
