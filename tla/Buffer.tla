------------------------------- MODULE Buffer -------------------------------
(***************************************************************************)
(* libutils/buffer.c: a growing piece of memory that is a C string or an   *)
(* array of bytes.  The memory is a function on its offsets; what was      *)
(* allocated and never written is Junk.                                    *)
(***************************************************************************)
EXTENDS Text

CONSTANTS BufferBytes,       \* characters that are added, NUL among them
          BUFFER_CAPACITY,   \* DEFAULT_BUFFER_CAPACITY
          MAX_BUFFER         \* bound: bytes in the buffer

Junk == "junk"

VARIABLES bf,                \* struct Buffer
          bytes,             \* what it should contain, by the operations made
          sealed,            \* an operation on strings was the last to write
          pierced            \* a NUL was added as a character of the string

bufferVars == <<bf, bytes, sealed, pierced>>

RECURSIVE PowerFrom(_, _)
PowerFrom(v, p) == IF p >= v THEN p ELSE PowerFrom(v, 2 * p)
UpperPowerOfTwo(v) == PowerFrom(v, 1)

\* What comes before the first NUL.
RECURSIVE CString(_)
CString(s) == IF s = <<>> \/ s[1] = NUL THEN <<>> ELSE <<s[1]>> \o CString(Tail(s))

Memory(size) == [i \in 0..(size - 1) |-> Junk]
Poke(b, at, s) == [b EXCEPT !.mem = [i \in DOMAIN @ |-> IF i \in at..(at + Len(s) - 1) THEN s[i - at + 1] ELSE @[i]]]
Contents(b) == [i \in 1..b.used |-> b.mem[i - 1]]

-----------------------------------------------------------------------------
BufferNewWithCapacity(n) ==
  Poke([mem |-> Memory(n), capacity |-> n, used |-> 0, mode |-> "CSTRING"], 0, <<NUL>>)

\* Mutant: memory that is exactly needed is not enlarged.
ExpandIfNeededLate(b, needed) ==
  LET new == UpperPowerOfTwo(needed + 1)
  IN  IF needed <= b.capacity THEN b
      ELSE [b EXCEPT !.capacity = new, !.mem = [i \in 0..(new - 1) |-> IF i \in DOMAIN @ THEN @[i] ELSE Junk]]

ExpandIfNeeded(b, needed) ==
  LET new == UpperPowerOfTwo(needed + 1)
  IN  IF needed < b.capacity THEN b
      ELSE [b EXCEPT !.capacity = new, !.mem = [i \in 0..(new - 1) |-> IF i \in DOMAIN @ THEN @[i] ELSE Junk]]

BufferAppendString(b, s) ==
  [Poke(ExpandIfNeeded(b, b.used + Len(s) + 1), b.used, Append(s, NUL)) EXCEPT !.used = @ + Len(s)]

\* A string ends at its NUL, bytes do not, and get none behind them.
BufferAppend(b, s) ==
  IF s = <<>> THEN b
  ELSE IF b.mode = "CSTRING" THEN BufferAppendString(b, CString(s))
  ELSE [Poke(ExpandIfNeeded(b, b.used + Len(s)), b.used, s) EXCEPT !.used = @ + Len(s)]

BufferAppendChar(b, c) ==
  IF b.used < b.capacity - 1
  THEN [Poke(b, b.used, IF b.mode = "CSTRING" THEN <<c, NUL>> ELSE <<c>>) EXCEPT !.used = @ + 1]
  ELSE BufferAppend(b, <<c>>)

BufferNewFrom(s) == BufferAppend(BufferNewWithCapacity(Len(s) + 1), s)

BufferClear(b) == [Poke(b, 0, <<NUL>>) EXCEPT !.used = 0]

BufferSet(b, s) == BufferAppend(BufferClear(b), s)

\* vsnprintf behind what is there, after a first try that tells the length;
\* both modes get the NUL.
BufferAppendF(b, s) ==
  LET room == IF Len(s) >= b.capacity - b.used THEN ExpandIfNeeded(b, b.used + Len(s)) ELSE b
  IN  [Poke(room, b.used, Append(s, NUL)) EXCEPT !.used = @ + Len(s)]

\* BufferPrintf and BufferVPrintf
BufferPrintf(b, s) ==
  LET room == IF Len(s) >= b.capacity THEN ExpandIfNeeded(b, Len(s)) ELSE b
  IN  [Poke(room, 0, Append(s, NUL)) EXCEPT !.used = Len(s)]

BufferTrimToMaxLength(b, max) == IF b.used > max THEN [Poke(b, max, <<NUL>>) EXCEPT !.used = max] ELSE b

\* BufferFilter makes a C string of default capacity, character by character.  filter
\* is the set of characters it is true of.
BufferFilter(b, filter, invert) ==
  FoldLeft(LAMBDA f, c : IF (c \in filter) # invert THEN BufferAppendChar(f, c) ELSE f,
           BufferNewWithCapacity(BUFFER_CAPACITY), Contents(b))

\* CanonifyNameInPlace goes to the first NUL in the memory.
BufferCanonify(b) ==
  LET end == CHOOSE i \in DOMAIN b.mem : b.mem[i] = NUL /\ \A j \in 0..(i - 1) : b.mem[j] # NUL
  IN  [b EXCEPT !.mem = [i \in DOMAIN @ |-> IF i < end /\ ~isalnum(@[i]) THEN "_" ELSE @[i]]]

BufferSetMode(b, mode) ==
  [b EXCEPT !.mode = mode, !.used = IF mode = "CSTRING" THEN Len(CString(Contents(b))) ELSE @]

-----------------------------------------------------------------------------
SignedCode(c) == IF Code[c] > 127 THEN Code[c] - 256 ELSE Code[c]

\* The byte loops: the first difference, then the length.
ByteCompare(x, y) ==
  LET diff == {i \in DOMAIN x \cap DOMAIN y : x[i] # y[i]}
      i == CHOOSE i \in diff : \A j \in diff : i <= j
  IN  IF diff # {} THEN (IF SignedCode(x[i]) < SignedCode(y[i]) THEN -1 ELSE 1)
      ELSE IF Len(x) < Len(y) THEN -1 ELSE IF Len(x) > Len(y) THEN 1 ELSE 0

BufferCompare(b1, b2) ==
  IF b1.mode = "CSTRING" /\ b2.mode = "CSTRING"
  THEN strcmp(CString([i \in 1..b1.capacity |-> b1.mem[i - 1]]), CString([i \in 1..b2.capacity |-> b2.mem[i - 1]]))
  ELSE ByteCompare(Contents(b1), Contents(b2))

-----------------------------------------------------------------------------
\* A match: the text before it, the text itself and the text behind it, and the
\* capture groups.  The regular expression is external.
Specials == {"+", "backquote", "'", "&"}
SpecialAt(s, i) == s[i] = "$" /\ At(s, i + 1) \in Specials
ReferenceAt(s, i) == s[i] \in {"$", "\\"} /\ isdigit(At(s, i + 1))

SpecialText(c, m) ==
  CASE c = "+" -> Decimal(Len(m.groups)) [] c = "backquote" -> m.before
    [] c = "'" -> m.after                [] c = "&" -> m.text

RECURSIVE ExpandSpecials(_, _, _)
ExpandSpecials(s, i, m) ==
  IF i > Len(s) THEN <<>>
  ELSE IF SpecialAt(s, i) THEN SpecialText(s[i + 1], m) \o ExpandSpecials(s, i + 2, m)
  ELSE <<s[i]>> \o ExpandSpecials(s, i + 1, m)

\* The digits from a position on.
RECURSIVE DigitsAt(_, _)
DigitsAt(s, i) == IF isdigit(At(s, i)) THEN <<s[i]>> \o DigitsAt(s, i + 1) ELSE <<>>

\* References to groups that do not exist are deleted.
RECURSIVE DropReferences(_, _, _)
DropReferences(s, i, n_captures) ==
  IF i > Len(s) THEN <<>>
  ELSE IF s[i] = "$" /\ isdigit(At(s, i + 1)) /\ Value(DigitsAt(s, i + 1)) > n_captures
       THEN DropReferences(s, i + 1 + Len(DigitsAt(s, i + 1)), n_captures)
  ELSE <<s[i]>> \o DropReferences(s, i + 1, n_captures)

\* One digit decides whether a reference is too high.
ExpandCFESpecialReplacements(substitute, m) ==
  LET n_captures == Len(m.groups)
      plain == ExpandSpecials(substitute, 1, m)
      dollars == IF \E i \in DOMAIN substitute : substitute[i] = "\\" /\ ReferenceAt(substitute, i)
                 THEN [i \in DOMAIN plain |-> IF ReferenceAt(plain, i) THEN "$" ELSE plain[i]] ELSE plain
  IN  IF \E i \in DOMAIN substitute : ReferenceAt(substitute, i)
                                       /\ Code[substitute[i + 1]] - 48 > n_captures
      THEN DropReferences(dollars, 1, n_captures) ELSE dollars

\* pcre2_substitute of what is left: $n is group n, group 0 the match.
RECURSIVE Pcre2Substitute(_, _, _)
Pcre2Substitute(s, i, m) ==
  LET n == Value(DigitsAt(s, i + 1))
  IN  IF i > Len(s) THEN <<>>
      ELSE IF s[i] # "$" THEN <<s[i]>> \o Pcre2Substitute(s, i + 1, m)
      ELSE IF DigitsAt(s, i + 1) = <<>> \/ n > Len(m.groups) THEN <<"error">>
      ELSE (IF n = 0 THEN m.text ELSE m.groups[n]) \o Pcre2Substitute(s, i + 1 + Len(DigitsAt(s, i + 1)), m)

\* What a substitution should give, read from left to right.
RECURSIVE Replacement(_, _, _)
Replacement(s, i, m) ==
  LET n == Code[At(s, i + 1)] - 48
  IN  IF i > Len(s) THEN <<>>
      ELSE IF SpecialAt(s, i) THEN SpecialText(s[i + 1], m) \o Replacement(s, i + 2, m)
      ELSE IF ReferenceAt(s, i)
           THEN (IF n = 0 THEN m.text ELSE IF n <= Len(m.groups) THEN m.groups[n] ELSE <<>>)
                  \o Replacement(s, i + 2, m)
      ELSE <<s[i]>> \o Replacement(s, i + 1, m)

\* Every $ and backslash starts a sequence, and no digit, nor the number of
\* groups, follows a reference: it would be read as a part of it.
Unambiguous(s) ==
  \A i \in DOMAIN s : s[i] \in {"$", "\\"} =>
    /\ SpecialAt(s, i) \/ ReferenceAt(s, i)
    /\ ReferenceAt(s, i) => ~isdigit(At(s, i + 2)) /\ ~StartsWithAt(s, i + 2, <<"$", "+">>)

\* The expansion in steps (sequences first, then backslashes, then missing
\* groups) and the substitution give what the sequences stand for.
ReplacementExact(s, m) ==
  Unambiguous(s) => Pcre2Substitute(ExpandCFESpecialReplacements(s, m), 1, m) = Replacement(s, 1, m)

-----------------------------------------------------------------------------
Shorts == {<<>>} \cup {<<x>> : x \in BufferBytes} \cup {<<x, y>> : x, y \in BufferBytes}
ShortStrings == {s \in Shorts : NUL \notin Range(s)}
InMode(s) == IF bf.mode = "CSTRING" THEN CString(s) ELSE s

\* The buffer b, content s, and whether a NUL is sure to follow.
Becomes(b, s, nul) ==
  /\ Len(s) <= MAX_BUFFER
  /\ bf' = b /\ bytes' = s /\ sealed' = nul

BufferInit ==
  /\ bf = BufferNewWithCapacity(BUFFER_CAPACITY) /\ bytes = <<>>
  /\ sealed = TRUE /\ pierced = FALSE

AppendBytes(s) ==
  /\ Becomes(BufferAppend(bf, s), bytes \o InMode(s), IF s = <<>> THEN sealed ELSE bf.mode = "CSTRING")
  /\ UNCHANGED pierced

\* A NUL is counted as a character of a string as long as there is room, and not
\* added where the memory has to be enlarged.
AppendOne(c) ==
  LET room == bf.used < bf.capacity - 1
  IN  /\ Becomes(BufferAppendChar(bf, c), bytes \o (IF room THEN <<c>> ELSE InMode(<<c>>)), bf.mode = "CSTRING")
      /\ pierced' = (pierced \/ (bf.mode = "CSTRING" /\ c = NUL))

AppendText(s) == Becomes(BufferAppendString(bf, s), bytes \o s, TRUE) /\ UNCHANGED pierced
AppendPrinted(s) == Becomes(BufferAppendF(bf, s), bytes \o s, TRUE) /\ UNCHANGED pierced
Printed(s) == Becomes(BufferPrintf(bf, s), s, TRUE) /\ pierced' = FALSE
SetTo(s) == Becomes(BufferSet(bf, s), InMode(s), s = <<>> \/ bf.mode = "CSTRING") /\ pierced' = FALSE
Trim(max) ==
  /\ Becomes(BufferTrimToMaxLength(bf, max), SubSeq(bytes, 1, IF bf.used > max THEN max ELSE bf.used),
             sealed \/ bf.used > max)
  /\ UNCHANGED pierced

\* What stays is what the filter is true of, or false of with invert.  If a NUL is
\* to stay, the string that BufferFilter makes of it says what is left.
BufferRewrite(filter, invert) ==
  LET f == BufferFilter(bf, filter, invert)
      stays == SelectSeq(bytes, LAMBDA c : (c \in filter) # invert)
  IN  /\ Becomes(BufferSet(bf, Contents(f)),
                 IF NUL \in Range(stays) THEN InMode(Contents(f)) ELSE stays,
                 f.used = 0 \/ bf.mode = "CSTRING")
      /\ pierced' = FALSE

Canonify ==
  /\ \E i \in 0..bf.used : bf.mem[i] = NUL
  /\ UNCHANGED pierced
  /\ Becomes(BufferCanonify(bf), [i \in DOMAIN bytes |-> IF i <= Len(CString(bytes)) /\ ~isalnum(bytes[i])
                                                         THEN "_" ELSE bytes[i]], sealed)

SetMode(mode) ==
  /\ Becomes(BufferSetMode(bf, mode), IF mode = "CSTRING" THEN CString(bytes) ELSE bytes,
             sealed \/ (mode = "CSTRING" /\ NUL \in Range(bytes)))
  /\ pierced' = FALSE

\* BufferCopy: the caller goes on with the copy, a C string.
BufferCopy == Becomes(BufferNewFrom(Contents(bf)), CString(bytes), TRUE) /\ pierced' = FALSE

BufferNext ==
  \/ \E s \in Shorts : AppendBytes(s) \/ SetTo(s)
  \/ \E s \in ShortStrings : AppendText(s) \/ AppendPrinted(s) \/ Printed(s)
  \/ \E c \in BufferBytes : AppendOne(c)
  \/ \E max \in 0..MAX_BUFFER : Trim(max)
  \/ \E mode \in {"CSTRING", "BYTEARRAY"} : SetMode(mode)
  \/ \E filter \in SUBSET BufferBytes, invert \in BOOLEAN : BufferRewrite(filter, invert)
  \/ Canonify \/ BufferCopy

-----------------------------------------------------------------------------
\* Whatever the operations and switches of mode, the buffer contains what they
\* should have put there and has room for one more byte; in string mode that
\* byte is the NUL, unless the mode was switched back behind bytes without one
\* and nothing was written since.  A string has a NUL inside only if that was
\* added as a character.  Comparison is an order on the contents, and without
\* such a NUL equality is that of the contents.
BufferExact ==
  LET others == {[BufferNewFrom(s) EXCEPT !.mode = m] : s \in ShortStrings, m \in {"CSTRING", "BYTEARRAY"}}
  IN  /\ bf.used < bf.capacity /\ bf.capacity = Cardinality(DOMAIN bf.mem)
      /\ Contents(bf) = bytes
      /\ sealed => bf.mem[bf.used] = NUL
      /\ bf.mode = "CSTRING" /\ ~pierced => NUL \notin Range(bytes)
      /\ sealed => \A b \in others :
            /\ BufferCompare(bf, b) = 0 - BufferCompare(b, bf)
            /\ ~pierced => (BufferCompare(bf, b) = 0) = (Contents(bf) = Contents(b))
=============================================================================
