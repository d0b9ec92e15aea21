------------------------------ MODULE Strings -------------------------------
(***************************************************************************)
(* libutils/string_lib.c: the operations on C strings.  A result that is   *)
(* written to a buffer of a given size is the string in the buffer.        *)
(* Positions count from 0 in arguments and results, as in the code.        *)
(***************************************************************************)
EXTENDS Text

CONSTANTS LONG_BITS,         \* width of long and of int64_t
          INT_PRINT_SIZE,    \* PRINTSIZE(INT_MAX)
          SHA1_LEN           \* CF_SHA1_LEN

NullString == <<NUL>>

Cut(s, n) == SubSeq(s, 1, IF n < Len(s) THEN n ELSE Len(s))

ToLower(c) == tolower(c)
\* Whatever is no digit, punctuation or upper case letter is moved by 'A' - 'a':
\* a space becomes NUL.
ToUpper(c) == IF isdigit(c) \/ ispunct(c) \/ isupper(c) THEN c ELSE CharOf((Code[c] - 32) % 256)

ToLowerStr(s) == [i \in DOMAIN s |-> ToLower(s[i])]
ToUpperStr(s) == [i \in DOMAIN s |-> ToUpper(s[i])]

StringCopy(from, size) ==
  [to |-> Cut(from, size - 1), ret |-> IF Len(from) >= size THEN size ELSE Len(from)]

\* One argument is NULL.
NullCompare(a, b) == IF a # NullString THEN 1 ELSE -1

SafeCompare(a, b, compare(_, _)) ==
  IF a = b THEN 0 ELSE IF a # NullString /\ b # NullString THEN compare(a, b) ELSE NullCompare(a, b)

StringSafeCompare(a, b) == SafeCompare(a, b, strcmp)
StringSafeCompareN(a, b, n) == SafeCompare(a, b, LAMBDA x, y : strcmp(Cut(x, n), Cut(y, n)))
StringSafeCompare_IgnoreCase(a, b) == SafeCompare(a, b, LAMBDA x, y : strcmp(ToLowerStr(x), ToLowerStr(y)))
StringSafeCompareN_IgnoreCase(a, b, n) ==
  SafeCompare(a, b, LAMBDA x, y : strcmp(ToLowerStr(Cut(x, n)), ToLowerStr(Cut(y, n))))

-----------------------------------------------------------------------------
\* strstr from a position on: the first occurrence, or none.
Occurrences(s, from, sub) == {i \in from..Len(s) : StartsWithAt(s, i + 1, sub)}
First(set) == CHOOSE i \in set : \A j \in set : i <= j

RECURSIVE ReplaceFrom(_, _, _, _)
ReplaceFrom(s, from, search, replace) ==
  LET found == Occurrences(s, from, search)
  IN  IF found = {} THEN From(s, from + 1)
      ELSE SubSeq(s, from + 1, First(found)) \o replace
             \o ReplaceFrom(s, First(found) + Len(search), search, replace)

SearchAndReplace(s, search, replace) == IF search = <<>> THEN s ELSE ReplaceFrom(s, 0, search, replace)

\* Arguments that are NULL are skipped.
StringConcatenate(strings) == Joined(SelectSeq(strings, LAMBDA x : x # NullString))

\* Positions of the first and the last byte that are copied.  end is compared as an
\* unsigned number: a negative one is large, and so is source_len - 1 of an empty
\* source, whose end stays where the caller wants it.
SubstringBounds(s, start, len) ==
  LET end == IF len < 0 THEN Len(s) + len - 1 ELSE start + len - 1
  IN  <<IF start < 0 THEN Len(s) + start ELSE start,
        IF s # <<>> /\ (end < 0 \/ end > Len(s) - 1) THEN Len(s) - 1 ELSE end>>

\* What is copied is a string up to its first NUL.
StringSubstring(s, start, len) ==
  LET b == SubstringBounds(s, start, len)
      copy == [i \in 1..(b[2] - b[1] + 1) |-> At(s, b[1] + i)]
  IN  IF len = 0 \/ b[1] > b[2] THEN <<>>
      ELSE Cut(copy, First({i \in 0..Len(copy) : i = Len(copy) \/ copy[i + 1] = NUL}))

StringIsNumeric(s) == \A i \in DOMAIN s : isdigit(s[i])
StringIsPrintable(s) == \A i \in DOMAIN s : CharIsPrintableAscii(s[i])
StringIsSHA1Hex(s) == Len(s) = 2 * SHA1_LEN /\ \A i \in DOMAIN s : isxdigit(s[i])
EmptyString(s) == \A i \in DOMAIN s : isspace(s[i])

-----------------------------------------------------------------------------
\* strtol and strtoul: white space, a sign, digits.  value is not cut to the
\* width yet, end is where the digits end, 0 when there are none.
strto(s) ==
  LET solid == {i \in DOMAIN s : ~isspace(s[i])}
      sign == IF solid = {} THEN Len(s) + 1 ELSE First(solid)
      first == IF At(s, sign) \in {"-", "+"} THEN sign + 1 ELSE sign
      last == First({i \in first..(Len(s) + 1) : ~isdigit(At(s, i))} \cup {Len(s) + 1})
      digits == SubSeq(s, first, last - 1)
  IN  [end |-> IF digits = <<>> THEN 0 ELSE last - 1,
       value |-> IF At(s, sign) = "-" THEN 0 - Value(digits) ELSE Value(digits)]

LONG_MAX == 2^(LONG_BITS - 1) - 1
LONG_MIN == -LONG_MAX - 1
ULONG_MAX == 2^LONG_BITS - 1

Terminated(s, end) == At(s, end + 1) = NUL \/ isspace(At(s, end + 1))

\* The error code and *value_out, 0 where that is left alone.
StringToLong(s) ==
  LET n == strto(s)
  IN  IF n.value > LONG_MAX \/ n.value < LONG_MIN THEN [err |-> "ERANGE", value |-> 0]
      ELSE IF n.end = 0 THEN [err |-> "-81", value |-> 0]
      ELSE IF ~Terminated(s, n.end) THEN [err |-> "-83", value |-> 0]
      ELSE [err |-> "0", value |-> n.value]

\* int64_t is as wide as long.
StringToInt64(s) == StringToLong(s)

StringDecimalToLong(s) ==
  LET dots == {i \in DOMAIN s : s[i] = "."}
      len_of_int_part == IF dots = {} THEN Len(s) ELSE First(dots) - 1
  IN  IF len_of_int_part > INT_PRINT_SIZE THEN [err |-> "-84", value |-> 0]
      ELSE IF len_of_int_part = 0 THEN StringToLong(s)
      ELSE StringToLong(Cut(s, len_of_int_part))

StringToLongDefaultOnError(s, default) == LET r == StringToLong(s) IN IF r.err = "0" THEN r.value ELSE default

\* strtoul wraps a negative number around; all but "-0" are then refused.
StringToUlong(s) ==
  LET n == strto(s)
  IN  IF n.value > ULONG_MAX \/ n.value < 0 THEN [err |-> "ERANGE", value |-> 0]
      ELSE IF n.end = 0 THEN [err |-> "-81", value |-> 0]
      ELSE IF ~Terminated(s, n.end) THEN [err |-> "-83", value |-> 0]
      ELSE [err |-> "0", value |-> n.value]

StringFromLong(n) == Decimal(n)

StringBytesToHex(bytes, dst_size) ==
  LET n == First({i \in 0..Len(bytes) : i = Len(bytes) \/ 2 * i + 2 >= dst_size})
  IN  Joined([i \in 1..n |-> <<HexDigit(bytes[i] \div 16), HexDigit(bytes[i] % 16)>>])

-----------------------------------------------------------------------------
IsStrIn(s, strs) == \E i \in DOMAIN strs : strcmp(s, strs[i]) = 0
IsStrCaseIn(s, strs) == \E i \in DOMAIN strs : strcmp(ToLowerStr(s), ToLowerStr(strs[i])) = 0

\* A separator behind a backslash is not counted, and the backslash counts for
\* nothing else.
RECURSIVE CountCharFrom(_, _, _)
CountCharFrom(s, i, sep) ==
  IF i > Len(s) THEN 0
  ELSE IF s[i] = "\\" /\ At(s, i + 1) = sep THEN CountCharFrom(s, i + 2, sep)
  ELSE (IF s[i] = sep THEN 1 ELSE 0) + CountCharFrom(s, i + 1, sep)
CountChar(s, sep) == CountCharFrom(s, 1, sep)

ReplaceChar(s, size, from, to) == [i \in 1..Len(Cut(s, size - 1)) |-> IF s[i] = from THEN to ELSE s[i]]

\* The loop of StringReplaceN: tmp so far and the rest of buf; -1 is overflow.
RECURSIVE ReplaceLoop(_, _, _, _, _, _, _)
ReplaceLoop(buf, idx, tmp, size, find, replace, n) ==
  LET found == Occurrences(buf, idx, find)
      prefix == SubSeq(buf, idx + 1, First(found))
      rest == From(buf, idx + 1)
  IN  IF found = {} \/ n = 0
      THEN IF Len(tmp) + Len(rest) >= size THEN [ret |-> -1, buf |-> buf]
           ELSE [ret |-> Len(tmp \o rest), buf |-> tmp \o rest]
      ELSE IF Len(tmp) + Len(prefix) + Len(replace) >= size THEN [ret |-> -1, buf |-> buf]
      ELSE ReplaceLoop(buf, First(found) + Len(find), tmp \o prefix \o replace, size, find, replace, n - 1)

\* Mutant: room for the NUL is not counted.
ReplaceNTight(buf, size, find, replace, n) ==
  IF n = 0 \/ Occurrences(buf, 0, find) = {} THEN [ret |-> 0, buf |-> buf]
  ELSE ReplaceLoop(buf, 0, <<>>, size + 1, find, replace, n)

StringReplaceN(buf, size, find, replace, n) ==
  IF n = 0 \/ Occurrences(buf, 0, find) = {} THEN [ret |-> 0, buf |-> buf]
  ELSE ReplaceLoop(buf, 0, <<>>, size, find, replace, n)

StringReplace(buf, size, find, replace) == StringReplaceN(buf, size, find, replace, size)

ReplaceTrailingChar(s, from, to) ==
  IF s # <<>> /\ Last(s) = from THEN [s EXCEPT ![Len(s)] = to] ELSE s

\* seps is a set here: strchr also finds the NUL, which no token reaches.
StringCountTokens(s, seps) ==
  Cardinality({i \in DOMAIN s : s[i] \notin seps /\ (i = 1 \/ s[i - 1] \in seps)})

\* The next token from position from on: its start and its length.
NoToken == [start |-> -1, len |-> 0]
StringNextToken(s, from, seps) ==
  LET in == {i \in from..(Len(s) - 1) : s[i + 1] \notin seps}
      end == First({i \in First(in)..Len(s) : i = Len(s) \/ s[i + 1] \in seps})
  IN  IF in = {} THEN NoToken ELSE [start |-> First(in), len |-> end - First(in)]

RECURSIVE TokenFrom(_, _, _, _)
TokenFrom(s, from, index, seps) ==
  LET ref == StringNextToken(s, from, seps)
  IN  IF index = 0 \/ ref = NoToken THEN ref ELSE TokenFrom(s, ref.start + ref.len, index - 1, seps)
StringGetToken(s, index, seps) == TokenFrom(s, 0, index, seps)

RECURSIVE SplitFrom(_, _, _)
SplitFrom(s, from, sep) ==
  LET seps == {i \in (from + 1)..Len(s) : s[i] = sep}
  IN  IF seps = {} THEN <<From(s, from + 1)>>
      ELSE <<SubSeq(s, from + 1, First(seps) - 1)>> \o SplitFrom(s, First(seps), sep)
String2StringArray(s, sep) == SplitFrom(s, 0, sep)

\* The copy and the size of the memory it is written to.
EscapeCharCopy(s, to_escape, escape_with) ==
  [out  |-> Joined([i \in DOMAIN s |-> IF s[i] = to_escape THEN <<escape_with, s[i]>> ELSE <<s[i]>>]),
   size |-> Len(s) + CountChar(s, to_escape) + 1]

-----------------------------------------------------------------------------
\* Without the longest end whose characters are in set.
RECURSIVE StripEnd(_, _)
StripEnd(s, set) == IF s # <<>> /\ Last(s) \in set THEN StripEnd(Front(s), set) ELSE s

Spaces == {c \in Chars : isspace(c)}

ScanPastChars(set, s) == From(s, First({i \in 1..(Len(s) + 1) : i > Len(s) \/ s[i] \notin set}))

\* max_length is a length, not a size; a longer string is left alone (-1).
StripTrailingNewline(s, max_length) ==
  IF Len(s) > max_length THEN [ret |-> -1, str |-> s] ELSE [ret |-> 0, str |-> StripEnd(s, {"\n"})]
Chop(s, max_length) ==
  IF Len(s) > max_length THEN [ret |-> -1, str |-> s] ELSE [ret |-> 0, str |-> StripEnd(s, Spaces)]

TrimWhitespace(s) == StripEnd(ScanPastChars(Spaces, s), Spaces)

TrimCSVLineCRLF(s) ==
  IF Len(s) >= 2 /\ s[Len(s) - 1] = "\r" /\ Last(s) = "\n" THEN Cut(s, Len(s) - 2) ELSE s

StringCloseHole(s, start, end) == Cut(s, start) \o From(s, end + 1)

StringEndsWithCase(s, suffix, case_fold) ==
  LET same(a, b) == a = b \/ (case_fold /\ ToLower(a) = ToLower(b))
  IN  /\ Len(suffix) <= Len(s)
      /\ \A i \in DOMAIN suffix : same(s[Len(s) - Len(suffix) + i], suffix[i])

StringStartsWith(s, prefix) == Len(prefix) <= Len(s) /\ StartsWithAt(s, 1, prefix)

\* Position of the first other character, or -1.
memcchr(s, c) == LET other == {i \in 0..(Len(s) - 1) : s[i + 1] # c}
                 IN  IF other = {} THEN -1 ELSE First(other)

StringNotMatchingSetCapped(s, limit, exclude) ==
  LET l == First({i \in 0..Len(s) : i = Len(s) \/ s[i + 1] \in exclude})
  IN  IF l < limit - 1 THEN [capped |-> FALSE, out |-> Cut(s, l)]
      ELSE [capped |-> TRUE, out |-> Cut(s, limit - 1)]

StringAppend(dst, src, n) ==
  [dst |-> Cut(dst \o src, n - 1), ok |-> Len(dst \o src) <= n - 1 \/ src = <<>>]

\* A separator at the end of the path counts once; an overflow changes nothing.
PathAppend(path, size, leaf, sep) ==
  LET dir == IF path # <<>> /\ Last(path) = sep THEN Front(path) ELSE path
  IN  IF Len(dir) + 1 + Len(leaf) >= size THEN [ok |-> FALSE, path |-> path]
      ELSE [ok |-> TRUE, path |-> dir \o <<sep>> \o leaf]

StringCanonify(s) == [i \in DOMAIN s |-> IF isalnum(s[i]) THEN s[i] ELSE "_"]

StringMatchesOption(supplied, longopt, shortopt) ==
  IF Len(supplied) <= 1 THEN FALSE
  ELSE IF Len(supplied) = 2 THEN StringSafeCompare(supplied, shortopt) = 0
  ELSE StringSafeCompareN_IgnoreCase(supplied, longopt, Len(supplied)) = 0

StringFind(s, sub, from, to) ==
  LET found == {i \in from..((IF to < Len(s) THEN to ELSE Len(s)) - 1) : StartsWithAt(s, i + 1, sub)}
  IN  IF found = {} THEN -1 ELSE First(found)

-----------------------------------------------------------------------------
RECURSIVE AllReplaced(_, _, _)
AllReplaced(s, a, b) == IF s = <<>> THEN <<>> ELSE (IF Head(s) = a THEN b ELSE <<Head(s)>>) \o AllReplaced(Tail(s), a, b)

\* Replacing in a buffer gives what replacing in new memory gives whenever that
\* fits with its NUL, and otherwise changes nothing, whichever of the
\* replacements is the one too many.
ReplacingExact(s, find, replace, size) ==
  LET all == SearchAndReplace(s, find, replace)
      r == StringReplace(s, size, find, replace)
  IN  Len(s) < size /\ find # <<>> =>
        IF Occurrences(s, 0, find) = {} THEN r = [ret |-> 0, buf |-> s]
        ELSE IF Len(all) < size THEN r = [ret |-> Len(all), buf |-> all]
        ELSE r.buf = s /\ r.ret = -1

\* The tokens are the maximal runs without a separator, in order, as many as are
\* counted; splitting at a character and joining gives the string back.
SplittingExact(s, seps) ==
  LET n == StringCountTokens(s, seps)
      token(i) == StringGetToken(s, i, seps)
      text(i) == SubSeq(s, token(i).start + 1, token(i).start + token(i).len)
  IN  /\ token(n) = NoToken
      /\ \A i \in 0..(n - 1) : token(i) # NoToken /\ Range(text(i)) \cap seps = {}
      /\ Joined([i \in 1..n |-> text(i - 1)]) = SelectSeq(s, LAMBDA c : c \notin seps)
      /\ \A sep \in seps :
           LET parts == String2StringArray(s, sep)
           IN  /\ Joined([i \in DOMAIN parts |-> IF i = 1 THEN parts[i] ELSE <<sep>> \o parts[i]]) = s
               /\ \A i \in DOMAIN parts : sep \notin Range(parts[i])

\* Where an escaped copy is longer than its memory, a separator stood behind a
\* backslash: CountChar takes it for escaped already.
EscapingFits(s, c) ==
  LET copy == EscapeCharCopy(s, c, "\\")
  IN  /\ Len(copy.out) + 1 <= copy.size \/ \E i \in 1..(Len(s) - 1) : s[i] = "\\" /\ s[i + 1] = c
      /\ copy.out = AllReplaced(s, c, <<"\\", c>>)

\* A number is accepted if it is one, with white space before it and white space
\* or nothing behind it, and fits its type; it is then what was printed.
NumbersExact(s) ==
  LET r == StringToLong(s)
      u == StringToUlong(s)
      lead == ScanPastChars(Spaces, s)
      body == Cut(lead, First({i \in 0..Len(lead) : i = Len(lead) \/ isspace(lead[i + 1])}))
      digits == IF At(body, 1) \in {"-", "+"} THEN Tail(body) ELSE body
      good == digits # <<>> /\ StringIsNumeric(digits)
      value == IF At(body, 1) = "-" THEN 0 - Value(digits) ELSE Value(digits)
  IN  /\ r.err = "0" <=> good /\ value \in LONG_MIN..LONG_MAX
      /\ u.err = "0" <=> good /\ value \in 0..ULONG_MAX
      /\ r.err = "0" => /\ r.value = value
                        /\ StringToLong(StringFromLong(r.value)) = r
                        /\ StringDecimalToLong(StringFromLong(r.value) \o <<".", "5">>) = r
      /\ StringToInt64(s) = r
      /\ StringToLongDefaultOnError(s, LONG_MIN) = (IF r.err = "0" THEN r.value ELSE LONG_MIN)

\* What is written to memory of a given size is the text as far as it fits, in
\* one piece or in two, and the result tells whether it was cut; a character
\* replaced there is the character replaced in new memory.  The part up to a
\* separator is the text before it as far as it fits; it is said to be capped if
\* it was cut, and also if it fills the memory, against string_lib.c:1587.
CutsExact(s, size) ==
  /\ StringCopy(s, size).ret < size <=> StringCopy(s, size).to = s
  /\ \A n \in 0..Len(s) : n < size =>
       LET r == StringAppend(Cut(s, n), From(s, n + 1), size)
       IN  r.dst = StringCopy(s, size).to /\ (r.ok <=> Len(s) < size)
  /\ \A c \in Range(s) : ReplaceChar(s, size, c, "_") = SearchAndReplace(Cut(s, size - 1), <<c>>, <<"_">>)
  /\ LET r == StringNotMatchingSetCapped(s, size, {"/"})
         before == Cut(s, First({i \in 0..Len(s) : At(s, i + 1) \in {"/", NUL}}))
     IN  /\ r.out = StringCopy(before, size).to
         /\ r.capped <=> (r.out # before \/ Len(before) = size - 1)

\* A part that is taken out and the rest put together give the text back, a part
\* that is asked for beyond the end ends there, without a look behind the text unless
\* that is empty, and a search finds what a replacement replaces.  Trimming and the tests of a text
\* agree, and comparisons agree from either side, with prefixes and cases.
PartsExact(s) ==
  /\ \A i \in 0..Len(s) : \A j \in i..Len(s) :
       LET part == StringSubstring(s, i, j - i)
           rest == StringCloseHole(s, i, j)
       IN  /\ Cut(rest, i) \o part \o From(rest, i + 1) = s
           /\ part # <<>> => /\ StringFind(s, part, 0, Len(s)) \in 0..i
                             /\ SearchAndReplace(s, part, <<>>) # s
  /\ \A i \in 0..Len(s), n \in 1..(Len(s) + 2) :
       /\ s # <<>> => SubstringBounds(s, i, n)[2] < Len(s)
       /\ StringSubstring(s, i, n) = Cut(From(s, i + 1), n)
  /\ \A n \in 0..Len(s) :
       LET a == Cut(s, n)
           b == From(s, n + 1)
       IN  /\ StringStartsWith(s, a) /\ StringEndsWithCase(s, b, FALSE)
           /\ StringSafeCompare(a, b) = 0 - StringSafeCompare(b, a)
           /\ StringSafeCompareN(s, a, n) = 0
           /\ StringSafeCompare_IgnoreCase(a, b) = 0 <=> IsStrCaseIn(a, <<b>>)
           /\ IsStrIn(a, <<b>>) <=> StringSafeCompare(a, b) = 0
           /\ n > 2 => StringMatchesOption(a, s, <<>>)
  /\ EmptyString(s) <=> TrimWhitespace(s) = <<>>
  /\ TrimWhitespace(s) = Chop(ScanPastChars(Spaces, s), Len(s)).str
  /\ StripTrailingNewline(s, Len(s)).str = s <=> ReplaceTrailingChar(s, "\n", " ") = s
  /\ \A c \in Range(s) : memcchr(s, c) = -1 <=> Range(s) = {c}
  /\ StringIsPrintable(s) <=> "\n" \notin Range(s)
  /\ StringCanonify(ToUpperStr(s)) = ToUpperStr(StringCanonify(s)) \/ Range(s) \cap Spaces # {}
  /\ s # <<>> => StringIsSHA1Hex(StringBytesToHex([i \in 1..SHA1_LEN |-> Code[s[1]]], 2 * SHA1_LEN + 1))
=============================================================================
