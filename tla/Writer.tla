------------------------------- MODULE Writer -------------------------------
(***************************************************************************)
(* libutils/writer.c: a string writer and a file writer are given the same *)
(* calls.  And the functions of string_lib.c that add to a string in a     *)
(* buffer of fixed size, StrCat and StrCatDelim, given the same pieces.    *)
(***************************************************************************)
EXTENDS Strings

CONSTANTS WriterPieces,      \* strings and pieces of memory that are written
          MAX_WRITES,        \* bound: calls
          CAT_SIZE           \* dst_size

VARIABLES sw,                \* StringWriterImpl; data as far as it was written
          fw,                \* what a file writer has written
          asked,             \* the calls so far
          cat,               \* dst and *dst_len after StrCat calls
          delim              \* the same after StrCatDelim calls

writerVars == <<sw, fw, asked, cat, delim>>

WriterInit ==
  /\ sw = [data |-> <<NUL>>, len |-> 0, allocated |-> 1]
  /\ fw = <<>>
  /\ asked = <<>>
  /\ cat = [dst |-> <<>>, len |-> 0]
  /\ delim = [dst |-> <<>>, len |-> 0]

-----------------------------------------------------------------------------
StringWriterReallocate(w, extra_length) ==
  [w EXCEPT !.allocated = IF 2 * @ > w.len + extra_length + 1 THEN 2 * @ ELSE w.len + extra_length + 1]

\* The data with bytes and a NUL behind the first len.
Extended(w, bytes) ==
  [w EXCEPT !.data = Cut(@, w.len) \o bytes \o <<NUL>>, !.len = @ + Len(bytes)]

StringWriterWriteChar(w, c) ==
  Extended(IF w.len + 2 > w.allocated THEN StringWriterReallocate(w, 2) ELSE w, <<c>>)

\* Up to a NUL or n bytes of memory.
strnlen(mem, n) == First({i \in 0..n : i = n \/ At(mem, i + 1) = NUL})

StringWriterWriteLen(w, str, n) ==
  LET text == Cut(str, strnlen(str, n))
  IN  Extended(IF w.len + Len(text) + 1 > w.allocated THEN StringWriterReallocate(w, Len(text)) ELSE w, text)

FileWriterWriteLen(f, str, n) == f \o Cut(str, strnlen(str, n))

Asked(call) == Len(asked) < MAX_WRITES /\ asked' = Append(asked, call)

WriterWriteChar(c) ==
  /\ Asked(<<c>>)
  /\ sw' = StringWriterWriteChar(sw, c)
  /\ fw' = FileWriterWriteLen(fw, <<c>>, 1)
  /\ UNCHANGED <<cat, delim>>

WriterWriteLen(str, n) ==
  /\ Asked(Cut(str, strnlen(str, n)))
  /\ sw' = StringWriterWriteLen(sw, str, n)
  /\ fw' = FileWriterWriteLen(fw, str, n)
  /\ UNCHANGED <<cat, delim>>

-----------------------------------------------------------------------------
\* StrCat with the length of dst counted in *dst_len; src_len is that of src.
StrCat(d, src) ==
  [dst |-> IF d.len + 1 >= CAT_SIZE THEN d.dst
           ELSE IF d.len + Len(src) < CAT_SIZE THEN Cut(d.dst, d.len) \o src
           ELSE Cut(d.dst, d.len) \o Cut(src, CAT_SIZE - d.len - 1),
   len |-> d.len + Len(src)]

\* StrCatDelim: nothing is added that does not fit with its separator.
StrCatDelim(d, src, sep) ==
  LET piece == IF d.len > 0 THEN <<sep>> \o src ELSE src
      needed_len == d.len + Len(piece)
  IN  [dst |-> IF d.len + 1 >= CAT_SIZE \/ needed_len >= CAT_SIZE THEN d.dst ELSE d.dst \o piece,
       len |-> needed_len]

Adds(src) ==
  /\ Asked(src)
  /\ NUL \notin Range(src)
  /\ cat' = StrCat(cat, src)
  /\ delim' = StrCatDelim(delim, src, ",")
  /\ UNCHANGED <<sw, fw>>

\* Writers and buffers are not mixed.
WriterNext ==
  \/ cat.len = 0 /\ delim.len = 0 /\ \E p \in WriterPieces :
       (Len(p) = 1 /\ WriterWriteChar(p[1])) \/ \E n \in 0..Len(p) : WriterWriteLen(p, n)
  \/ sw.len = 0 /\ \E p \in WriterPieces : Adds(p)

-----------------------------------------------------------------------------
Whole == Joined(asked)

\* The pieces joined by StrCatDelim: no separator in front of the first text.
RECURSIVE Delimited(_)
Delimited(n) == IF n = 0 THEN <<>>
                ELSE LET before == Delimited(n - 1) IN IF before = <<>> THEN asked[n] ELSE before \o <<",">> \o asked[n]

\* After any calls a string writer holds everything that was written, ended by a
\* NUL inside its memory, and a file got the same but the NUL characters.  A
\* fixed buffer filled by StrCat holds as much of everything as fits, and the
\* count tells how much there was; one filled by StrCatDelim holds as many whole
\* pieces from the first on as fit, and the count shows whether that is all.
WritersExact ==
  /\ sw.len > 0 => /\ sw.data = Whole \o <<NUL>> /\ sw.len = Len(Whole) /\ Len(sw.data) <= sw.allocated
                   /\ fw = SelectSeq(Whole, LAMBDA c : c # NUL)
  /\ cat.len > 0 => cat = [dst |-> Cut(Whole, CAT_SIZE - 1), len |-> Len(Whole)]
  /\ delim.len > 0 =>
       /\ Len(delim.dst) < CAT_SIZE
       /\ delim.len = Len(Delimited(Len(asked)))
       /\ \E n \in 0..Len(asked) : /\ delim.dst = Delimited(n)
                                   /\ n < Len(asked) => delim.len >= CAT_SIZE /\ Len(Delimited(n + 1)) >= CAT_SIZE
=============================================================================
