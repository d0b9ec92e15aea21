-------------------------------- MODULE Text --------------------------------
(***************************************************************************)
(* Bytes and C strings.  A string is the sequence of its characters before *)
(* the NUL; reading one past the last gives NUL.  Bytes that are not       *)
(* printable ASCII have names of their own.                                *)
(***************************************************************************)
EXTENDS Integers, Sequences, SequencesExt

NUL == "NUL"

\* The printable characters, codes 32 to 126.
Printable ==
  <<" ", "!", "\"", "#", "$", "%", "&", "'", "(", ")", "*", "+", ",", "-",
    ".", "/", "0", "1", "2", "3", "4", "5", "6", "7", "8", "9", ":", ";",
    "<", "=", ">", "?", "@", "A", "B", "C", "D", "E", "F", "G", "H", "I",
    "J", "K", "L", "M", "N", "O", "P", "Q", "R", "S", "T", "U", "V", "W",
    "X", "Y", "Z", "[", "\\", "]", "^", "_", "backquote", "a", "b", "c", "d", "e",
    "f", "g", "h", "i", "j", "k", "l", "m", "n", "o", "p", "q", "r", "s",
    "t", "u", "v", "w", "x", "y", "z", "{", "|", "}", "~">>

Special == [NUL |-> 0, BS |-> 8, FF |-> 12, DEL |-> 127, xE9 |-> 233]

CharCode(c) == CASE c \in DOMAIN Special -> Special[c]
                 [] c = "\t" -> 9 [] c = "\n" -> 10 [] c = "\r" -> 13
                 [] OTHER -> 31 + CHOOSE i \in DOMAIN Printable : Printable[i] = c

Chars == Range(Printable) \cup DOMAIN Special \cup {"\t", "\n", "\r"}

Code == [c \in Chars |-> CharCode(c)]

\* The character of a code; codes without a name get one.
CharOf(n) == IF \E c \in Chars : Code[c] = n THEN CHOOSE c \in Chars : Code[c] = n
             ELSE ToString(1000 + n)

CharIsPrintableAscii(c) == c \in Range(Printable)
isdigit(c) == c \in Chars /\ Code[c] \in 48..57
isupper(c) == c \in Chars /\ Code[c] \in 65..90
islower(c) == c \in Chars /\ Code[c] \in 97..122
isspace(c) == c \in {" ", "\t", "\n", "\r", "FF"}
isalpha(c) == isupper(c) \/ islower(c)
isalnum(c) == isalpha(c) \/ isdigit(c)
ispunct(c) == c \in Range(Printable) \ {" "} /\ ~isalnum(c)
isxdigit(c) == isdigit(c) \/ (c \in Chars /\ Code[c] \in (65..70) \cup (97..102))

tolower(c) == IF isupper(c) THEN Printable[Code[c] + 1] ELSE c
toupper(c) == IF islower(c) THEN Printable[Code[c] - 63] ELSE c

HexValue(c) == IF isdigit(c) THEN Code[c] - 48 ELSE Code[tolower(c)] - 87
HexDigit(n) == IF n < 10 THEN Printable[n + 17] ELSE Printable[n + 56]

\* The character at a position, NUL behind the end.
At(s, i) == IF i \in DOMAIN s THEN s[i] ELSE NUL

\* What is left of a string from a position on.
From(s, i) == SubSeq(s, i, Len(s))

StartsWithAt(s, i, prefix) == \A j \in DOMAIN prefix : At(s, i + j - 1) = prefix[j]

\* The sign of strcmp: at the first difference the smaller code, NUL below all.
strcmp(a, b) ==
  LET diff == {i \in 1..(Len(a) + Len(b) + 1) : At(a, i) # At(b, i)}
      i    == CHOOSE i \in diff : \A j \in diff : i <= j
  IN  IF diff = {} THEN 0 ELSE IF Code[At(a, i)] < Code[At(b, i)] THEN -1 ELSE 1

\* A number from digits, and back.
Value(s) == FoldLeft(LAMBDA n, c : 10 * n + Code[c] - 48, 0, s)

RECURSIVE Decimal(_)
Decimal(n) == IF n < 0 THEN <<"-">> \o Decimal(-n)
              ELSE IF n < 10 THEN <<Printable[n + 17]>>
              ELSE Append(Decimal(n \div 10), Printable[(n % 10) + 17])

\* The parts of a string joined.
Joined(parts) == FoldLeft(LAMBDA r, p : r \o p, <<>>, parts)
=============================================================================
