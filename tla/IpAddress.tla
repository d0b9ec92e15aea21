----------------------------- MODULE IpAddress ------------------------------
(***************************************************************************)
(* libutils/ip_address.c: addresses read by two automata that go over the  *)
(* text once, printed and compared.  An address is the sequence of its     *)
(* octets or sixteens, and a port.                                         *)
(***************************************************************************)
EXTENDS Strings, FiniteSets

CONSTANTS IpPieces,          \* pieces a text is put together from
          MAX_IP_PIECES      \* bound: pieces of a text

VARIABLES pad,               \* the text read so far
          pieces,            \* how many pieces it has
          ipv4, ipv6         \* the local variables of the two parsers

ipVars == <<pad, pieces, ipv4, ipv6>>

NoAddress == [type |-> "none", parts |-> <<>>, port |-> -1]
IPV4(octets, port) == [type |-> "IPV4", parts |-> octets, port |-> port]
IPV6(sixteen, port) == [type |-> "IPV6", parts |-> sixteen, port |-> port]

Char2Dec(o, c) == 10 * o + Code[c] - 48
Char2Hex(o, c) == 16 * o + HexValue(c)

Zeros(n) == [i \in 1..n |-> 0]

-----------------------------------------------------------------------------
(***************************************************************************)
(* IPV4_parser.  State 6 stands for a return in the loop.  A character     *)
(* that does not belong gives state 7, which only the next character       *)
(* turns into a failure.  Two periods or colons in a row need no counter:  *)
(* a state is left only with a digit.                                      *)
(***************************************************************************)
Start4 == [state |-> 0, octet |-> 0, port |-> 0, chars |-> 0, has_digit |-> FALSE, octets |-> Zeros(4)]

Fail4(z) == [z EXCEPT !.state = 6]

Change4(z, state) ==
  IF z.has_digit THEN [z EXCEPT !.state = state, !.octet = 0, !.port = 0, !.chars = 0, !.has_digit = FALSE]
  ELSE Fail4(z)

Store4(z) == [z EXCEPT !.octets[z.state + 1] = z.octet]

Digit4(z, c) ==
  IF Char2Dec(z.octet, c) > 255 THEN Fail4(z)
  ELSE [z EXCEPT !.octet = Char2Dec(@, c), !.chars = @ + 1, !.has_digit = TRUE]

PortDigit(z, c) == [z EXCEPT !.port = Char2Dec(@, c), !.chars = @ + 1]

Step4(z, c) ==
  CASE z.state \in 0..3 /\ isdigit(c) -> Digit4(z, c)
    [] z.state \in 0..2 /\ c = "."    -> Change4(Store4(z), z.state + 1)
    [] z.state = 3 /\ c = ":"         -> Change4(Store4(z), 5)
    [] z.state = 5 /\ isdigit(c)      -> IF Char2Dec(z.port, c) > 65535 THEN Fail4(z) ELSE PortDigit(z, c)
    [] z.state \in {6, 7}             -> Fail4(z)
    [] OTHER                          -> Change4(z, 7)

Result4(z) ==
  IF z.state \in {0, 1, 2, 6} \/ (z.state \in {3, 5} /\ z.chars = 0) THEN NoAddress
  ELSE IPV4((IF z.state = 3 THEN Store4(z) ELSE z).octets, IF z.state = 5 THEN z.port ELSE 0)

IPV4_parser(source) == Result4(FoldLeft(Step4, Start4, source))

-----------------------------------------------------------------------------
(***************************************************************************)
(* IPV6_parser.  State 11 is the error, also for a return in the loop.     *)
(* Behind '::' the numbers are kept in unsorted until the end is known.    *)
(***************************************************************************)
Start6 == [state |-> 0, sixteen |-> 0, port |-> 0, chars |-> 0, bracket_expected |-> FALSE,
           zero_compression |-> FALSE, unsorted |-> <<>>, address |-> Zeros(8)]

Change6(z, state) == [z EXCEPT !.state = state, !.sixteen = 0, !.port = 0, !.chars = 0]

Fail6(z) == Change6(z, 11)

Digit6(z, c) ==
  IF isupper(c) \/ Char2Hex(z.sixteen, c) > 65535 THEN Fail6(z)
  ELSE [z EXCEPT !.sixteen = Char2Hex(@, c), !.chars = @ + 1]

Keep(z) == [z EXCEPT !.unsorted = Append(@, z.sixteen)]
Store6(z) == [z EXCEPT !.address[z.state + 1] = z.sixteen]

Compress(z) == [z EXCEPT !.zero_compression = TRUE, !.chars = @ + 1]

\* A colon; the second of two does not leave the states 2 to 6.
Colon6(z) ==
  CASE z.state = 0                                           -> Change6(Store6(z), 1)
    [] z.state = 1 /\ z.chars = 0                            -> Change6(Compress(z), 2)
    [] z.state = 1 /\ z.chars > 0                            -> Change6(Store6(z), 2)
    [] z.state \in 2..6 /\ z.chars = 0 /\ z.zero_compression -> Fail6(z)
    [] z.state \in 2..6 /\ z.chars = 0                       -> Compress(z)
    [] z.state \in 2..6 /\ z.zero_compression                -> Change6(Keep(z), z.state + 1)
    [] z.state \in 2..6                                      -> Change6(Store6(z), z.state + 1)
    [] z.state = 8                                           -> Change6(z, 9)
    [] OTHER                                                 -> Fail6(z)

EndBracket(z) ==
  LET closed == [z EXCEPT !.bracket_expected = FALSE]
  IN  IF ~z.bracket_expected THEN Fail6(z)
      ELSE IF z.state = 7 THEN Change6(Store6(closed), 8)
      ELSE IF z.state \in 2..6 /\ z.zero_compression THEN Change6(Keep(closed), 8)
      ELSE Fail6(z)

Step6(z, c) ==
  CASE c = "[" /\ z.state = 0 /\ z.chars = 0 -> [z EXCEPT !.bracket_expected = TRUE, !.chars = 1]
    [] isxdigit(c) /\ z.state \in 0..7       -> Digit6(z, c)
    [] isdigit(c) /\ z.state = 9             -> IF Char2Dec(z.port, c) > 65535 THEN Fail6(z) ELSE PortDigit(z, c)
    [] c = ":"                               -> Colon6(z)
    [] c = "]"                               -> EndBracket(z)
    [] OTHER                                 -> Fail6(z)

\* Mutant: the kept numbers are placed from the front.
PlaceForwards(z, unsorted) ==
  [i \in 1..8 |-> IF i \in 2..(Len(unsorted) + 1) THEN unsorted[i - 1] ELSE z.address[i]]

\* The kept numbers at the end of the address.
PlaceBackwards(z, unsorted) ==
  [i \in 1..8 |-> IF i > 8 - Len(unsorted) THEN unsorted[i - (8 - Len(unsorted))] ELSE z.address[i]]

\* The numbers of a text that ends in a bracket are placed the other way
\* round, and those of one that ends in a port are not placed.
Result6(z) ==
  CASE z.state \in 2..6 /\ ~z.bracket_expected /\ z.zero_compression ->
         IPV6(PlaceBackwards(z, Keep(z).unsorted), 0)
    [] z.state = 7 /\ z.chars > 0 /\ ~z.bracket_expected -> IPV6(Store6(z).address, 0)
    [] z.state = 8 -> IPV6(IF z.zero_compression THEN PlaceBackwards(z, Reverse(z.unsorted)) ELSE z.address, 0)
    [] z.state = 9 /\ z.chars > 0 -> IPV6(z.address, z.port)
    [] OTHER -> NoAddress

IPV6_parser(source) == Result6(FoldLeft(Step6, Start6, source))

\* IPAddressNew, and what IPAddressIsIPAddress decides and stores.
Either(a, b) == IF a # NoAddress THEN a ELSE b
IPAddressNew(source) == Either(IPV4_parser(source), IPV6_parser(source))
IPAddressIsIPAddress(source) == IPAddressNew(source) # NoAddress

-----------------------------------------------------------------------------
\* What sscanf reads with %2x or %4x from hexadecimal digits (external).
ScanHex(digits) == FoldLeft(Char2Hex, 0, digits)
HexFields(source, width, n) ==
  [i \in 1..n |-> ScanHex(SubSeq(source, width * (i - 1) + 1, width * i))]

\* A form of the procfs: n digits, or n digits, a colon and four digits.
HexForm(source, n) ==
  /\ Len(source) \in {n, n + 5}
  /\ \A i \in DOMAIN source : IF i = n + 1 THEN source[i] = ":" ELSE isxdigit(source[i])
HexPort(source, n) == IF Len(source) = n THEN 0 ELSE ScanHex(SubSeq(source, n + 2, n + 5))

\* The octets come last first.
IPV4_hex_parser(source) ==
  IF HexForm(source, 8) THEN IPV4(Reverse(HexFields(source, 2, 4)), HexPort(source, 8)) ELSE NoAddress

\* Without a port in the text the port is left as malloc gave it, "junk".
IPV6_hex_parser(source) ==
  IF HexForm(source, 32)
  THEN IPV6(HexFields(source, 4, 8), IF Len(source) = 32 THEN "junk" ELSE HexPort(source, 32))
  ELSE NoAddress

IPAddressNewHex(source) == Either(IPV4_hex_parser(source), IPV6_hex_parser(source))

-----------------------------------------------------------------------------
RECURSIVE Hexadecimal(_)
Hexadecimal(n) == IF n < 16 THEN <<HexDigit(n)>> ELSE Append(Hexadecimal(n \div 16), HexDigit(n % 16))

PartsJoined(parts, sep) == Joined([i \in DOMAIN parts |-> IF i = 1 THEN parts[i] ELSE sep \o parts[i]])

IPAddressGetAddress(a) ==
  IF a.type = "IPV4" THEN PartsJoined([i \in 1..4 |-> Decimal(a.parts[i])], <<".">>)
  ELSE PartsJoined([i \in 1..8 |-> Hexadecimal(a.parts[i])], <<":">>)

\* IPV4Compare and IPV6Compare: the ports are not compared.
SameParts(a, b) == IF \A i \in DOMAIN a.parts : a.parts[i] = b.parts[i] THEN 1 ELSE 0

IPAddressIsEqual(a, b) ==
  IF NoAddress \in {a, b} \/ a.type # b.type THEN -1 ELSE SameParts(a, b)

\* IPV4CompareLess and IPV6CompareLess.
PartsLess(a, b) ==
  LET diff == {i \in DOMAIN a.parts : a.parts[i] # b.parts[i]}
  IN  diff # {} /\ a.parts[First(diff)] < b.parts[First(diff)]

\* IPv4 before IPv6; an address that is missing is less than any other.
IPAddressCompareLess(a, b) ==
  IF NoAddress \in {a, b} THEN TRUE
  ELSE IF a.type # b.type THEN a.type = "IPV4"
  ELSE PartsLess(a, b)

-----------------------------------------------------------------------------
(***************************************************************************)
(* What a text denotes by the forms the comments of the parsers give, the  *)
(* set of its addresses.                                                   *)
(***************************************************************************)
Octet(s) == s # <<>> /\ StringIsNumeric(s) /\ Value(s) <= 255
PortText(s) == s # <<>> /\ StringIsNumeric(s) /\ Value(s) <= 65535
Group(s) == s # <<>> /\ (\A i \in DOMAIN s : isxdigit(s[i]) /\ ~isupper(s[i])) /\ ScanHex(s) <= 65535

Denoted4(s) ==
  LET halves == String2StringArray(s, ":")
      octets == String2StringArray(halves[1], ".")
  IN  IF Len(octets) = 4 /\ (\A i \in 1..4 : Octet(octets[i]))
         /\ (Len(halves) = 1 \/ (Len(halves) = 2 /\ PortText(halves[2])))
      THEN {IPV4([i \in 1..4 |-> Value(octets[i])], IF Len(halves) = 1 THEN 0 ELSE Value(halves[2]))}
      ELSE {}

\* The groups of a side of '::', none of an empty side.
Groups(s) == IF s = <<>> THEN <<>> ELSE String2StringArray(s, ":")

Sixteens(s) ==
  LET double == Occurrences(s, 0, <<":", ":">>)
      whole == Groups(s)
      left == Groups(Cut(s, First(double)))
      right == Groups(From(s, First(double) + 3))
      numbers(groups) == [i \in DOMAIN groups |-> ScanHex(groups[i])]
      good(groups) == \A i \in DOMAIN groups : Group(groups[i])
  IN  IF double = {}
      THEN IF Len(whole) = 8 /\ good(whole) THEN {numbers(whole)} ELSE {}
      ELSE IF Len(left) + Len(right) <= 7 /\ good(left) /\ good(right)
           THEN {numbers(left) \o Zeros(8 - Len(left) - Len(right)) \o numbers(right)} ELSE {}

\* The text between the brackets and the text behind them.
Inside(s) == LET close == {i \in DOMAIN s : s[i] = "]"} IN SubSeq(s, 2, First(close) - 1)
Behind(s) == LET close == {i \in DOMAIN s : s[i] = "]"} IN From(s, First(close) + 1)
Bracketed(s) == At(s, 1) = "[" /\ "]" \in Range(s)

Denoted6(s) ==
  IF ~Bracketed(s) THEN {IPV6(x, 0) : x \in Sixteens(s)}
  ELSE IF Behind(s) = <<>> THEN {IPV6(x, 0) : x \in Sixteens(Inside(s))}
  ELSE IF At(Behind(s), 1) = ":" /\ PortText(From(Behind(s), 2))
       THEN {IPV6(x, Value(From(Behind(s), 2))) : x \in Sixteens(Inside(s))} ELSE {}

Denoted(s) == Denoted4(s) \cup Denoted6(s)

\* Texts with '::' that the parser of IPv6 misreads: in front of more than five
\* groups with at most one before it, or behind more than six; in brackets, when the
\* groups behind it are not the same from back to front; in brackets with a port,
\* when they are not all zero.
Misread(s) ==
  LET t      == IF Bracketed(s) THEN Inside(s) ELSE s
      double == Occurrences(t, 0, <<":", ":">>)
      left   == Groups(Cut(t, First(double)))
      right  == LET groups == Groups(From(t, First(double) + 3)) IN [i \in DOMAIN groups |-> ScanHex(groups[i])]
  IN  /\ double # {}
      /\ \/ Len(left) <= 1 /\ Len(right) > 5
         \/ Len(left) > 6
         \/ Bracketed(s) /\ right # IF Behind(s) = <<>> THEN Reverse(right) ELSE Zeros(Len(right))

-----------------------------------------------------------------------------
\* The parsers go over a text piece by piece, until both have refused it.
IpInit == pad = <<>> /\ pieces = 0 /\ ipv4 = Start4 /\ ipv6 = Start6

IpRead(p) ==
  /\ pieces < MAX_IP_PIECES
  /\ ipv4.state # 6 \/ ipv6.state # 11
  /\ pad' = pad \o p
  /\ pieces' = pieces + 1
  /\ ipv4' = FoldLeft(Step4, ipv4, p)
  /\ ipv6' = FoldLeft(Step6, ipv6, p)

IpNext == \E p \in IpPieces : IpRead(p)

\* The address that IPAddressNew gives if the text ends here.
Address == Either(Result4(ipv4), Result6(ipv6))

\* The octets of an address as the procfs of a little endian machine has them.
ProcForm(a) ==
  Joined([i \in 1..4 |-> <<HexDigit(a.parts[5 - i] \div 16), HexDigit(a.parts[5 - i] % 16)>>])

\* A text that denotes an address is read as that address exactly if it is none of
\* the texts above, in brackets or not, with a port or not; an IPv4 text is accepted only if it denotes an address or
\* its last character is the first that does not belong, no text keeps more
\* numbers than unsorted_sixteen has room for.  An address that was read is read
\* again from what it is printed as and from its form in the procfs, and comes
\* before the addresses that have a larger number in one place.
AddressesReadBack ==
  /\ \A a \in Denoted(pad) : (Address = a) = ~Misread(pad)
  /\ IPAddressIsIPAddress(pad) <=> Address # NoAddress
  /\ Address.type = "IPV4" => Address \in Denoted4(pad) \/ ipv4.state = 7
  /\ Len(ipv6.unsorted) + 1 <= 6
  /\ Address # NoAddress => IPAddressNew(IPAddressGetAddress(Address)) = [Address EXCEPT !.port = 0]
  /\ Address.type = "IPV4" => IPAddressNewHex(ProcForm(Address)) = [Address EXCEPT !.port = 0]
  /\ \A i \in DOMAIN Address.parts, n \in {0, 1, 255} :
       LET other == [Address EXCEPT !.parts[i] = n]
       IN  /\ IPAddressIsEqual(Address, other) = (IF n = Address.parts[i] THEN 1 ELSE 0)
           /\ IPAddressCompareLess(Address, other) <=> Address.parts[i] < n

\* What IPAddressIsIPAddress accepts is an address, read as the one it denotes.
AddressesDenoted == Address # NoAddress => Address \in Denoted(pad)
=============================================================================
