------------------------------ MODULE JsonText ------------------------------
(***************************************************************************)
(* libutils/json.c between text and elements: string encoding, writing and *)
(* parsing.  A parser takes a text and a position and returns its error,   *)
(* the position of the last character it used (data afterwards) and the    *)
(* element or string; lookup_function is NULL.                             *)
(***************************************************************************)
EXTENDS JsonElement

Escapes == [b |-> "BS", f |-> "FF", n |-> "\n", r |-> "\r", t |-> "\t"]

\* The letter that stands for a character in an escape, or none.
EscapeLetters(c) == {l \in DOMAIN Escapes : Escapes[l] = c}

EncodeChar(c) ==
  IF c \in {"\"", "\\"} THEN <<"\\", c>>
  ELSE IF EscapeLetters(c) # {} THEN <<"\\", CHOOSE l \in EscapeLetters(c) : TRUE>>
  ELSE IF CharIsPrintableAscii(c) THEN <<c>>
  ELSE <<"\\", "u", "0", "0", HexDigit(Code[c] \div 16), HexDigit(Code[c] % 16)>>

\* JsonEncodeStringWriter
JsonEncodeString(s) == Joined([i \in DOMAIN s |-> EncodeChar(s[i])])

\* HexStringToChar: four hexadecimal digits of a value below 256.
IsHexChar(s, i) ==
  /\ \A j \in i..(i + 3) : isxdigit(At(s, j))
  /\ At(s, i) = "0" /\ At(s, i + 1) = "0"
HexChar(s, i) == CharOf(16 * HexValue(s[i + 2]) + HexValue(s[i + 3]))

\* A backslash is dropped before a u that starts no character, and kept before
\* any letter that is no escape.
RECURSIVE DecodeFrom(_, _)
DecodeFrom(s, i) ==
  LET next == At(s, i + 1)
  IN  IF i > Len(s) THEN <<>>
      ELSE IF s[i] # "\\" THEN <<s[i]>> \o DecodeFrom(s, i + 1)
      ELSE IF next \in {"\"", "\\"} THEN <<next>> \o DecodeFrom(s, i + 2)
      ELSE IF next \in DOMAIN Escapes THEN <<Escapes[next]>> \o DecodeFrom(s, i + 2)
      ELSE IF next = "u" THEN (IF IsHexChar(s, i + 2) THEN <<HexChar(s, i + 2)>> \o DecodeFrom(s, i + 6)
                               ELSE DecodeFrom(s, i + 1))
      ELSE <<"\\">> \o DecodeFrom(s, i + 1)

\* JsonDecodeStringWriter; a decoded NUL ends the string.
JsonDecodeString(s) ==
  LET d == DecodeFrom(s, 1)
      nul == {i \in DOMAIN d : d[i] = NUL}
  IN  IF nul = {} THEN d ELSE SubSeq(d, 1, (CHOOSE i \in nul : \A j \in nul : i <= j) - 1)

\* Json5EscapeDataWriter, which also takes NUL bytes.
Json5EscapeData(s) ==
  Joined([i \in DOMAIN s |->
    IF s[i] = NUL THEN <<"\\", "0">>
    ELSE IF s[i] \in {"\"", "\\"} \/ EscapeLetters(s[i]) # {} \/ CharIsPrintableAscii(s[i])
         THEN EncodeChar(s[i])
    ELSE <<"\\", "x", toupper(HexDigit(Code[s[i]] \div 16)), toupper(HexDigit(Code[s[i]] % 16))>>])

-----------------------------------------------------------------------------
Quoted(s) == <<"\"">> \o JsonEncodeString(s) \o <<"\"">>

PrintIndent(num) == [i \in 1..(2 * num) |-> " "]

JsonPrimitiveText(e) == IF e.type = "string" THEN Quoted(e.value) ELSE e.value

\* Parts with a separator between them.
Separated(parts, sep) ==
  Joined([i \in DOMAIN parts |-> IF i < Len(parts) THEN parts[i] \o sep ELSE parts[i]])

\* JsonWriteCompact of an element whose objects are sorted.
RECURSIVE CompactText(_)
CompactText(e) ==
  CASE e.type = "array"  -> <<"[">> \o Separated([i \in DOMAIN e.children |-> CompactText(e.children[i])],
                                                 <<",">>) \o <<"]">>
    [] e.type = "object" -> <<"{">> \o Separated([i \in DOMAIN e.children |->
                                         Quoted(e.children[i].name) \o <<":">> \o CompactText(e.children[i])],
                                         <<",">>) \o <<"}">>
    [] OTHER -> JsonPrimitiveText(e)

\* JsonWrite of an element whose objects are sorted: every child on a line of
\* its own, except in an empty array.
RECURSIVE PrettyText(_, _)
PrettyText(e, indent) ==
  LET line(i) == PrintIndent(indent + 1)
                   \o (IF e.type = "object" THEN Quoted(e.children[i].name) \o <<":", " ">> ELSE <<>>)
                   \o PrettyText(e.children[i], indent + 1)
                   \o (IF i < Len(e.children) THEN <<",", "\n">> ELSE <<"\n">>)
      lines == Joined([i \in DOMAIN e.children |-> line(i)])
  IN  CASE e.type = "array" /\ e.children = <<>> -> <<"[", "]">>
        [] e.type = "array"  -> <<"[", "\n">> \o lines \o PrintIndent(indent) \o <<"]">>
        [] e.type = "object" -> <<"{", "\n">> \o lines \o PrintIndent(indent) \o <<"}">>
        [] OTHER             -> JsonPrimitiveText(e)

JsonWriteCompact(e) == CompactText(Written(e))
JsonWrite(e) == PrettyText(Written(e), 0)

-----------------------------------------------------------------------------
IsWhitespace(c) == c \in {" ", "\t", "\n", "\r"}
IsSeparator(c) == IsWhitespace(c) \/ c \in {",", "]", "}"}
IsDigit(c) == c \in {"1", "2", "3", "4", "5", "6", "7", "8", "9"}

Parsed(err, at, out) == [err |-> err, at |-> at, out |-> out]
Failed(err, at) == Parsed(err, at, NoElement)

\* JsonParseAsBoolean and JsonParseAsNull: a word up to a separator.
Words == {<<"t", "r", "u", "e">>, <<"f", "a", "l", "s", "e">>, <<"n", "u", "l", "l">>}
WordsAt(t, i) == {w \in Words : StartsWithAt(t, i, w)
                                /\ (IsSeparator(At(t, i + Len(w))) \/ At(t, i + Len(w)) = NUL)}
ParseWord(t, i, w) ==
  Parsed("OK", i + Len(w) - 1, JsonPrimitive(IF w[1] = "n" THEN "null" ELSE "bool", w))

\* The rest of a string from position i, s read so far.  An escape that the
\* text ends in moves the pointer behind the NUL: what follows is undefined.
RECURSIVE StringFrom(_, _, _)
StringFrom(t, i, s) ==
  LET c == At(t, i)
      next == At(t, i + 1)
  IN  CASE c = NUL  -> Parsed("STRING_NO_DOUBLEQUOTE_END", i, s)
        [] c = "\"" -> Parsed("OK", i, s)
        [] c = "\\" /\ next = NUL -> Parsed("undefined", i + 1, s)
        [] c = "\\" /\ next \in {"\\", "\"", "/"} -> StringFrom(t, i + 2, Append(s, next))
        [] c = "\\" /\ next \in DOMAIN Escapes -> StringFrom(t, i + 2, Append(s, Escapes[next]))
        [] c = "\\" /\ next \notin DOMAIN Escapes \cup {"\\", "\"", "/", NUL} ->
             StringFrom(t, i + 2, s \o <<"\\", next>>)
        [] OTHER -> StringFrom(t, i + 1, Append(s, c))

JsonParseAsString(t, i) ==
  IF At(t, i) # "\"" THEN Parsed("STRING_NO_DOUBLEQUOTE_START", i, <<>>) ELSE StringFrom(t, i + 1, <<>>)

\* A string value is decoded a second time.
ParseStringElement(t, i) ==
  LET r == JsonParseAsString(t, i)
  IN  IF r.err # "OK" THEN Failed(r.err, r.at)
      ELSE Parsed("OK", r.at, JsonPrimitive("string", JsonDecodeString(r.out)))

\* The loop of JsonParseAsNumber; n holds zero_started, seen_dot, seen_exponent
\* and prev_char.
RECURSIVE NumberFrom(_, _, _, _)
NumberFrom(t, start, i, n) ==
  LET c == At(t, i)
      digit == n.prev = "0" \/ IsDigit(n.prev)
      leading == n.zero /\ ~n.dot /\ ~n.exp
      go(m) == NumberFrom(t, start, i + 1, [m EXCEPT !.prev = c])
  IN  IF c = NUL \/ IsSeparator(c)
      THEN IF ~digit THEN Failed("NUMBER_DIGIT_END", i)
           ELSE Parsed("OK", i - 1, JsonPrimitive(IF n.dot THEN "real" ELSE "integer",
                                                SubSeq(t, start, i - 1)))
      ELSE CASE c = "-" -> IF n.prev \notin {NUL, "e", "E"} THEN Failed("NUMBER_EXPONENT_NEGATIVE", i)
                           ELSE go(n)
             [] c = "+" -> IF n.prev \notin {"e", "E"} THEN Failed("NUMBER_EXPONENT_POSITIVE", i)
                           ELSE go(n)
             [] c = "0" -> IF leading THEN Failed("NUMBER_DUPLICATE_ZERO", i)
                           ELSE go([n EXCEPT !.zero = @ \/ n.prev = NUL])
             [] c = "." -> IF n.dot THEN Failed("NUMBER_MULTIPLE_DOTS", i)
                           ELSE IF ~digit THEN Failed("NUMBER_NO_DIGIT", i)
                           ELSE go([n EXCEPT !.dot = TRUE])
             [] c \in {"e", "E"} -> IF n.exp THEN Failed("NUMBER_EXPONENT_DUPLICATE", i)
                                    ELSE IF ~digit THEN Failed("NUMBER_EXPONENT_DIGIT", i)
                                    ELSE go([n EXCEPT !.exp = TRUE])
             [] OTHER -> IF leading THEN Failed("NUMBER_EXPONENT_FOLLOW_LEADING_ZERO", i)
                         ELSE IF ~IsDigit(c) THEN Failed("NUMBER_BAD_SYMBOL", i)
                         ELSE go(n)

JsonParseAsNumber(t, i) ==
  NumberFrom(t, i, i, [zero |-> FALSE, dot |-> FALSE, exp |-> FALSE, prev |-> NUL])

StartsNumber(c) == c \in {"-", "0"} \/ IsDigit(c)

JsonParseAsPrimitive(t, i) ==
  IF At(t, i) = "\"" THEN ParseStringElement(t, i)
  ELSE IF StartsNumber(At(t, i)) THEN JsonParseAsNumber(t, i)
  ELSE IF WordsAt(t, i) # {} THEN ParseWord(t, i, CHOOSE w \in WordsAt(t, i) : TRUE)
  ELSE Failed("OBJECT_BAD_SYMBOL", i)

-----------------------------------------------------------------------------
\* unquoted_key_with_colon: the positions of the colon and of the end of the
\* key at i, if there is one.
wc(c) == isalnum(c) \/ c = "_"
UnquotedKeys(t, i) ==
  {<<colon, last>> \in (i..Len(t)) \X (i..Len(t)) :
     /\ wc(t[i]) /\ last < colon /\ t[colon] = ":"
     /\ \A j \in (i + 1)..last : wc(t[j]) \/ t[j] = "-"
     /\ \A j \in (last + 1)..(colon - 1) : IsWhitespace(t[j])}

\* The loops of JsonParseAsArray and JsonParseAsObject from position i, with
\* the container so far, the key that waits for its value and prev_char.
RECURSIVE ArrayFrom(_, _, _, _), ObjectFrom(_, _, _, _, _)

\* The default case of JsonParseAsObject: a key without quotes and its colon,
\* or a number or word for the key that waits.
ObjectWord(t, i, object, name) ==
  LET r == JsonParseAsPrimitive(t, i)
      bare == CHOOSE k \in UnquotedKeys(t, i) : TRUE
  IN  IF name = NoName
      THEN IF UnquotedKeys(t, i) = {} THEN Failed("OBJECT_BAD_SYMBOL", i)
           ELSE ObjectFrom(t, bare[1] + 1, object, SubSeq(t, i, bare[2]), ":")
      ELSE IF r.err # "OK" THEN r
      ELSE ObjectFrom(t, r.at + 1, JsonObjectAppendElement(object, name, r.out), NoName, t[r.at])

JsonParseAsArray(t, i) ==
  IF At(t, i) # "[" THEN Failed("ARRAY_START", i) ELSE ArrayFrom(t, i + 1, JsonContainer("array"), "[")

JsonParseAsObject(t, i) ==
  IF At(t, i) # "{" THEN Failed("ARRAY_START", i)
  ELSE ObjectFrom(t, i + 1, JsonContainer("object"), NoName, "{")

JsonParseAsContainer(t, i) == IF At(t, i) = "[" THEN JsonParseAsArray(t, i) ELSE JsonParseAsObject(t, i)

ArrayFrom(t, i, array, prev) ==
  LET c == At(t, i)
      \* a child was parsed: go on behind it, or return its error
      with(r) == IF r.err # "OK" THEN r
                 ELSE ArrayFrom(t, r.at + 1, JsonArrayAppendElement(array, r.out), t[r.at])
  IN  CASE c = NUL -> Failed("ARRAY_END", i)
        [] IsWhitespace(c) -> ArrayFrom(t, i + 1, array, prev)
        [] c \in {"[", "{"} -> IF prev \notin {"[", ","} THEN Failed("ARRAY_START", i)
                               ELSE with(JsonParseAsContainer(t, i))
        [] c = "," -> IF prev \in {",", "["} THEN Failed("ARRAY_COMMA", i)
                      ELSE ArrayFrom(t, i + 1, array, c)
        [] c = "]" -> Parsed("OK", i, array)
        [] OTHER   -> with(JsonParseAsPrimitive(t, i))

ObjectFrom(t, i, object, name, prev) ==
  LET c == At(t, i)
      with(r) == IF r.err # "OK" THEN r
                 ELSE ObjectFrom(t, r.at + 1, JsonObjectAppendElement(object, name, r.out), NoName, t[r.at])
      key == JsonParseAsString(t, i)
  IN  CASE c = NUL -> Failed("OBJECT_END", i)
        [] IsWhitespace(c) -> ObjectFrom(t, i + 1, object, name, prev)
        [] c = "\"" /\ name # NoName -> with(ParseStringElement(t, i))
        [] c = "\"" /\ name = NoName ->
             IF prev \notin {"{", ","} THEN Failed("OBJECT_COMMA_MISSING", i)
             ELSE IF key.err # "OK" THEN Failed(key.err, key.at)
             ELSE ObjectFrom(t, key.at + 1, object, key.out, "\"")
        [] c = ":" -> IF name = NoName \/ prev \in {":", ","} THEN Failed("OBJECT_COLON", i)
                      ELSE ObjectFrom(t, i + 1, object, name, c)
        [] c = "," -> IF name # NoName \/ prev \in {":", ","} THEN Failed("OBJECT_COMMA", i)
                      ELSE ObjectFrom(t, i + 1, object, name, c)
        [] c \in {"[", "{"} -> IF name = NoName
                               THEN Failed(IF c = "[" THEN "OBJECT_ARRAY_LVAL" ELSE "OBJECT_OBJECT_LVAL", i)
                               ELSE with(JsonParseAsContainer(t, i))
        [] c = "}" -> IF name # NoName THEN Failed("OBJECT_OPEN_LVAL", i) ELSE Parsed("OK", i, object)
        [] OTHER -> ObjectWord(t, i, object, name)

\* JsonParseWithLookup: white space, then an object, an array or a primitive.
RECURSIVE ParseFrom(_, _)
ParseFrom(t, i) ==
  LET c == At(t, i)
  IN  IF c = NUL THEN Failed("NO_DATA", i)
      ELSE IF c \in {"{", "["} THEN JsonParseAsContainer(t, i)
      ELSE IF IsWhitespace(c) THEN ParseFrom(t, i + 1)
      ELSE JsonParseAsPrimitive(t, i)

JsonParse(t) == ParseFrom(t, 1)

\* Mutant: what follows the element is not looked at.
ParseAllLax(t) == JsonParse(t)

JsonParseAll(t) ==
  LET r == JsonParse(t)
  IN  IF r.err = "OK" /\ \E i \in (r.at + 1)..Len(t) : ~isspace(t[i])
      THEN Failed("INVALID_END", r.at) ELSE r

-----------------------------------------------------------------------------
\* One character of a scan that keeps the open brackets outside strings.
Scan(z, c) ==
  CASE z.escaped -> [z EXCEPT !.escaped = FALSE]
    [] ~z.escaped /\ z.quoted -> [z EXCEPT !.escaped = c = "\\", !.quoted = c # "\""]
    [] ~z.quoted /\ c = "\"" -> [z EXCEPT !.quoted = TRUE]
    [] ~z.quoted /\ c \in {"[", "{"} -> [z EXCEPT !.open = Append(@, c)]
    [] ~z.quoted /\ c \in {"]", "}"} ->
         IF z.open # <<>> /\ Last(z.open) = (IF c = "]" THEN "[" ELSE "{")
         THEN [z EXCEPT !.open = Front(@)] ELSE [z EXCEPT !.ok = FALSE]
    [] OTHER -> z

BracketsMatch(t) ==
  FoldLeft(Scan, [open |-> <<>>, quoted |-> FALSE, escaped |-> FALSE, ok |-> TRUE], t)
    = [open |-> <<>>, quoted |-> FALSE, escaped |-> FALSE, ok |-> TRUE]

RECURSIVE HasBackslash(_)
HasBackslash(e) == "\\" \in Range(e.value) \/ \E k \in Range(e.children) : HasBackslash(k)

\* What is accepted and left alone: matched brackets, and an element that both
\* ways of writing return to the parser unchanged but for the order of keys,
\* as long as no string holds a backslash.  An error is reported inside the
\* text or at its end, except behind an escape that the text ends in.
ParsedWell(t) ==
  LET r == JsonParse(t)
  IN  /\ JsonParseAll(t).err = "OK" => BracketsMatch(t)
      /\ r.err = "undefined" \/ r.at \in 0..(Len(t) + 1)
      /\ r.err = "undefined" => Last(t) = "\\"
      /\ r.err = "OK" /\ ~HasBackslash(r.out)
           => \A w \in {JsonWrite(r.out), JsonWriteCompact(r.out)} :
                 JsonParseAll(w) = Parsed("OK", Len(w), Written(r.out))

\* A string comes back from its encoding, as does a key of an object; a key is
\* not given back the characters that are written by their code.
EncodedWell(s) ==
  LET o == JsonObjectAppendElement(JsonContainer("object"), s, JsonPrimitive("null", <<"n", "u", "l", "l">>))
      plain == \A c \in Range(s) : CharIsPrintableAscii(c) \/ EscapeLetters(c) # {}
  IN  /\ JsonDecodeString(JsonEncodeString(s)) = s
      /\ plain => Json5EscapeData(s) = JsonEncodeString(s)
      /\ \A c \in Range(JsonEncodeString(s) \o Json5EscapeData(s)) : CharIsPrintableAscii(c)
      /\ plain => JsonParseAll(JsonWrite(o)).out = o

\* A string value comes back from the text it is written as.
StringSurvives(s) == JsonParse(Quoted(s)).out = JsonPrimitive("string", s)
=============================================================================
