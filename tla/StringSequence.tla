--------------------------- MODULE StringSequence ---------------------------
(***************************************************************************)
(* libutils/string_sequence.c: sequences of strings split from and joined  *)
(* to text, and written with a length prefix to a string or a file and     *)
(* read back.  Also the names and versions of path.c and                   *)
(* version_comparison.c, and the lines of CfReadLines.                     *)
(***************************************************************************)
EXTENDS Strings

CONSTANTS STR_LENGTH_PREFIX_LEN,
          PATH_SEPARATOR       \* FILE_SEPARATOR_STR and '/'

NoSeq == <<NullString>>        \* SeqStringDeserialize returns NULL

-----------------------------------------------------------------------------
\* A last string that is empty is left out.
SeqStringFromString(str, delimiter) ==
  LET parts == String2StringArray(str, delimiter) IN IF Last(parts) = <<>> THEN Front(parts) ELSE parts

StringJoin(seq, sep) ==
  Joined([i \in DOMAIN seq |-> IF i = 1 \/ sep = NullString THEN seq[i] ELSE sep \o seq[i]])

RECURSIVE SplitAtSet(_, _)
SplitAtSet(str, charset) ==
  LET found == {i \in DOMAIN str : str[i] \in charset}
  IN  IF found = {} THEN <<str>>
      ELSE <<Cut(str, First(found) - 1)>> \o SplitAtSet(From(str, First(found) + 1), charset)
StringSplit(str, charset) == SplitAtSet(str, charset)

SeqStringContains(seq, str) == \E i \in DOMAIN seq : strcmp(str, seq[i]) = 0

SeqStringLength(seq) == FoldLeft(LAMBDA n, s : n + Len(s), 0, seq)

-----------------------------------------------------------------------------
Padded(s, n) == s \o [i \in 1..(n - Len(s)) |-> " "]

\* WriteLenPrefixedString: the length in a field of its own, the string, a newline.
LenPrefixed(s) == Padded(Decimal(Len(s)), STR_LENGTH_PREFIX_LEN) \o s \o <<"\n">>

SeqStringSerialize(seq) == Joined([i \in DOMAIN seq |-> LenPrefixed(seq[i])])

\* sscanf with %ld: the digits the prefix begins with.
GetLengthPrefix(data) ==
  IF Len(data) < STR_LENGTH_PREFIX_LEN \/ ~isdigit(data[1]) \/ data[STR_LENGTH_PREFIX_LEN] # " " THEN -1
  ELSE strto(Cut(data, STR_LENGTH_PREFIX_LEN)).value

\* One round of SeqStringDeserialize: a string and what is left behind it, or an
\* error.  ReadLenPrefixedString does the same with a file, of which it takes a
\* well-formed length for granted.
DeserializeOne(src) ==
  LET length == GetLengthPrefix(src)
      data == From(src, STR_LENGTH_PREFIX_LEN + 1)
  IN  IF length < 0 \/ At(data, length + 1) # "\n" THEN NoSeq
      ELSE <<Cut(data, length), From(data, length + 2)>>

\* Every round reads at least the prefix.
RECURSIVE DeserializeFrom(_)
DeserializeFrom(src) ==
  LET round == DeserializeOne(src)
  IN  IF src = <<>> THEN <<>>
      ELSE IF round = NoSeq THEN NoSeq
      ELSE <<round[1]>> \o DeserializeFrom(round[2])

SeqStringDeserialize(serialized) ==
  LET strings == DeserializeFrom(serialized) IN IF NullString \in Range(strings) THEN NoSeq ELSE strings

-----------------------------------------------------------------------------
\* CfReadLines: a newline ends a line, the end of the file ends the last.
CfReadLines(file) == SeqStringFromString(file, "\n")

-----------------------------------------------------------------------------
Path_Basename(path) ==
  LET seps == {i \in DOMAIN path : path[i] = PATH_SEPARATOR}
      name == IF seps = {} THEN path ELSE From(path, 1 + CHOOSE i \in seps : \A j \in seps : j <= i)
  IN  IF name = <<>> THEN NullString ELSE name

Path_JoinAlloc(dir, leaf) ==
  IF StringEndsWithCase(dir, <<PATH_SEPARATOR>>, FALSE) THEN StringConcatenate(<<dir, leaf>>)
  ELSE StringConcatenate(<<dir, <<PATH_SEPARATOR>>, leaf>>)

\* Names of letters, digits, underscores, dashes and separators stay as they
\* are; so does a name that begins and ends with a quote, a single one too.
Path_GetQuoted(path) ==
  IF path # <<>> /\ path[1] = "\"" /\ Last(path) = "\"" THEN path
  ELSE IF \E i \in DOMAIN path : ~isalnum(path[i]) /\ path[i] \notin {"_", "-", PATH_SEPARATOR}
  THEN <<"\"">> \o path \o <<"\"">> ELSE path

\* File_CopyToDir: the new name, or none.
File_CopyToDir(src, dst_dir, path_max) ==
  LET name == Path_Basename(src)
  IN  IF name = NullString \/ Len(dst_dir \o name) >= path_max THEN NullString ELSE dst_dir \o name

-----------------------------------------------------------------------------
\* sscanf with %d.%d.%d: the numbers it finds, at most three.
RECURSIVE ScanVersion(_, _)
ScanVersion(s, n) ==
  LET number == strto(s)
  IN  IF n = 0 \/ number.end = 0 THEN <<>>
      ELSE <<number.value>> \o (IF At(s, number.end + 1) = "." THEN ScanVersion(From(s, number.end + 2), n - 1)
                                ELSE <<>>)

\* The first number that differs decides; a version that has fewer is equal to
\* those that begin with it.
CompareVersion(a, b) ==
  LET x == ScanVersion(a, 3)
      y == ScanVersion(b, 3)
      diff == {i \in DOMAIN x \cap DOMAIN y : x[i] # y[i]}
  IN  IF x = <<>> \/ y = <<>> THEN "VERSION_ERROR"
      ELSE IF diff = {} THEN "VERSION_EQUAL"
      ELSE IF x[First(diff)] > y[First(diff)] THEN "VERSION_GREATER" ELSE "VERSION_SMALLER"

CompareVersionExpression(a, operator, b) ==
  LET r == CompareVersion(a, b)
      holds == [eq |-> {"VERSION_EQUAL"}, gt |-> {"VERSION_GREATER"}, lt |-> {"VERSION_SMALLER"},
                ge |-> {"VERSION_GREATER", "VERSION_EQUAL"}, le |-> {"VERSION_SMALLER", "VERSION_EQUAL"},
                ne |-> {"VERSION_GREATER", "VERSION_SMALLER"}]
  IN  IF r = "VERSION_ERROR" \/ operator \notin DOMAIN holds THEN "BOOLEAN_ERROR"
      ELSE IF r \in holds[operator] THEN "TRUE" ELSE "FALSE"

-----------------------------------------------------------------------------
\* Strings written with their lengths are read back, whatever they hold; of a text
\* cut anywhere only whole strings are read or an error is told, and a text behind
\* them is read as what it is read as alone.  Splitting and joining give a text back.
SequencesReadBack(text, seps) ==
  LET parts == StringSplit(text, seps)
      written == SeqStringSerialize(parts)
  IN  /\ SeqStringDeserialize(written) = parts
      /\ SeqStringContains(parts, <<>>) <=> <<>> \in Range(parts)
      /\ \A n \in 0..(Len(written) - 1) :
           SeqStringDeserialize(Cut(written, n)) \in {NoSeq} \cup {Cut(parts, k) : k \in 0..Len(parts)}
      /\ LET behind == SeqStringDeserialize(text)
         IN  SeqStringDeserialize(written \o text) = IF behind = NoSeq THEN NoSeq ELSE parts \o behind
      /\ \A sep \in seps : StringJoin(String2StringArray(text, sep), <<sep>>) = text
      /\ Len(text) = SeqStringLength(parts) + Len(parts) - 1
      /\ StringJoin(CfReadLines(text), <<"\n">>) \o (IF text # <<>> /\ Last(text) = "\n" THEN <<"\n">> ELSE <<>>) = text

\* A name joined to a directory, in new memory or where it fits, is the base name
\* of the path, and that of a copy made elsewhere.  Of two
\* versions exactly one relation holds, the same from either side.
NamesExact(a, b) ==
  /\ PATH_SEPARATOR \notin Range(b) /\ b # <<>> => Path_Basename(Path_JoinAlloc(a, b)) = b
  /\ LET path == PathAppend(a, Len(a) + 3, b, PATH_SEPARATOR)
     IN  path.path = (IF path.ok THEN Path_JoinAlloc(a, b) ELSE a) /\ Len(path.path) < Len(a) + 3
  /\ LET copy == File_CopyToDir(Path_JoinAlloc(a, b), <<PATH_SEPARATOR>>, 4)
     IN  copy # NullString => Path_Basename(copy) = Path_Basename(Path_JoinAlloc(a, b)) /\ Len(copy) < 4
  /\ Path_GetQuoted(Path_GetQuoted(a)) = Path_GetQuoted(a)
  /\ CompareVersion(a, b) = "VERSION_ERROR" <=> CompareVersion(b, a) = "VERSION_ERROR"
  /\ CompareVersion(a, b) # "VERSION_ERROR" =>
       /\ CompareVersionExpression(a, "gt", b) = CompareVersionExpression(b, "lt", a)
       /\ Cardinality({op \in {"lt", "eq", "gt"} : CompareVersionExpression(a, op, b) = "TRUE"}) = 1
       /\ \A op \in {"lt", "eq", "gt"} : CompareVersionExpression(a, op, a) = (IF op = "eq" THEN "TRUE" ELSE "FALSE")
=============================================================================
