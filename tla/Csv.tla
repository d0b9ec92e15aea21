-------------------------------- MODULE Csv ---------------------------------
(***************************************************************************)
(* libutils/csv_writer.c and csv_parser.c: records are written field by    *)
(* field to a file, which is read line by line and parsed.                 *)
(***************************************************************************)
EXTENDS Strings

CONSTANTS CsvFields,         \* strings that are written
          MAX_CSV_FIELDS     \* bound: fields and records written

VARIABLES csvw,              \* struct CsvWriter and what it has written
          records            \* the records: sequences of fields

csvVars == <<csvw, records>>

CRLF == <<"\r", "\n">>

-----------------------------------------------------------------------------
WriteCsvEscapedString(s) == <<"\"">> \o SearchAndReplace(s, <<"\"">>, <<"\"", "\"">>) \o <<"\"">>

NeedsQuotes(s) == Range(s) \cap {"\"", ",", "\r", "\n"} # {}

FieldText(s) == IF NeedsQuotes(s) THEN WriteCsvEscapedString(s) ELSE s

\* CsvWriterOpenSpecifyTerminate, also for CsvWriterOpen.
CsvInit ==
  /\ \E terminate_last_line \in BOOLEAN :
        csvw = [text |-> <<>>, beginning_of_line |-> TRUE, terminate_last_line |-> terminate_last_line]
  /\ records = <<>>

Written_ == FoldLeft(LAMBDA n, r : n + 1 + Len(r), 0, records)

\* CsvWriterField, also for CsvWriterFieldF.
CsvWriterField(s) ==
  /\ csvw' = [csvw EXCEPT !.text = @ \o (IF csvw.beginning_of_line THEN <<>> ELSE <<",">>) \o FieldText(s),
                          !.beginning_of_line = FALSE]
  /\ records' = IF csvw.beginning_of_line THEN Append(records, <<s>>)
                ELSE [records EXCEPT ![Len(records)] = Append(@, s)]

\* A record without fields is a line that is empty.
CsvWriterNewRecord ==
  /\ csvw' = [csvw EXCEPT !.text = @ \o CRLF, !.beginning_of_line = TRUE]
  /\ records' = IF csvw.beginning_of_line THEN Append(records, <<<<>>>>) ELSE records

CsvNext == Written_ < MAX_CSV_FIELDS /\ (CsvWriterNewRecord \/ \E s \in CsvFields : CsvWriterField(s))

\* What CsvWriterClose leaves.
CsvWriterClose ==
  IF ~csvw.beginning_of_line /\ csvw.terminate_last_line THEN csvw.text \o CRLF ELSE csvw.text

-----------------------------------------------------------------------------
\* The automaton of LaunchCsvAutomata: its state, the field in snatched, where
\* memory that was never written is "junk", the position sn in it (0 is NULL),
\* and the fields found.
Blank(c) == c \in {" ", "\t", "\n", "\r"}

Snatched(z) == LET nul == {i \in DOMAIN z.snatched : z.snatched[i] = NUL}
               IN  IF nul = {} THEN z.snatched ELSE Cut(z.snatched, First(nul) - 1)

Put(z, c) == [z EXCEPT !.snatched[z.sn] = c, !.sn = @ + 1]
End(z) == [z EXCEPT !.snatched[z.sn] = NUL, !.sn = 0]
Clear(z) == [z EXCEPT !.snatched[1] = NUL]
Restart(z) == [z EXCEPT !.sn = 1]
Forget(z) == [Clear(z) EXCEPT !.sn = 0]
Found(z) == [z EXCEPT !.newlist = Append(@, Snatched(z))]
To(state, z) == [z EXCEPT !.state = state]

NewLine(z, c) ==
  IF c = "," THEN To("SEPARATOR", [End(z) EXCEPT !.newlist = Append(@, <<>>)])
  ELSE IF c = "\"" THEN To("LEADING_QUOTE", Forget(z))
  ELSE To(IF Blank(c) THEN "PRE_START_SPACE" ELSE "NO_QUOTE_MODE", Put(z, c))

PreStartSpace(z, c) ==
  IF c = "," THEN To("SEPARATOR", Clear(Found(End(z))))
  ELSE IF c = "\"" THEN To("LEADING_QUOTE", Forget(z))
  ELSE To(IF Blank(c) THEN "PRE_START_SPACE" ELSE "NO_QUOTE_MODE", Put(z, c))

NoQuoteMode(z, c) ==
  IF c = "," THEN To("SEPARATOR", Clear(Found(End(z))))
  ELSE IF c = "\"" THEN To("ERROR", Forget(z))
  ELSE To("NO_QUOTE_MODE", Put(z, c))

Separator(z, c) ==
  IF c = "," THEN To("SEPARATOR", Found(Forget(z)))
  ELSE IF c = "\"" THEN To("LEADING_QUOTE", Forget(z))
  ELSE To(IF Blank(c) THEN "PRE_START_SPACE" ELSE "NO_QUOTE_MODE", Put(Restart(z), c))

LeadingQuote(z, c) ==
  IF c = "\"" THEN To("INTERNAL_QUOTE", Restart(z)) ELSE To("WITH_QUOTE_MODE", Put(Restart(z), c))

\* Mutant: a doubled quote ends the field.
InternalQuoteSingle(z, c) ==
  IF c = "," THEN To("SEPARATOR", Found(End(z)))
  ELSE IF Blank(c) THEN To("SPACE_AFTER_QUOTE", z)
  ELSE To("ERROR", [Clear(z) EXCEPT !.sn = @ + 1])

\* The field stays in snatched behind a separator, and is not ended by a blank.
InternalQuote(z, c) ==
  IF c = "," THEN To("SEPARATOR", Found(End(z)))
  ELSE IF Blank(c) THEN To("SPACE_AFTER_QUOTE", z)
  ELSE IF c = "\"" THEN To("WITH_QUOTE_MODE", Put(z, c))
  ELSE To("ERROR", [Clear(z) EXCEPT !.sn = @ + 1])

WithQuoteMode(z, c) == IF c = "\"" THEN To("INTERNAL_QUOTE", z) ELSE Put(z, c)

SpaceAfterQuote(z, c) ==
  IF c = "," THEN To("SEPARATOR", Found([z EXCEPT !.sn = 0]))
  ELSE IF Blank(c) THEN (IF z.sn # 0 THEN End(z) ELSE z)
  ELSE To("ERROR", Forget(z))

CsvStep(z, c) ==
  CASE z.state = "NEW_LINE"          -> NewLine(z, c)
    [] z.state = "PRE_START_SPACE"   -> PreStartSpace(z, c)
    [] z.state = "NO_QUOTE_MODE"     -> NoQuoteMode(z, c)
    [] z.state = "SEPARATOR"         -> Separator(z, c)
    [] z.state = "LEADING_QUOTE"     -> LeadingQuote(z, c)
    [] z.state = "INTERNAL_QUOTE"    -> InternalQuote(z, c)
    [] z.state = "WITH_QUOTE_MODE"   -> WithQuoteMode(z, c)
    [] z.state = "SPACE_AFTER_QUOTE" -> SpaceAfterQuote(z, c)
    [] OTHER                         -> To("MALFORMED", z)

\* The end of the string: an open quote is an error, the rest is a field.
CsvEnd(z) ==
  LET last == Snatched(IF z.sn # 0 THEN End(z) ELSE z)
  IN  IF z.state \in {"LEADING_QUOTE", "WITH_QUOTE_MODE"} THEN [ok |-> FALSE, newlist |-> <<>>]
      ELSE [ok |-> TRUE, newlist |-> Append(z.newlist, IF z.state \in {"NO_QUOTE_MODE", "PRE_START_SPACE"}
                                                       THEN TrimCSVLineCRLF(last) ELSE last)]

\* An error shows at the character behind it, if there is one.
SeqParseCsvString(s) ==
  LET z == FoldLeft(CsvStep, [state |-> "NEW_LINE", sn |-> 1, newlist |-> <<>>,
                              snatched |-> [i \in 1..(Len(s) + 1) |-> IF i = 1 THEN NUL ELSE "junk"]], s)
  IN  IF z.state = "MALFORMED" THEN [ok |-> FALSE, newlist |-> <<>>] ELSE CsvEnd(z)

\* GetCsvLineNext: the line from a position of a file on, without its end.
RECURSIVE LineFrom(_, _, _, _)
LineFrom(file, i, prev, in_quotes) ==
  IF i > Len(file) THEN <<>>
  ELSE LET c == file[i]
       IN  IF c = "\"" THEN <<c>> \o LineFrom(file, i + 1, c, ~in_quotes)
           ELSE IF ~in_quotes /\ c = "\n" /\ prev = "\r" THEN <<c>>
           ELSE <<c>> \o LineFrom(file, i + 1, c, in_quotes)

RECURSIVE Lines(_, _)
Lines(file, i) ==
  LET line == LineFrom(file, i, NUL, FALSE)
  IN  IF line = <<>> THEN <<>> ELSE <<line>> \o Lines(file, i + Len(line))

-----------------------------------------------------------------------------
\* What reading the closed file line by line gives.
ReadBack ==
  LET lines == Lines(CsvWriterClose, 1)
  IN  [i \in DOMAIN lines |-> SeqParseCsvString(lines[i])]

Accepted(rs) == [i \in DOMAIN rs |-> [ok |-> TRUE, newlist |-> rs[i]]]

\* The two last records that do not survive in a file whose last line is not ended:
\* one empty field has no text, and an empty field behind a quoted one is read as
\* that one again, because the parser left it in snatched.
Remembered ==
  LET last == Len(records)
      n == Len(records[last])
  IN  IF csvw.terminate_last_line \/ csvw.beginning_of_line THEN records
      ELSE IF records[last] = <<<<>>>> THEN Front(records)
      ELSE IF n > 1 /\ records[last][n] = <<>> /\ NeedsQuotes(records[last][n - 1])
           THEN [records EXCEPT ![last][n] = records[last][n - 1]]
      ELSE records

\* A file gives the records that were written, whatever quotes, separators and
\* line ends the fields hold, and with or without the end of its last line but for
\* the two records above.
CsvRoundTrip == ReadBack = Accepted(Remembered)
=============================================================================
