------------------------------- MODULE MCData -------------------------------
(***************************************************************************)
(* The containers, documents, texts and logs of libutils for TLC.  They    *)
(* share no state, so a behaviour is about one of them: its part.  Parts   *)
(* of the second kind read a text, which grows by one piece at a time.     *)
(***************************************************************************)
EXTENDS ThreadedStack, Sequence, Fifos, JsonDocuments, JsonText,
        Strings, StringSequence, Buffer, Writer, Csv, IpAddress, Logging

VARIABLES part,              \* what the behaviour is about
          text               \* the text so far

\* Strings from characters.
Each(chars) == {<<c>> : c \in chars}

MCJsonKeys == Each({"a", "0"})

\* An integer that does not fit in an int of four bits.
MCJsonPrimitives == {<<"integer", <<"9">>>>}

\* Memory with and without NUL characters.
MCWriterPieces ==
  {<<>>, <<"a">>, <<NUL>>, <<"b", "c">>, <<"a", NUL, "b">>, <<"d", "e", "f">>}

\* Fields with every character that matters to the format.
MCCsvFields ==
  {<<>>, <<"a">>, <<"\"">>, <<",", "b">>, <<"\r", "\n">>, <<" ">>, <<" ", "\"">>}

\* Numbers at the limits, both separators, brackets, and what does not belong.
MCIpPieces ==
  Each({"1", ":", ".", "[", "]", "x", "A"})
    \cup {<<"2", "3", ".">>, <<"2", "5", "6">>, <<"f", ":">>, <<":", "1", ":", "2", ":">>}

Word == [true |-> <<"t", "r", "u", "e">>, null |-> <<"n", "u", "l", "l">>]

\* The pieces a text is put together from, and its greatest length.
Pieces ==
  [parse |-> Each({"{", "}", "[", "]", ":", ",", "\"", "\\", " ", "a", "u", "0", "1", "-", ".", "e"})
               \cup {Word.true, Word.null},
   quote     |-> Each({"\\", "\"", "n", "u", "0", "\n", "xE9"}),
   strings   |-> Each({"a", "b", "\\", ",", " ", "1", "9", "-"}),
   sequences |-> Each({"a", "\n", ",", " ", "1", "9", ".", "/", "\""}),
   replace   |-> Each({"$", "\\", "1", "2", "&", "+", "a"})]

MaxText == [parse |-> 5, quote |-> 4, strings |-> 5, sequences |-> 4, replace |-> 5]

MCInit ==
  /\ part \in {"stack", "seq", "ring", "queue", "json", "buffer", "writer", "csv", "ip", "log"}
              \cup DOMAIN Pieces
  /\ text = <<>>
  /\ Init /\ SeqInit /\ RingInit /\ QueueInit /\ JsonDocInit /\ BufferInit
  /\ WriterInit /\ CsvInit /\ IpInit /\ LogInit
  \* initial states of the other parts are told apart only there
  /\ part # "seq" => ItemDestroy = "set"
  /\ part # "ring" => buf.destroy
  /\ part # "csv" => csvw.terminate_last_line
  /\ part # "json" => doc[2].type = "object"

\* A behaviour about p leaves everything else alone.
Rest(p) ==
  /\ UNCHANGED part
  /\ IF p = "stack"  THEN TRUE ELSE UNCHANGED vars
  /\ IF p = "seq"    THEN TRUE ELSE UNCHANGED seqVars
  /\ IF p = "ring"   THEN TRUE ELSE UNCHANGED ringVars
  /\ IF p = "queue"  THEN TRUE ELSE UNCHANGED queueVars
  /\ IF p = "json"   THEN TRUE ELSE UNCHANGED jsonVars
  /\ IF p = "buffer" THEN TRUE ELSE UNCHANGED bufferVars
  /\ IF p = "writer" THEN TRUE ELSE UNCHANGED writerVars
  /\ IF p = "csv"    THEN TRUE ELSE UNCHANGED csvVars
  /\ IF p = "ip"     THEN TRUE ELSE UNCHANGED ipVars
  /\ IF p = "log"    THEN TRUE ELSE UNCHANGED logVars
  /\ IF p \in DOMAIN Pieces THEN TRUE ELSE UNCHANGED text

\* A JSON text is not continued behind the place where the parser stopped.
Read ==
  /\ Len(text) < MaxText[part]
  /\ part = "parse" => JsonParse(text).at >= Len(text)
  /\ \E piece \in Pieces[part] : text' = text \o piece

MCNext ==
  \/ part = "stack"  /\ Next        /\ Rest("stack")
  \/ part = "seq"    /\ SeqNext     /\ Rest("seq")
  \/ part = "ring"   /\ RingNext    /\ Rest("ring")
  \/ part = "queue"  /\ QueueNext   /\ Rest("queue")
  \/ part = "json"   /\ JsonDocNext /\ Rest("json")
  \/ part = "buffer" /\ BufferNext  /\ Rest("buffer")
  \/ part = "writer" /\ WriterNext  /\ Rest("writer")
  \/ part = "csv"    /\ CsvNext     /\ Rest("csv")
  \/ part = "ip"     /\ IpNext      /\ Rest("ip")
  \/ part = "log"    /\ LogNext     /\ Rest("log")
  \/ part \in DOMAIN Pieces /\ Read /\ Rest(part)

MCSpec ==
  MCInit /\ [][MCNext]_<<part, text, vars, seqVars, ringVars, queueVars, jsonVars, bufferVars,
                         writerVars, csvVars, ipVars, logVars>>

\* Threads are alike; Threads and LogThreads have the same members.
Symmetry == Permutations(LogThreads)

-----------------------------------------------------------------------------
\* Sequences: one owner for every item through removals, splits and filters, and
\* sorting and searching any contents.
SequenceExact == part = "seq" => SeqExact

\* JSON documents: unique keys, comparison and merging by what documents mean, and
\* iterations that only the first write of a document disturbs.
DocumentsExact == part = "json" => JsonDocumentsExact

\* CSV files give back the records that were written, but for the last one of a file
\* whose last line is not ended.
CsvExact == part = "csv" => CsvRoundTrip

\* Addresses are read as what they denote, but for the texts that are misread, and
\* read again from what they are printed as.
AddressesExact == part = "ip" => AddressesReadBack

\* Of every text that was read: if JsonParseAll accepts it, it has matched brackets
\* and comes back from both ways of writing it; strings and keys come back from
\* their encoding, and string values from the text they are written as unless they
\* hold a backslash, which the parser decodes twice.
JsonRead(t) ==
  /\ part = "parse" => ParsedWell(t)
  /\ part = "quote" => EncodedWell(t) /\ ("\\" \notin Range(t) => StringSurvives(t))
JsonTextExact == [][JsonRead(text')]_text

\* Of every text that was read: replacing in a buffer is replacing in new memory as
\* long as it fits, tokens and parts lose no character, numbers are accepted exactly
\* if they are numbers of their type.  Sequences of strings are read back from their
\* serialization and from its beginnings only in whole strings; what is cut to a size
\* is a beginning of the text, and what is taken out of it fits back; names are the
\* last parts of the paths they were joined to, and of two versions exactly one
\* relation holds.
StringRead(t) ==
  /\ part = "strings" =>
       /\ \A find \in {<<"a">>, <<"a", "a">>, <<",">>}, replace \in {<<>>, <<"b">>, <<"a", "b">>} :
             \A size \in 3..7 : ReplacingExact(t, find, replace, size)
       /\ SplittingExact(t, {",", " "})
       /\ EscapingFits(t, ",")
       /\ NumbersExact(t)
  /\ part = "sequences" =>
       /\ SequencesReadBack(t, {",", "\n"})
       /\ \A n \in 0..Len(t) : NamesExact(Cut(t, n), From(t, n + 1))
       /\ \A size \in 1..6 : CutsExact(t, size)
       /\ PartsExact(t)
StringsExact == [][StringRead(text')]_text

\* What the substitutions of BufferSearchAndReplace are tried on: the match "a"
\* between "x" and "y" with one group.
SampleMatch == [before |-> <<"x">>, text |-> <<"a">>, after |-> <<"y">>, groups |-> <<<<"c">>>>]

\* A buffer contains what the operations put there, through switches of mode and
\* growth; the sequences of a replacement stand for the parts of the match.
\* Writers and the fixed buffers of StrCat hold what they were given as far as it
\* fits, ended by a NUL inside their memory.
BuffersExact ==
  /\ part = "buffer" => BufferExact
  /\ part = "replace" => ReplacementExact(text, SampleMatch)
  /\ part = "writer" => WritersExact

\* Every message goes once to each place its level asks for, in order, or waits in
\* the buffer, or was refused; and every thread logs by the levels of the process
\* as it last saw them.
LoggingExact == part = "log" => MessagesWrittenOnce /\ LevelsFollowGlobals
=============================================================================
