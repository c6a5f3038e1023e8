------------------------------- MODULE HTTPHeader -------------------------------
(***************************************************************************)
(* HTTPHeader (src/src/HTTPHeader.cxx): the three words of the first line   *)
(* and the fields of a header.  A text is a sequence of character codes and *)
(* is read the way std::stringstream does.                                  *)
(***************************************************************************)
EXTENDS Integers, Sequences, SequencesExt

NewLine == 10
Return == 13
Space == 32
Blank == {9, 10, 11, 12, Return, Space}
Word == Seq((0 .. 255) \ Blank) \ {<<>>}

NoHeader ==
  [AccessType |-> <<>>, AccessPath |-> <<>>, AccessProtocol |-> <<>>, HeaderFields |-> <<>>]

\* The first position from i on that is one of S, or the end of the text.
FirstOf(text, i, S) == Min({j \in i .. Len(text) : text[j] \in S} \cup {Len(text) + 1})

WordStart(text, i) == FirstOf(text, i, Range(text) \ Blank)
WordEnd(text, i) == FirstOf(text, WordStart(text, i), Blank)

\* stream >> word leaves the word alone when only blanks are left.
Read(text, i, word) ==
  IF WordStart(text, i) > Len(text) THEN word
  ELSE SubSeq(text, WordStart(text, i), WordEnd(text, i) - 1)

\* What a field had before is replaced.
SetValue(fields, field, value) ==
  [f \in DOMAIN fields \cup {field} |-> IF f = field THEN value ELSE fields[f]]

\* Mutant: the field keeps its colon, and is stored again at the end of the stream.
ReadFieldWithColon(text, s) ==
  LET behind == WordEnd(text, s.at)
      end    == FirstOf(text, behind, {NewLine})
      Field  == Read(text, s.at, s.Field)
      Value  == IF behind > Len(text) THEN s.Value ELSE SubSeq(text, behind, end - 1)
  IN IF Len(Field) <= 3 \/ Len(Value) <= 1 THEN [s EXCEPT !.good = FALSE]
     ELSE [at |-> end + 1, good |-> end <= Len(text), Field |-> Field, Value |-> Tail(Value),
           HeaderFields |-> SetValue(s.HeaderFields, Front(Field), Tail(Value))]

\* One turn of the loop: a word, and the rest of its line.  A stream at its end gives
\* neither, and the strings keep what they had.  Fields that are too short end the loop.
ReadField(text, s) ==
  LET behind == WordEnd(text, s.at)
      end    == FirstOf(text, behind, {NewLine})
      Field  == Read(text, s.at, s.Field)
      Value  == IF behind > Len(text) THEN s.Value ELSE SubSeq(text, behind, end - 1)
  IN IF Len(Field) <= 3 \/ Len(Value) <= 1 THEN [s EXCEPT !.good = FALSE]
     ELSE [at |-> end + 1, good |-> end <= Len(text), Field |-> Front(Field), Value |-> Tail(Value),
           HeaderFields |-> SetValue(s.HeaderFields, Front(Field), Tail(Value))]

\* Adds the fields of a text, and replaces the words of the first line by its first three
\* words, be they what they may.
ImportHeader(header, text) ==
  LET second == WordEnd(text, 1)
      third  == WordEnd(text, second)
      fields == WordEnd(text, third)
      start  == [at |-> fields, good |-> fields <= Len(text), Field |-> <<>>, Value |-> <<>>,
                 HeaderFields |-> header.HeaderFields]
      lines  == Cardinality({i \in DOMAIN text : text[i] = NewLine}) + 1
      loop[k \in 0 .. lines] ==
        IF k = 0 THEN start
        ELSE LET s == loop[k - 1] IN IF s.good THEN ReadField(text, s) ELSE s
  IN [AccessType     |-> Read(text, 1, header.AccessType),
      AccessPath     |-> Read(text, second, header.AccessPath),
      AccessProtocol |-> Read(text, third, header.AccessProtocol),
      HeaderFields   |-> loop[lines].HeaderFields]

GetValue(header, field) ==
  IF field \in DOMAIN header.HeaderFields THEN header.HeaderFields[field] ELSE <<>>
================================================================================
