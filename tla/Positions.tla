------------------------------ MODULE Positions ------------------------------
(***************************************************************************)
(* The columns of a document (src/internal/server/server.go): bytes in the *)
(* parsers, UTF-16 code units in the protocol, and the columns and offsets *)
(* of an inline XS block in its RMS file.  A text is a sequence of         *)
(* characters of the widths the code tells apart; CR LF is one of them,    *)
(* the others are named for what they take.                                *)
(***************************************************************************)
EXTENDS Integers, Sequences, FiniteSets, FiniteSetsExt, SequencesExt

CONSTANT MaxChars       \* bound: characters typed

VARIABLE chars          \* the document of the editor

Characters == {"ascii", "wide", "pair", "lf", "crlf"}

breaks == {"lf", "crlf"}

bytes    == [c \in Characters |->
               CASE c = "wide" -> 2 [] c = "pair" -> 4 [] c = "crlf" -> 2 [] OTHER -> 1]
units    == [c \in Characters |-> CASE c = "pair" -> 2 [] c = "crlf" -> 2 [] OTHER -> 1]
newlines == [c \in Characters |-> IF c \in breaks THEN 1 ELSE 0]

\* What the first k characters of a text take.
taken(text, width) ==
    LET first[k \in 0..Len(text)] == IF k = 0 THEN 0 ELSE first[k - 1] + width[text[k]]
    IN first

total(text, width) == taken(text, width)[Len(text)]

Pos(line, column, offset) == [line |-> line, column |-> column, offset |-> offset]

------------------------------------------------------------------------------
(* Lines *)

\* The n-th line from 0; nothing beyond the end.  The carriage return of CR LF
\* is a byte of its line.
lineOf(text, n) ==
    LET ends   == {k \in 0..Len(text) : taken(text, newlines)[k] = n}
        last   == Max(ends)
        return == IF last < Len(text) /\ text[last + 1] = "crlf" THEN <<"ascii">> ELSE <<>>
    IN IF ends = {} THEN <<>> ELSE SubSeq(text, Min(ends) + 1, last) \o return

\* The characters of a line that end before a column.
before(line, column, width) == Max({k \in 0..Len(line) : taken(line, width)[k] <= column})

\* Mutant: a character is a unit.
byteToUTF16Runes(line, column) ==
    LET col   == Min({column, total(line, bytes)})
        whole == before(line, col, bytes)
    IN whole + (col - taken(line, bytes)[whole])

\* A column inside a character counts each byte before it as one unit.
byteToUTF16(line, column) ==
    LET col   == Min({column, total(line, bytes)})
        whole == before(line, col, bytes)
    IN taken(line, units)[whole] + (col - taken(line, bytes)[whole])

\* A column inside a surrogate pair is the start of its character, one past the
\* end of the line its end.
utf16ToByte(line, character) == taken(line, bytes)[before(line, character, units)]

------------------------------------------------------------------------------
(* Positions of the parsers and of the protocol *)

toProtocolPos(text, utf16, p) ==
    [line |-> p.line,
     character |-> IF utf16 THEN byteToUTF16(lineOf(text, p.line), p.column) ELSE p.column]

\* A document that is not open has no text to translate against.
fromProtocolPos(text, utf16, p) ==
    [line |-> p.line,
     column |-> IF utf16 /\ text # <<>> THEN utf16ToByte(lineOf(text, p.line), p.character)
                ELSE p.character]

\* The line after the last newline, and its length in bytes.
endOfDocument(text) ==
    LET line == total(text, newlines)
    IN [line |-> line, column |-> total(lineOf(text, line), bytes)]

------------------------------------------------------------------------------
(* Inline XS blocks *)

\* Mutant: the column of the block counts on every line.
shiftPosAlways(p, base) ==
    Pos(p.line + base.line, p.column + base.column, p.offset + base.offset)

shiftPos(p, base) ==
    Pos(p.line + base.line, p.column + (IF p.line = 0 THEN base.column ELSE 0),
        p.offset + base.offset)

unshiftPos(p, base) ==
    Pos(p.line - base.line, p.column - (IF p.line = base.line THEN base.column ELSE 0),
        p.offset - base.offset)

\* The RMS parser, and the blocks in it, count on a text without CR LF.
normalized(text) == [i \in DOMAIN text |-> IF text[i] = "crlf" THEN "lf" ELSE text[i]]

\* The characters between two offsets of a text, if they fall between characters.
slice(text, from, to) ==
    {SubSeq(text, p[1] + 1, p[2]) :
       p \in {q \in (0..Len(text)) \X (0..Len(text)) :
                taken(text, bytes)[q[1]] = from /\ taken(text, bytes)[q[2]] = to}}

\* The name at a range, read back from the text: the offsets of an RMS parse
\* are those of the normalized text, an XS file is parsed as it is.
siteText(text, isRms, range) ==
    slice(IF isRms THEN normalized(text) ELSE text, range.start.offset, range.end.offset)

\* nameAt of the resolver reads the words of an RMS file from the text as it is.
nameText(text, range) == slice(text, range.start.offset, range.end.offset)

------------------------------------------------------------------------------
(* Every text, one character after the other. *)

TextInit == chars = <<>>
TypeChar(c) == Len(chars) < MaxChars /\ chars' = Append(chars, c)
TextNext == \E c \in Characters : TypeChar(c)
TextSpec == TextInit /\ [][TextNext]_chars

------------------------------------------------------------------------------
(* Properties *)

\* The place after the first k characters, counted with one width a character.
placeOf(text, k, width) ==
    LET passed == {i \in 1..k : text[i] \in breaks}
        last   == Max({0} \cup passed)
    IN Pos(Cardinality(passed), total(SubSeq(text, last + 1, k), width),
           total(SubSeq(text, 1, k), width))

inBytes(k) == placeOf(chars, k, bytes)
inUnits(k) == placeOf(chars, k, units)
Ends       == 0..Len(chars)

sameColumns(utf16, k) ==
    LET parser == inBytes(k)
        editor == IF utf16 THEN inUnits(k) ELSE parser
    IN /\ toProtocolPos(chars, utf16, parser) = [line |-> editor.line, character |-> editor.column]
       /\ fromProtocolPos(chars, utf16, [line |-> editor.line, character |-> editor.column])
            = [line |-> parser.line, column |-> parser.column]

\* The place of a cursor on a line: the last character boundary of the line that
\* is not after it.
cursorOn(line, character) ==
    LET ends == {k \in Ends : inUnits(k).line = line /\ inUnits(k).column <= character}
    IN inBytes(Max(ends)).column

\* Every boundary between characters has one column in bytes and one in units,
\* each found from the other; a cursor anywhere else means the boundary before
\* it; and the edit of a format reaches the end of the text (toProtocolPos,
\* fromProtocolPos, byteToUTF16, utf16ToByte, endOfDocument of server.go).
ColumnsExact ==
    /\ \A utf16 \in BOOLEAN : \A k \in Ends : sameColumns(utf16, k)
    /\ chars # <<>> => \A line \in 0..inUnits(Len(chars)).line : \A character \in 0..2 * Len(chars) + 2 :
         "crlf" \notin ToSet(chars) =>
           fromProtocolPos(chars, TRUE, [line |-> line, character |-> character]).column
             = cursorOn(line, character)
    /\ LET end == inBytes(Len(chars))
       IN endOfDocument(chars) = [line |-> end.line, column |-> end.column]

\* A block that is the text from character i to character j: each place in it is
\* that place of the file, whatever line and column the block begins at, and a
\* name is read back from the text its offsets are those of.  References and
\* Definition read the name at a word of an RMS file from the text of the editor
\* instead: only before the first CR LF is it that name (shiftPos, unshiftPos,
\* siteText of server.go and of resolver.go; nameAt, resolver.go:805-826).
BlocksAgree ==
    LET file == normalized(chars)
        at(text, k) == placeOf(text, k, bytes)
        range(i, j) == [start |-> at(file, i), end |-> at(file, j)]
        agrees(i, j) ==
          LET code == SubSeq(file, i + 1, j)
              base == at(file, i)
          IN \A k \in 0..Len(code) :
               /\ shiftPos(at(code, k), base) = at(file, i + k)
               /\ unshiftPos(at(file, i + k), base) = at(code, k)
        named(i, j) ==
          /\ siteText(chars, TRUE, range(i, j)) = {SubSeq(file, i + 1, j)}
          /\ siteText(chars, FALSE, [start |-> inBytes(i), end |-> inBytes(j)])
               = {SubSeq(chars, i + 1, j)}
          /\ "crlf" \notin ToSet(SubSeq(chars, 1, j)) =>
               nameText(chars, range(i, j)) = {SubSeq(chars, i + 1, j)}
    IN \A i \in Ends : \A j \in i..Len(chars) : agrees(i, j) /\ named(i, j)
=============================================================================
