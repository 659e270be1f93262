------------------------------ MODULE XsScanner ------------------------------
(***************************************************************************)
(* The scanner of XS scripts (src/internal/xs/parse.go, xscanner): bytes   *)
(* to tokens and comments, each with the line, the column and the offset   *)
(* of its ends.  A source is a sequence of bytes of the classes the        *)
(* scanner tells apart, and an offset counts from 0 as in the code.        *)
(***************************************************************************)
EXTENDS Integers, Sequences, FiniteSets, FiniteSetsExt, SequencesExt

CONSTANT Sources        \* families of sources: bytes to choose from, and a length

VARIABLES bytes, source \* the family, and the source typed so far

letters == {"a", "x"}
digits  == {"0"}
blanks  == {" ", "\r", "\n"}
hexDigits == {"a", "0"}

multiCharOps == {<<"<", "=">>, <<"=", "=">>, <<"/", "=">>, <<"*", "=">>}
singleOps    == {"<", "=", "/", "*", "."}

------------------------------------------------------------------------------
(* A scan in progress: the next byte, and the line it is on. *)

byte(src, i) == IF i < Len(src) THEN src[i + 1] ELSE "eof"

\* The end of the run of bytes of a set that begins at i.
runEnd(src, i, set) == Min({j \in i..Len(src) : byte(src, j) \notin set})

at(s) == [line |-> s.line, column |-> s.pos - s.lineStart, offset |-> s.pos]

newLine(s, next) == [s EXCEPT !.line = @ + 1, !.lineStart = next, !.pos = next]

RECURSIVE skipSpace(_, _), skipBlockComment(_, _), scanString(_, _), scan(_, _, _)

skipSpace(src, s) ==
    CASE byte(src, s.pos) = "\n"         -> skipSpace(src, newLine(s, s.pos + 1))
      [] byte(src, s.pos) \in {" ", "\r"} -> skipSpace(src, [s EXCEPT !.pos = @ + 1])
      [] OTHER                           -> s

skipLineComment(src, s) ==
    [s EXCEPT !.pos = Min({j \in s.pos..Len(src) : byte(src, j) \in {"\n", "\r", "eof"}})]

\* From after the opening of a comment to after its end, or to the end of file.
skipBlockComment(src, s) ==
    CASE byte(src, s.pos) = "eof" -> s
      [] byte(src, s.pos) = "\n"  -> skipBlockComment(src, newLine(s, s.pos + 1))
      [] byte(src, s.pos) = "*" /\ byte(src, s.pos + 1) = "/" -> [s EXCEPT !.pos = @ + 2]
      [] OTHER -> skipBlockComment(src, [s EXCEPT !.pos = @ + 1])

\* Mutant: an escaped newline counts no line.
scanStringFlat(src, s) ==
    CASE byte(src, s.pos) = "\\" /\ byte(src, s.pos + 1) # "eof" ->
           scanString(src, [s EXCEPT !.pos = @ + 2])
      [] byte(src, s.pos) = "quote"         -> [s EXCEPT !.pos = @ + 1]
      [] byte(src, s.pos) \in {"\n", "eof"} -> s
      [] OTHER -> scanString(src, [s EXCEPT !.pos = @ + 1])

\* From after the opening quote; a string that is not closed ends with its
\* line, and an escaped newline does not end it.
scanString(src, s) ==
    CASE byte(src, s.pos) = "\\" /\ byte(src, s.pos + 1) = "\n" ->
           scanString(src, newLine(s, s.pos + 2))
      [] byte(src, s.pos) = "\\" /\ byte(src, s.pos + 1) \notin {"\n", "eof"} ->
           scanString(src, [s EXCEPT !.pos = @ + 2])
      [] byte(src, s.pos) = "quote"         -> [s EXCEPT !.pos = @ + 1]
      [] byte(src, s.pos) \in {"\n", "eof"} -> s
      [] OTHER -> scanString(src, [s EXCEPT !.pos = @ + 1])

\* Digits, a fraction when a digit follows the point, or a hexadecimal number.
numberEnd(src, i) ==
    LET whole    == runEnd(src, i, digits)
        fraction == byte(src, whole) = "." /\ byte(src, whole + 1) \in digits
    IN CASE byte(src, i) = "0" /\ byte(src, i + 1) = "x" -> runEnd(src, i + 2, hexDigits)
         [] fraction -> runEnd(src, whole + 1, digits)
         [] OTHER    -> whole

scanOp(src, i) ==
    CASE <<byte(src, i), byte(src, i + 1)>> \in multiCharOps -> i + 2
      [] <<byte(src, i), byte(src, i + 1)>> \notin multiCharOps
           /\ byte(src, i) \in singleOps -> i + 1
      [] OTHER -> i

\* The tokens and the comments, one extent after the other; a byte that begins
\* none of them is skipped.
scan(src, s0, out) ==
    LET s  == skipSpace(src, s0)
        c  == byte(src, s.pos)
        c2 == byte(src, s.pos + 1)
        extent(k, e) == scan(src, e, Append(out, [kind |-> k, start |-> at(s), end |-> at(e)]))
        to(i) == [s EXCEPT !.pos = i]
    IN CASE c = "eof" -> out
         [] c = "/" /\ c2 = "/" -> extent("comment", skipLineComment(src, s))
         [] c = "/" /\ c2 = "*" -> extent("comment", skipBlockComment(src, to(s.pos + 2)))
         [] c \in letters -> extent("ident", to(runEnd(src, s.pos, letters \cup digits)))
         [] c \in digits  -> extent("number", to(numberEnd(src, s.pos)))
         [] c = "quote"   -> extent("string", scanString(src, to(s.pos + 1)))
         [] c \in singleOps /\ ~(c = "/" /\ c2 \in {"/", "*"}) ->
              extent("op", to(scanOp(src, s.pos)))
         [] OTHER -> scan(src, to(s.pos + 1), out)

Scanned(src) == scan(src, [pos |-> 0, line |-> 0, lineStart |-> 0], <<>>)

------------------------------------------------------------------------------
(* Every source, one byte at a time. *)

Init == bytes \in Sources /\ source = <<>>
Next == /\ Len(source) < bytes.length
        /\ \E b \in bytes.of : source' = Append(source, b)
        /\ UNCHANGED bytes

------------------------------------------------------------------------------
(* Properties *)

\* The place of an offset, read off the source: the newlines before it and the
\* distance from the last one.
placeOf(src, i) ==
    LET breaks == {j \in 1..i : src[j] = "\n"}
    IN [line   |-> Cardinality(breaks),
        column |-> i - (IF breaks = {} THEN 0 ELSE Max(breaks)),
        offset |-> i]

crlf(src) == FoldLeft(LAMBDA out, b : IF b = "\n" THEN out \o <<"\r", b>> ELSE Append(out, b),
                      <<>>, src)

\* An extent without its offsets; the end of a string stands for nothing here
\* when the string was not closed, the carriage return is then in it.
onScreen(e) == <<e.kind, e.start.line, e.start.column,
                 IF e.kind = "string" THEN <<>> ELSE <<e.end.line, e.end.column>> >>

escapesNewline(src) == \E i \in 1..Len(src) - 1 : src[i] = "\\" /\ src[i + 1] = "\n"

\* The line and the column of every token and comment are those of its offset,
\* through strings and comments of several lines, and no two of them overlap.
\* And read with CR LF line ends a script has the tokens and the comments it has
\* with LF, in the same lines and columns, unless a newline is escaped
\* (xscanner.span and the counters of skipSpace, skipBlockComment, scanString;
\* skipLineComment, parse.go:1521-1526).
ScanFaithful ==
    LET lf == Scanned(source)
        cr == Scanned(crlf(source))
    IN /\ \A i \in DOMAIN lf :
            /\ lf[i].start = placeOf(source, lf[i].start.offset)
            /\ lf[i].end = placeOf(source, lf[i].end.offset)
            /\ lf[i].start.offset < lf[i].end.offset
            /\ i > 1 => lf[i - 1].end.offset <= lf[i].start.offset
       /\ ~escapesNewline(source) =>
            [i \in DOMAIN lf |-> onScreen(lf[i])] = [i \in DOMAIN cr |-> onScreen(cr[i])]
=============================================================================
