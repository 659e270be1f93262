----------------------------- MODULE RmsComments -----------------------------
(***************************************************************************)
(* Comments and inline XS regions of an RMS file                           *)
(* (src/internal/rms/parse.go): blankComments scans the raw lines before   *)
(* the walk, and keeps its own idea of the inline XS regions; the walk     *)
(* reads the blanked lines and has its own.  The two passes go line by     *)
(* line without looking ahead, so each action does both for one line.      *)
(* A line is a sequence of lexemes; a position is the pair <<line, column>>*)
(* and an extent is half open.  The names differ from those of RmsWalk, so *)
(* that one module can extend both.                                        *)
(***************************************************************************)
EXTENDS Integers, Sequences, FiniteSets, FiniteSetsExt, SequencesExt

\* The families of files explored, [lexemes, width, length] records: lines of at
\* most `width` of the lexemes "/*" "*/" "//" "quote" "#includeXS" "#const"
\* "#word" "<name>".
CONSTANT Files

VARIABLES
    file,        \* the family of files
    rawLines,    \* the lines read so far
    inBlock,     \* the scan is inside a block comment
    blockStart,  \* where that comment begins
    inRegion,    \* the scan is inside an inline XS region
    comments,    \* extents found by the scan
    shown,       \* the columns each line keeps after blanking
    walkInXs,    \* the walk is inside an inline XS region
    hashes       \* extents of the plain #-lines the walk met

scan == <<inBlock, blockStart, inRegion, comments, shown>>
walk == <<walkInXs, hashes>>
commentVars == <<file, rawLines, scan, walk>>

CommentsInit ==
    /\ file \in Files /\ rawLines = <<>>
    /\ inBlock = FALSE /\ blockStart = <<0, 0>> /\ inRegion = FALSE
    /\ comments = <<>> /\ shown = <<>>
    /\ walkInXs = FALSE /\ hashes = <<>>

Before(p, q) == p[1] < q[1] \/ (p[1] = q[1] /\ p[2] < q[2])
Extent(p, q) == [start |-> p, end |-> q]

row == Len(rawLines) + 1
EndOf(l, i) == <<i, Len(l) + 1>>

------------------------------------------------------------------------------
(* The class of a line, given the lexemes that count *)

sectionHeader(text)   == text = <<"<name>">>
isDirectiveLine(text) == text # <<>> /\ text[1] \in {"#includeXS", "#const"}
opensXsRegion(text)   == text # <<>> /\ text[1] = "#includeXS"
terminates(text)      == sectionHeader(text) \/ isDirectiveLine(text)

\* The open-block check reads the raw line up to its first comment marker.
xsTerminatorPrefix(l) ==
    LET marks == {j \in DOMAIN l : l[j] \in {"/*", "//"}}
    IN terminates(IF marks = {} THEN l ELSE SubSeq(l, 1, Min(marks) - 1))

------------------------------------------------------------------------------
(* The scan of one line *)

\* One lexeme: `s` is the mode, the comment that is open, the extents found and
\* the columns left visible.
ScanLexeme(l, s, j) ==
    LET at   == <<row, j>>
        keep == [s EXCEPT !.shown = Append(@, j)]
    IN CASE s.mode = "string" ->
              IF l[j] = "quote" THEN [keep EXCEPT !.mode = "text"] ELSE keep
         [] s.mode = "block" ->
              IF l[j] = "*/"
                THEN [s EXCEPT !.mode = "text",
                               !.found = Append(@, Extent(s.start, <<row, j + 1>>))]
                ELSE s
         [] s.mode = "rest" -> s
         [] s.mode = "text" /\ l[j] = "/*" -> [s EXCEPT !.mode = "block", !.start = at]
         [] s.mode = "text" /\ l[j] = "//" ->
              [s EXCEPT !.mode = "rest", !.found = Append(@, Extent(at, EndOf(l, row)))]
         [] s.mode = "text" /\ l[j] = "quote" -> [keep EXCEPT !.mode = "string"]
         [] OTHER -> keep

\* Mutant: an open block eats the terminator of its region.
clampedNever(l) == FALSE

\* The open block does not eat a region's terminator: it ends one line above.
clamped(l) == inRegion /\ inBlock /\ xsTerminatorPrefix(l)

\* The scan after each lexeme of a line.
ScanStates(l) ==
    LET after[j \in 0 .. Len(l)] ==
          IF j = 0
            THEN [mode  |-> IF inBlock /\ ~clamped(l) THEN "block" ELSE "text",
                  start |-> blockStart,
                  found |-> IF clamped(l)
                              THEN <<Extent(blockStart, EndOf(Last(rawLines), row - 1))>>
                              ELSE <<>>,
                  shown |-> <<>>]
            ELSE ScanLexeme(l, after[j - 1], j)
    IN after

ScanLine(l) == ScanStates(l)[Len(l)]

Text(l, cols) == [j \in DOMAIN cols |-> l[cols[j]]]

\* blankComments for one line: a block opened on the line that opens a region
\* ends with that line.
blankLine(l) ==
    LET s     == ScanLine(l)
        text  == Text(l, s.shown)
        still == inRegion /\ ~terminates(text)
        opens == ~still /\ opensXsRegion(text)
        cut   == opens /\ s.mode = "block"
    IN /\ shown' = Append(shown, s.shown)
       /\ inBlock' = (s.mode = "block" /\ ~cut)
       /\ blockStart' = s.start
       /\ inRegion' = (still \/ opens)
       /\ comments' = comments \o s.found
            \o (IF cut THEN <<Extent(s.start, EndOf(l, row))>> ELSE <<>>)

------------------------------------------------------------------------------
(* The walk of the same line, on what the scan left of it *)

walkLine(l, text, cols) ==
    LET inside == walkInXs /\ ~terminates(text)
        hash   == ~inside /\ text # <<>> /\ text[1] = "#word"
    IN /\ walkInXs' = (inside \/ opensXsRegion(text))
       /\ hashes' = IF hash
                      THEN Append(hashes, Extent(<<row, cols[1]>>, EndOf(l, row)))
                      ELSE hashes

RawLine(l) ==
    /\ Len(rawLines) < file.length
    /\ rawLines' = Append(rawLines, l)
    /\ blankLine(l)
    /\ LET cols == ScanLine(l).shown IN walkLine(l, Text(l, cols), cols)
    /\ UNCHANGED file

CommentsNext == \E l \in SeqOf(file.lexemes, file.width) : RawLine(l)

CommentsSpec == CommentsInit /\ [][CommentsNext]_commentVars

------------------------------------------------------------------------------
(* The end of the file: mergeComments *)

\* The block the scan ended inside, cut at the end of the file.
unclosed ==
    Extent(blockStart, IF rawLines = <<>> THEN <<1, 1>> ELSE EndOf(Last(rawLines), Len(rawLines)))

scanned == IF inBlock THEN Append(comments, unclosed) ELSE comments

\* The comments that begin inside a #-line and run past it, or are the
\* unclosed one: there the #-line ends.
crossing(h) ==
    {c \in ToSet(scanned) :
        /\ ~Before(c.start, h.start) /\ Before(c.start, h.end)
        /\ Before(h.end, c.end) \/ (inBlock /\ c.start = unclosed.start)}

commentCut(h) ==
    IF crossing(h) = {} THEN h
    ELSE [h EXCEPT !.end =
            (CHOOSE c \in crossing(h) :
                \A d \in crossing(h) : ~Before(d.start, c.start)).start]

insideRange(c, hs) ==
    \E i \in DOMAIN hs : ~Before(c.start, hs[i].start) /\ ~Before(hs[i].end, c.end)

\* The extents of the file: those of the #-lines, and of the comments not inside
\* one of `outer`.
extents(cut, outer) ==
    [k \in ({"hash"} \X DOMAIN cut)
             \cup ({"comment"} \X {i \in DOMAIN scanned : ~insideRange(scanned[i], outer)}) |->
        IF k[1] = "hash" THEN cut[k[2]] ELSE scanned[k[2]]]

\* Mutant: comments are compared with the #-lines before their cut.
mergeUncut == extents([i \in DOMAIN hashes |-> commentCut(hashes[i])], hashes)

\* The code sorts them, which changes no extent.
mergeComments ==
    LET cut == [i \in DOMAIN hashes |-> commentCut(hashes[i])] IN extents(cut, cut)

------------------------------------------------------------------------------
(* Properties *)

\* No comment opened in a region, on its first line or before it hides the line
\* that ends it: where the walk is in a region, a line that begins with a
\* terminator shows it, although the scan decides so from its own idea of the
\* regions (parse.go:971-976, 997-1004, 1039-1043).
TerminatorSeen ==
    [][walkInXs /\ rawLines' # rawLines /\ xsTerminatorPrefix(Last(rawLines'))
         => Contains(Last(shown'), 1)]_commentVars

In(p, e) == ~Before(p, e.start) /\ Before(p, e.end)

\* Every byte that the walk does not read is in exactly one comment extent, and
\* so is every byte of a #-line: the formatter that prints comments from their
\* extents loses none and prints none twice (mergeComments, parse.go:1102-1175).
CommentsCoverOnce ==
    LET found  == mergeComments
        holders(p) == {k \in DOMAIN found : In(p, found[k])}
    IN \A i \in DOMAIN rawLines : \A j \in DOMAIN rawLines[i] :
         IF ~Contains(shown[i], j) \/ (\E k \in DOMAIN hashes : In(<<i, j>>, hashes[k]))
           THEN \E k \in DOMAIN found : holders(<<i, j>>) = {k}
           ELSE holders(<<i, j>>) = {}

=============================================================================
