----------------------------- MODULE TextProofs ------------------------------
(***************************************************************************)
(* The comments of an RMS file, for lines of any lexemes and files of any  *)
(* length, and the columns of a text, for every text.                      *)
(*                                                                         *)
(* The scan of a line is a recursive function of the number of lexemes     *)
(* read, so what it does to a line is an induction over that number        *)
(* (ScanKeeps).  What it does to a file is the invariant: the extents found*)
(* so far lie one after the other, and with the comment that is open they  *)
(* hold exactly the places no line shows (Covered).                        *)
(*                                                                         *)
(* What characters take is a sum over the first k of them (taken).  Sums   *)
(* over prefixes grow with the prefix (TakenGrows), and those of a part of *)
(* a text are differences of those of the text (TakenAlike).  A line is    *)
(* the places with as many line breaks before them (LineIs), so its columns*)
(* are such differences, in bytes as in units, and each is found from the  *)
(* other; so are the places of a block.                                    *)
(***************************************************************************)
EXTENDS RmsComments, Positions, FiniteSetTheorems, SequenceTheorems, TLAPS

\* What holds of 0, and of k + 1 with k, holds up to n.
LEMMA UpTo ==
    ASSUME NEW n \in Nat, NEW S, 0 \in S, \A k \in 0 .. n - 1 : k \in S => k + 1 \in S
    PROVE  \A k \in 0 .. n : k \in S
<1> DEFINE T == (0 .. n) \ S
           F == {0 .. x : x \in T}
<1> SUFFICES ASSUME T # {} PROVE FALSE
  OBVIOUS
<1>1. F \subseteq FiniteSubsetsOf(0 .. n) /\ F # {}
  <2>1. ASSUME NEW x \in T PROVE 0 .. x \in SUBSET (0 .. n) /\ IsFiniteSet(0 .. x)
    BY FS_Interval
  <2> QED BY <2>1 DEF FiniteSubsetsOf
<1>2. IsFiniteSet(0 .. n)
  BY FS_Interval
<1>3. PICK f \in F : \A g \in F : ~(<<g, f>> \in StrictSubsetOrdering(0 .. n))
  BY <1>1, <1>2, FS_StrictSubsetOrderingWellFounded, WFMin
<1>4. PICK x \in T : f = 0 .. x
  BY <1>3
<1>5. x # 0 /\ x - 1 \in 0 .. n - 1 /\ x - 1 \notin S
  BY <1>4
<1>6. x - 1 \in T /\ 0 .. x - 1 \subseteq 0 .. x /\ 0 .. x - 1 # 0 .. x
  BY <1>5
<1>7. <<0 .. x - 1, f>> \in StrictSubsetOrdering(0 .. n)
  BY <1>4, <1>6 DEF StrictSubsetOrdering
<1> QED BY <1>3, <1>6, <1>7

------------------------------------------------------------------------------
(* Places and extents *)

Place    == Nat \X Nat
Extents  == [start : Place, end : Place]
Lexemes  == UNION {f.lexemes : f \in Files}
Modes    == {"text", "string", "block", "rest"}

\* Extents one after the other, none of them empty.
Ordered(cs) ==
    /\ \A k \in DOMAIN cs : Before(cs[k].start, cs[k].end)
    /\ \A k, m \in DOMAIN cs : k < m => ~Before(cs[m].start, cs[k].end)

HeldBy(cs, p) == \E k \in DOMAIN cs : In(p, cs[k])

\* No extent ends after a place.
UpToPlace(cs, p) == \A k \in DOMAIN cs : ~Before(p, cs[k].end)

LEMMA BeforeOrder ==
    ASSUME NEW p \in Place, NEW q \in Place, NEW r \in Place
    PROVE  /\ ~Before(p, p)
           /\ Before(p, q) => ~Before(q, p)
           /\ ~Before(p, q) /\ ~Before(q, p) => p = q
           /\ Before(p, q) /\ ~Before(r, q) => Before(p, r)
           /\ ~Before(q, p) /\ Before(q, r) => Before(p, r)
           /\ ~Before(q, p) /\ ~Before(r, q) => ~Before(r, p)
BY DEF Place, Before

\* One extent more.
LEMMA OneMore ==
    ASSUME NEW cs \in Seq(Extents), NEW e \in Extents
    PROVE  /\ Append(cs, e) \in Seq(Extents)
           /\ \A p : HeldBy(Append(cs, e), p) <=> HeldBy(cs, p) \/ In(p, e)
           /\ Ordered(cs) /\ Before(e.start, e.end) /\ UpToPlace(cs, e.start)
                => Ordered(Append(cs, e))
           /\ \A p : UpToPlace(cs, p) /\ ~Before(p, e.end) => UpToPlace(Append(cs, e), p)
<1> DEFINE new == Append(cs, e)
<1>1. /\ new \in Seq(Extents) /\ Len(new) = Len(cs) + 1 /\ Len(cs) \in Nat
      /\ DOMAIN cs = 1 .. Len(cs) /\ DOMAIN new = 1 .. Len(cs) + 1
      /\ new[Len(cs) + 1] = e /\ \A k \in 1 .. Len(cs) : new[k] = cs[k]
  OBVIOUS
<1> HIDE DEF new
<1>2. \A p : HeldBy(new, p) <=> HeldBy(cs, p) \/ In(p, e)
  BY <1>1 DEF HeldBy
<1>3. Ordered(cs) /\ Before(e.start, e.end) /\ UpToPlace(cs, e.start) => Ordered(new)
  BY <1>1 DEF Ordered, UpToPlace
<1>4. \A p : UpToPlace(cs, p) /\ ~Before(p, e.end) => UpToPlace(new, p)
  BY <1>1 DEF UpToPlace
<1> QED BY <1>1, <1>2, <1>3, <1>4 DEF new

\* A place is in at most one extent of those that lie one after the other.
LEMMA HeldOnce ==
    ASSUME NEW cs \in Seq(Extents), Ordered(cs), NEW p \in Place,
           NEW k \in DOMAIN cs, NEW m \in DOMAIN cs, In(p, cs[k]), In(p, cs[m])
    PROVE  k = m
<1>1. cs[k] \in Extents /\ cs[m] \in Extents /\ k \in Nat /\ m \in Nat
  OBVIOUS
<1>2. ASSUME NEW a \in DOMAIN cs, NEW b \in DOMAIN cs, In(p, cs[a]), In(p, cs[b]), a < b PROVE FALSE
  <2>1. cs[a] \in Extents /\ cs[b] \in Extents
    OBVIOUS
  <2>2. ~Before(cs[b].start, cs[a].end) /\ ~Before(p, cs[b].start) /\ Before(p, cs[a].end)
    BY <1>2 DEF Ordered, In
  <2> QED BY <2>1, <2>2, BeforeOrder DEF Extents
<1> QED BY <1>1, <1>2

------------------------------------------------------------------------------
(* The invariant *)

Typed ==
    /\ file \in Files /\ rawLines \in Seq(Seq(Lexemes)) /\ hashes \in Seq(Extents)
    /\ inBlock \in BOOLEAN /\ inRegion \in BOOLEAN /\ walkInXs \in BOOLEAN
    /\ blockStart \in Place /\ comments \in Seq(Extents)
    /\ shown \in Seq(Seq(Nat)) /\ Len(shown) = Len(rawLines)
    /\ \A i \in 1 .. Len(rawLines) : \A c \in ToSet(shown[i]) : c \in 1 .. Len(rawLines[i])

\* The comment that is open begins in the file, after the extents found.
BlockPlaced ==
    inBlock => /\ blockStart[1] \in 1 .. Len(rawLines)
               /\ blockStart[2] \in 1 .. Len(rawLines[blockStart[1]])
               /\ UpToPlace(comments, blockStart)

\* The extents lie one after the other, before the next line.
Laid == Ordered(comments) /\ UpToPlace(comments, <<row, 1>>)

\* What they and the open comment hold is what the lines do not show.
Covered ==
    \A i \in 1 .. Len(rawLines) : \A c \in 1 .. Len(rawLines[i]) :
        Contains(shown[i], c) <=>
            ~HeldBy(comments, <<i, c>>) /\ ~(inBlock /\ ~Before(<<i, c>>, blockStart))

\* The extents of the #-lines, one a line, each from the first column shown.
Hashed ==
    /\ \A k \in DOMAIN hashes :
         LET i == hashes[k].start[1]
         IN /\ i \in 1 .. Len(rawLines) /\ shown[i] # <<>>
            /\ hashes[k] = Extent(<<i, shown[i][1]>>, EndOf(rawLines[i], i))
    /\ \A k, m \in DOMAIN hashes : k < m => hashes[k].start[1] < hashes[m].start[1]

\* The two passes agree about the regions.
OneRegion == walkInXs = inRegion

CommentsInv == Typed /\ BlockPlaced /\ Laid /\ Covered /\ Hashed /\ OneRegion

LEMMA TypedFacts ==
    ASSUME Typed
    PROVE  /\ Len(rawLines) \in Nat /\ row = Len(rawLines) + 1 /\ DOMAIN rawLines = 1 .. Len(rawLines)
           /\ \A i \in 1 .. Len(rawLines) :
                rawLines[i] \in Seq(Lexemes) /\ Len(rawLines[i]) \in Nat /\ shown[i] \in Seq(Nat)
           /\ rawLines # <<>> => Last(rawLines) = rawLines[Len(rawLines)]
           /\ \A i, c \in Nat : <<i, c>> \in Place
BY DEF Typed, row, Last, Place

------------------------------------------------------------------------------
(* The scan of a line *)

ScanStart(l) ==
    [mode  |-> IF inBlock /\ ~clamped(l) THEN "block" ELSE "text",
     start |-> blockStart,
     found |-> IF clamped(l)
                 THEN <<Extent(blockStart, EndOf(Last(rawLines), row - 1))>>
                 ELSE <<>>,
     shown |-> <<>>]

\* The recursion of the scan has a solution, so its states are one.
LEMMA ScanEquation ==
    ASSUME NEW l, Len(l) \in Nat
    PROVE  ScanStates(l) = [j \in 0 .. Len(l) |->
               IF j = 0 THEN ScanStart(l) ELSE ScanLexeme(l, ScanStates(l)[j - 1], j)]
<1> DEFINE Solves(f, n) ==
             f = [j \in 0 .. n |-> IF j = 0 THEN ScanStart(l) ELSE ScanLexeme(l, f[j - 1], j)]
           S == {n \in 0 .. Len(l) : \E f : Solves(f, n)}
<1>1. 0 \in S
  <2> DEFINE f == [j \in 0 .. 0 |-> ScanStart(l)]
  <2>1. f = [j \in 0 .. 0 |-> IF j = 0 THEN ScanStart(l) ELSE ScanLexeme(l, f[j - 1], j)]
    OBVIOUS
  <2> HIDE DEF f
  <2>2. Solves(f, 0)
    BY <2>1
  <2> QED BY <2>2
<1>2. ASSUME NEW k \in 0 .. Len(l) - 1, k \in S PROVE k + 1 \in S
  <2>1. PICK f : Solves(f, k)
    BY <1>2
  <2> DEFINE g == [j \in 0 .. k + 1 |->
                     IF j = k + 1 THEN ScanLexeme(l, f[k], k + 1) ELSE f[j]]
  <2>2. \A j \in 0 .. k : f[j] = IF j = 0 THEN ScanStart(l) ELSE ScanLexeme(l, f[j - 1], j)
    BY <2>1
  <2>3. \A j \in 0 .. k + 1 :
          g[j] = IF j = 0 THEN ScanStart(l) ELSE ScanLexeme(l, g[j - 1], j)
    <3>1. \A j \in 0 .. k : g[j] = f[j]
      OBVIOUS
    <3>2. g[k + 1] = ScanLexeme(l, f[k], k + 1)
      OBVIOUS
    <3> HIDE DEF g
    <3>3. ASSUME NEW j \in 0 .. k + 1, j # k + 1, j # 0 PROVE g[j] = ScanLexeme(l, g[j - 1], j)
      BY <2>2, <3>1, <3>3
    <3>4. g[k + 1] = ScanLexeme(l, g[k], k + 1) /\ k + 1 - 1 = k
      BY <3>1, <3>2
    <3>5. g[0] = ScanStart(l)
      BY <2>2, <3>1
    <3> QED BY <3>3, <3>4, <3>5
  <2>4. g = [j \in 0 .. k + 1 |-> g[j]]
    OBVIOUS
  <2> HIDE DEF g
  <2>5. Solves(g, k + 1)
    BY <2>3, <2>4
  <2> QED BY <2>5
<1>3. Len(l) \in S
  <2> HIDE DEF S
  <2>1. \A k \in 0 .. Len(l) : k \in S
    BY <1>1, <1>2, UpTo
  <2> QED BY <2>1
<1>4. PICK f : Solves(f, Len(l))
  BY <1>3
<1> QED BY <1>4 DEF ScanStates, ScanStart

\* What the states of the scan of a line keep, with the extents found before.
Found(s) == comments \o s.found
Hides(s, p) == HeldBy(Found(s), p) \/ (s.mode = "block" /\ ~Before(p, s.start))
ScanRecords(j) == [mode : Modes, start : Place, found : Seq(Extents), shown : Seq(1 .. j)]
Begun(s, j) ==
    \/ inBlock /\ s.start = blockStart
    \/ s.start[1] = row /\ s.start[2] \in 1 .. j

Kept(l, s, j) ==
    /\ s \in ScanRecords(j)
    /\ Ordered(Found(s))
    /\ s.mode = "block" => UpToPlace(Found(s), s.start) /\ Begun(s, j)
    /\ s.mode # "rest" => UpToPlace(Found(s), <<row, j + 1>>)
    /\ s.mode = "rest" => /\ UpToPlace(Found(s), EndOf(l, row))
                          /\ \A c \in j + 1 .. Len(l) : HeldBy(Found(s), <<row, c>>)
    /\ \A i \in 1 .. Len(rawLines) : \A c \in 1 .. Len(rawLines[i]) :
         Contains(shown[i], c) <=> ~Hides(s, <<i, c>>)
    /\ \A c \in 1 .. j : Contains(s.shown, c) <=> ~Hides(s, <<row, c>>)

LEMMA StartKept ==
    ASSUME CommentsInv, NEW l \in Seq(Lexemes)
    PROVE  Kept(l, ScanStart(l), 0)
<1> DEFINE s == ScanStart(l)
<1> USE TypedFacts
<1>0. Typed /\ clamped(l) \in BOOLEAN
  BY DEF CommentsInv, clamped, Typed, xsTerminatorPrefix, terminates, sectionHeader, isDirectiveLine
<1>1. CASE clamped(l)
  <2>1. inBlock /\ Len(rawLines) > 0
    BY <1>0, <1>1 DEF clamped, CommentsInv, BlockPlaced
  <2> DEFINE e == Extent(blockStart, EndOf(Last(rawLines), row - 1))
             q == <<Len(rawLines), Len(rawLines[Len(rawLines)]) + 1>>
  <2>2. e.start = blockStart /\ e.end = q /\ e \in Extents /\ q \in Place
    <3>1. /\ Len(rawLines) \in Nat /\ row - 1 = Len(rawLines)
          /\ rawLines[Len(rawLines)] \in Seq(Lexemes)
      BY <1>0, <2>1 DEF Typed
    <3>2. Len(rawLines[Len(rawLines)]) \in Nat /\ Last(rawLines) = rawLines[Len(rawLines)]
      BY <3>1 DEF Last
    <3>3. e.start = blockStart /\ e.end = q /\ e = [start |-> blockStart, end |-> q]
      BY <3>1, <3>2 DEF Extent, EndOf
    <3>4. q \in Place /\ blockStart \in Place
      BY <1>0, <3>1, <3>2 DEF Place, Typed
    <3> HIDE DEF e, q
    <3> QED BY <3>3, <3>4 DEF Extents
  <2>3. Before(e.start, e.end) /\ UpToPlace(comments, e.start)
    <3>1. /\ blockStart[1] \in 1 .. Len(rawLines) /\ UpToPlace(comments, blockStart)
          /\ blockStart[2] \in 1 .. Len(rawLines[blockStart[1]])
      BY <2>1 DEF CommentsInv, BlockPlaced
    <3>2. blockStart[1] < Len(rawLines) \/ (blockStart[1] = Len(rawLines)
            /\ blockStart[2] < Len(rawLines[Len(rawLines)]) + 1)
      <4>1. rawLines[blockStart[1]] \in Seq(Lexemes)
        BY <1>0, <3>1 DEF Typed
      <4> QED BY <3>1, <4>1
    <3>3. q[1] = Len(rawLines) /\ q[2] = Len(rawLines[Len(rawLines)]) + 1
      OBVIOUS
    <3> HIDE DEF e, q
    <3> QED BY <2>2, <3>1, <3>2, <3>3 DEF Before
  <2>4. Found(s) = Append(comments, e) /\ s.mode = "text" /\ s.shown = <<>> /\ s.start = blockStart
    BY <1>0, <1>1, <2>2 DEF Found, ScanStart, Typed
  <2>5. s \in ScanRecords(0)
    BY <1>0, <1>1, <2>2 DEF ScanStart, ScanRecords, Modes, Typed
  <2> HIDE DEF e, s
  <2>6. Ordered(Found(s))
    BY <1>0, <2>2, <2>3, <2>4, OneMore DEF CommentsInv, Laid, Typed
  <2>7. UpToPlace(Found(s), <<row, 1>>)
    <3>1. row = Len(rawLines) + 1 /\ Len(rawLines) \in Nat /\ e.end[1] = Len(rawLines)
      BY <1>0, <2>2
    <3>2. ~Before(<<row, 1>>, e.end)
      BY <3>1 DEF Before
    <3> QED BY <1>0, <2>2, <2>4, <3>2, OneMore DEF CommentsInv, Laid, Typed
  <2>8. ASSUME NEW i \in 1 .. Len(rawLines), NEW c \in 1 .. Len(rawLines[i])
        PROVE  Contains(shown[i], c) <=> ~Hides(s, <<i, c>>)
    <3>1. HeldBy(Found(s), <<i, c>>) <=> HeldBy(comments, <<i, c>>) \/ In(<<i, c>>, e)
      BY <1>0, <2>2, <2>4, OneMore DEF Typed
    <3>2. Before(<<i, c>>, e.end)
      BY <1>0, <2>2 DEF Before
    <3> QED BY <2>1, <2>2, <2>4, <3>1, <3>2 DEF CommentsInv, Covered, Hides, In
  <2> QED BY <2>4, <2>5, <2>6, <2>7, <2>8 DEF Kept, s
<1>2. CASE ~clamped(l)
  <2>1. /\ Found(s) = comments /\ s.start = blockStart /\ s \in ScanRecords(0) /\ s.mode # "rest"
        /\ s.mode = "block" <=> inBlock
    BY <1>0, <1>2 DEF Found, ScanStart, ScanRecords, Modes, Typed
  <2> HIDE DEF s
  <2>2. \A i \in 1 .. Len(rawLines) : \A c \in 1 .. Len(rawLines[i]) :
          Contains(shown[i], c) <=> ~Hides(s, <<i, c>>)
    BY <2>1 DEF CommentsInv, Covered, Hides
  <2> QED BY <2>1, <2>2 DEF Kept, s, CommentsInv, Laid, BlockPlaced, Begun
<1> QED BY <1>0, <1>1, <1>2

LEMMA UpToLater ==
    ASSUME NEW cs \in Seq(Extents), NEW p \in Place, NEW q \in Place,
           UpToPlace(cs, p), ~Before(q, p)
    PROVE  UpToPlace(cs, q) /\ ~HeldBy(cs, p) /\ ~HeldBy(cs, q)
<1>1. ASSUME NEW k \in DOMAIN cs PROVE ~Before(q, cs[k].end) /\ ~Before(p, cs[k].end)
  <2>1. cs[k] \in Extents
    OBVIOUS
  <2> QED BY <2>1, BeforeOrder DEF UpToPlace, Extents
<1> QED BY <1>1 DEF UpToPlace, HeldBy, In

\* A lexeme shown.
LEMMA ShownKept ==
    ASSUME CommentsInv, NEW l \in Seq(Lexemes), NEW j \in 1 .. Len(l), NEW s, Kept(l, s, j - 1),
           s.mode \in {"text", "string"}, NEW mode \in {"text", "string"},
           NEW t, t = [[s EXCEPT !.shown = Append(@, j)] EXCEPT !.mode = mode]
    PROVE  Kept(l, t, j)
<1> USE TypedFacts
<1>0. Typed
  BY DEF CommentsInv
<1>1. /\ s \in ScanRecords(j - 1) /\ j \in Nat /\ s.shown \in Seq(1 .. j - 1) /\ s.found \in Seq(Extents)
      /\ s.start \in Place
  BY DEF Kept, ScanRecords
<1>2. /\ t \in [mode : Modes, start : Place, found : Seq(Extents), shown : Seq(1 .. j)]
      /\ t.mode = mode /\ t.start = s.start /\ t.found = s.found /\ t.shown = Append(s.shown, j)
  <2>1. Append(s.shown, j) \in Seq(1 .. j)
    BY <1>1, SeqMonotonic
  <2> QED BY <1>1, <2>1 DEF ScanRecords, Modes
<1>3. Found(t) = Found(s) /\ Found(s) \in Seq(Extents)
  BY <1>0, <1>1, <1>2, ConcatProperties DEF Found, Typed
<1>4. \A p : Hides(t, p) <=> Hides(s, p)
  BY <1>2, <1>3 DEF Hides
<1>5. <<row, j>> \in Place /\ <<row, j + 1>> \in Place /\ ~Before(<<row, j + 1>>, <<row, j>>)
  BY <1>0, <1>1 DEF Place, Before
<1>6. UpToPlace(Found(s), <<row, j>>)
  BY DEF Kept
<1>7. UpToPlace(Found(s), <<row, j + 1>>) /\ ~HeldBy(Found(s), <<row, j>>)
  BY <1>3, <1>5, <1>6, UpToLater
<1>8. ASSUME NEW c \in 1 .. j PROVE Contains(t.shown, c) <=> ~Hides(t, <<row, c>>)
  <2>1. CASE c = j
    <3>1. Contains(t.shown, j)
      <4>1. Len(s.shown) + 1 \in 1 .. Len(t.shown) /\ t.shown[Len(s.shown) + 1] = j
        BY <1>1, <1>2
      <4> QED BY <4>1 DEF Contains
    <3> QED BY <1>2, <1>4, <1>7, <2>1, <3>1 DEF Hides
  <2>2. CASE c # j
    <3>1. Contains(t.shown, c) <=> Contains(s.shown, c)
      <4>1. /\ Len(t.shown) = Len(s.shown) + 1 /\ Len(s.shown) \in Nat
            /\ \A k \in 1 .. Len(s.shown) : t.shown[k] = s.shown[k]
            /\ t.shown[Len(s.shown) + 1] = j
        BY <1>1, <1>2
      <4> QED BY <2>2, <4>1 DEF Contains
    <3> QED BY <1>4, <2>2, <3>1 DEF Kept
  <2> QED BY <2>1, <2>2
<1> QED BY <1>2, <1>3, <1>4, <1>7, <1>8 DEF Kept, ScanRecords

\* A lexeme inside a comment.
LEMMA HiddenKept ==
    ASSUME CommentsInv, NEW l \in Seq(Lexemes), NEW j \in 1 .. Len(l), NEW s, Kept(l, s, j - 1),
           s.mode \in {"block", "rest"}
    PROVE  Kept(l, s, j)
<1> USE TypedFacts
<1>0. Typed
  BY DEF CommentsInv
<1>1. /\ s \in ScanRecords(j - 1) /\ j \in Nat /\ s.shown \in Seq(1 .. j - 1) /\ s.found \in Seq(Extents)
      /\ s.start \in Place
  BY DEF Kept, ScanRecords
<1>2. s \in ScanRecords(j)
  <2>1. s.shown \in Seq(1 .. j)
    BY <1>1, SeqMonotonic
  <2> QED BY <1>1, <2>1 DEF ScanRecords
<1>3. Found(s) \in Seq(Extents)
  BY <1>0, <1>1 DEF Found, Typed
<1>4. ~Contains(s.shown, j)
  BY <1>1 DEF Contains
<1>5. CASE s.mode = "block"
  <2>1. <<row, j>> \in Place /\ <<row, j + 1>> \in Place /\ ~Before(<<row, j + 1>>, <<row, j>>)
    BY <1>0, <1>1 DEF Place, Before
  <2>2. UpToPlace(Found(s), <<row, j + 1>>)
    BY <1>3, <1>5, <2>1, UpToLater DEF Kept
  <2>3. Begun(s, j) /\ ~Before(<<row, j>>, s.start)
    <3>1. Begun(s, j - 1)
      BY <1>5 DEF Kept
    <3>2. CASE inBlock /\ s.start = blockStart
      <4>1. s.start[1] \in 1 .. Len(rawLines) /\ row = Len(rawLines) + 1
        BY <1>0, <3>2 DEF CommentsInv, BlockPlaced
      <4> QED BY <1>0, <3>2, <4>1 DEF Begun, Before
    <3>3. CASE s.start[1] = row /\ s.start[2] \in 1 .. j - 1
      BY <1>0, <1>1, <3>3 DEF Begun, Before
    <3> QED BY <3>1, <3>2, <3>3 DEF Begun
  <2>4. ASSUME NEW c \in 1 .. j PROVE Contains(s.shown, c) <=> ~Hides(s, <<row, c>>)
    <3>1. CASE c = j
      BY <1>4, <1>5, <2>3, <3>1 DEF Hides
    <3>2. CASE c \in 1 .. j - 1
      BY <3>2 DEF Kept
    <3> QED BY <1>1, <3>1, <3>2
  <2> QED BY <1>2, <1>5, <2>2, <2>3, <2>4 DEF Kept
<1>6. CASE s.mode = "rest"
  <2>1. Hides(s, <<row, j>>)
    BY <1>1, <1>6 DEF Kept, Hides
  <2>2. \A c \in 1 .. j : Contains(s.shown, c) <=> ~Hides(s, <<row, c>>)
    BY <1>1, <1>4, <2>1 DEF Kept
  <2>3. \A c \in j + 1 .. Len(l) : HeldBy(Found(s), <<row, c>>)
    <3>1. \A c \in j + 1 .. Len(l) : c \in j - 1 + 1 .. Len(l)
      BY <1>1
    <3> QED BY <1>6, <3>1 DEF Kept
  <2> QED BY <1>2, <1>6, <2>2, <2>3 DEF Kept
<1> QED BY <1>5, <1>6

\* The end of a comment of lines, and a comment to the end of its line.
LEMMA FoundKept ==
    ASSUME CommentsInv, NEW l \in Seq(Lexemes), NEW j \in 1 .. Len(l), NEW s, Kept(l, s, j - 1),
           NEW e, NEW t,
           \/ /\ s.mode = "block" /\ e = Extent(s.start, <<row, j + 1>>)
              /\ t = [s EXCEPT !.mode = "text", !.found = Append(@, e)]
           \/ /\ s.mode = "text" /\ e = Extent(<<row, j>>, EndOf(l, row))
              /\ t = [s EXCEPT !.mode = "rest", !.found = Append(@, e)]
    PROVE  Kept(l, t, j)
<1> USE TypedFacts
<1>0. Typed /\ row \in Nat
  BY DEF CommentsInv
<1>1. /\ s \in ScanRecords(j - 1) /\ j \in Nat /\ s.shown \in Seq(1 .. j - 1) /\ s.found \in Seq(Extents)
      /\ s.start \in Place
  BY DEF Kept, ScanRecords
<1>2. Len(l) \in Nat /\ j <= Len(l)
  OBVIOUS
<1>3. e \in Extents
  <2>1. <<row, j + 1>> \in Place /\ <<row, j>> \in Place /\ EndOf(l, row) \in Place
    BY <1>0, <1>1, <1>2 DEF EndOf, Place
  <2>2. \A p, q \in Place : Extent(p, q) \in Extents
    BY DEF Extent, Extents
  <2> QED BY <1>1, <2>1, <2>2
<1>4. t \in ScanRecords(j) /\ t.start = s.start /\ t.found = Append(s.found, e) /\ t.shown = s.shown
  <2>1. s.shown \in Seq(1 .. j) /\ Append(s.found, e) \in Seq(Extents)
    BY <1>1, <1>3, SeqMonotonic
  <2> QED BY <1>1, <2>1 DEF ScanRecords, Modes
<1>5. Found(s) \in Seq(Extents) /\ Found(t) = Append(Found(s), e)
  <2>1. \A a, b \in Seq(Extents) : a \o b \in Seq(Extents) /\ a \o Append(b, e) = Append(a \o b, e)
    BY <1>3, ConcatProperties
  <2> QED BY <1>0, <1>1, <1>4, <2>1 DEF Found, Typed
<1>6. Before(e.start, e.end) /\ UpToPlace(Found(s), e.start)
  <2>1. CASE s.mode = "block"
    <3>1. e.start = s.start /\ e.end = <<row, j + 1>>
      BY <2>1 DEF Extent
    <3>2. Begun(s, j - 1) /\ UpToPlace(Found(s), s.start)
      BY <2>1 DEF Kept
    <3>3. inBlock => blockStart[1] <= Len(rawLines) /\ blockStart[1] \in Nat
      BY <1>0 DEF CommentsInv, BlockPlaced
    <3> QED BY <1>0, <1>1, <3>1, <3>2, <3>3 DEF Begun, Before
  <2>2. CASE s.mode = "text"
    <3>1. e.start = <<row, j>> /\ e.end = <<row, Len(l) + 1>>
      BY <2>2 DEF Extent, EndOf
    <3>2. UpToPlace(Found(s), <<row, j>>)
      BY <2>2 DEF Kept
    <3> QED BY <1>0, <1>1, <1>2, <3>1, <3>2 DEF Before
  <2> QED BY <2>1, <2>2
<1>7. Ordered(Found(t))
  BY <1>3, <1>5, <1>6, OneMore DEF Kept
<1>8. /\ t.mode # "block"
      /\ t.mode # "rest" => UpToPlace(Found(t), <<row, j + 1>>)
      /\ t.mode = "rest" => /\ UpToPlace(Found(t), EndOf(l, row))
                            /\ \A c \in j + 1 .. Len(l) : HeldBy(Found(t), <<row, c>>)
  <2> DEFINE q == IF s.mode = "block" THEN <<row, j + 1>> ELSE EndOf(l, row)
  <2>1. q \in Place /\ <<row, j>> \in Place /\ ~Before(q, <<row, j>>) /\ q = e.end
    <3>1. q \in Place /\ <<row, j>> \in Place /\ q = e.end
      <4>1. CASE s.mode = "block"
        BY <1>0, <1>1, <4>1 DEF Place, Extent
      <4>2. CASE s.mode = "text"
        BY <1>0, <1>1, <1>2, <4>2 DEF Place, EndOf, Extent
      <4> QED BY <4>1, <4>2
    <3>2. q[1] = row /\ q[2] >= j
      BY <1>1, <1>2 DEF EndOf
    <3> QED BY <1>0, <1>1, <3>1, <3>2 DEF Place, Before
  <2>2. UpToPlace(Found(s), <<row, j>>)
    <3>1. j - 1 + 1 = j /\ s.mode # "rest"
      BY <1>1
    <3> QED BY <3>1 DEF Kept
  <2>3. UpToPlace(Found(t), q)
    <3>1. UpToPlace(Found(s), q)
      BY <1>5, <2>1, <2>2, UpToLater
    <3>2. ~Before(q, e.end)
      BY <2>1, BeforeOrder
    <3> QED BY <1>3, <1>5, <3>1, <3>2, OneMore
  <2>4. t.mode = "rest" => \A c \in j + 1 .. Len(l) : In(<<row, c>>, e)
    <3>1. t.mode = "rest" => e.start = <<row, j>> /\ e.end = <<row, Len(l) + 1>>
      <4>1. t.mode = "rest" => s.mode = "text"
        BY <1>1 DEF ScanRecords
      <4> QED BY <4>1 DEF Extent, EndOf
    <3> QED BY <1>0, <1>1, <1>2, <3>1 DEF In, Before
  <2>5. \A p : In(p, e) => HeldBy(Found(t), p)
    BY <1>3, <1>5, OneMore
  <2>6. t.mode = IF s.mode = "block" THEN "text" ELSE "rest"
    BY <1>1 DEF ScanRecords
  <2> QED BY <2>3, <2>4, <2>5, <2>6
<1>9. \A p \in Place : Before(p, e.end) => (Hides(t, p) <=> Hides(s, p) \/ In(p, e))
  <2>1. \A p : HeldBy(Found(t), p) <=> HeldBy(Found(s), p) \/ In(p, e)
    BY <1>3, <1>5, OneMore
  <2>2. s.mode = "block" => e.start = s.start
    BY DEF Extent
  <2> QED BY <1>8, <2>1, <2>2 DEF Hides, In
<1>10. \A i \in 1 .. Len(rawLines) : \A c \in 1 .. Len(rawLines[i]) :
         Hides(t, <<i, c>>) <=> Hides(s, <<i, c>>)
  <2> SUFFICES ASSUME NEW i \in 1 .. Len(rawLines), NEW c \in 1 .. Len(rawLines[i])
               PROVE  Hides(t, <<i, c>>) <=> Hides(s, <<i, c>>)
    OBVIOUS
  <2>1. i < row /\ <<i, c>> \in Place
    BY <1>0 DEF Place
  <2>2. e.end[1] = row
    BY DEF Extent, EndOf
  <2>3. Before(<<i, c>>, e.end)
    BY <2>1, <2>2 DEF Before
  <2>4. In(<<i, c>>, e) => Hides(s, <<i, c>>)
    <3>1. s.mode = "text" => e.start = <<row, j>>
      BY DEF Extent
    <3>2. s.mode = "text" => Before(<<i, c>>, e.start)
      <4>1. Before(<<i, c>>, <<row, j>>)
        BY <2>1 DEF Before
      <4> QED BY <3>1, <4>1
    <3>3. s.mode = "block" => e.start = s.start
      BY DEF Extent
    <3> QED BY <3>2, <3>3 DEF In, Hides
  <2> QED BY <1>9, <2>1, <2>3, <2>4
<1>11. \A c \in 1 .. j : Contains(t.shown, c) <=> ~Hides(t, <<row, c>>)
  <2> SUFFICES ASSUME NEW c \in 1 .. j PROVE Contains(s.shown, c) <=> ~Hides(t, <<row, c>>)
    BY <1>4
  <2>1. <<row, c>> \in Place /\ Before(<<row, c>>, e.end)
    BY <1>0, <1>1, <1>2 DEF Place, Extent, EndOf, Before
  <2>2. CASE c # j
    <3>1. In(<<row, c>>, e) => Hides(s, <<row, c>>)
      <4>1. s.mode = "text" => e.start = <<row, j>>
        BY DEF Extent
      <4>2. s.mode = "text" => Before(<<row, c>>, e.start)
        <5>1. c < j
          BY <1>1, <2>2
        <5> QED BY <4>1, <5>1 DEF Before
      <4>3. s.mode = "block" => e.start = s.start
        BY DEF Extent
      <4> QED BY <4>2, <4>3 DEF In, Hides
    <3>2. Contains(s.shown, c) <=> ~Hides(s, <<row, c>>)
      BY <1>1, <2>2 DEF Kept
    <3> QED BY <1>9, <2>1, <3>1, <3>2
  <2>3. CASE c = j
    <3>1. ~Contains(s.shown, j)
      BY <1>1 DEF Contains
    <3>2. ~Before(<<row, j>>, e.start)
      <4>1. s.mode = "text" => e.start = <<row, j>>
        BY DEF Extent
      <4>2. s.mode = "block" => e.start = s.start /\ Begun(s, j - 1)
        BY DEF Kept, Extent
      <4>3. inBlock => blockStart[1] < row /\ blockStart[1] \in Nat
        BY <1>0 DEF CommentsInv, BlockPlaced
      <4>4. CASE s.mode = "text"
        <5>1. <<row, j>> \in Place /\ e.start = <<row, j>>
          BY <2>1, <2>3, <4>1, <4>4
        <5>2. ~Before(e.start, e.start)
          BY <5>1, BeforeOrder
        <5> QED BY <5>1, <5>2
      <4>5. CASE s.mode = "block"
        BY <1>0, <1>1, <4>2, <4>3, <4>5 DEF Begun, Before
      <4> QED BY <4>4, <4>5
    <3>3. In(<<row, j>>, e)
      BY <2>1, <2>3, <3>2 DEF In
    <3> QED BY <1>9, <2>1, <2>3, <3>1, <3>3
  <2> QED BY <2>2, <2>3
<1> QED BY <1>4, <1>7, <1>8, <1>10, <1>11 DEF Kept

\* The beginning of a comment of lines.
LEMMA OpenKept ==
    ASSUME CommentsInv, NEW l \in Seq(Lexemes), NEW j \in 1 .. Len(l), NEW s, Kept(l, s, j - 1),
           s.mode = "text", NEW t, t = [s EXCEPT !.mode = "block", !.start = <<row, j>>]
    PROVE  Kept(l, t, j)
<1> USE TypedFacts
<1>0. Typed /\ row \in Nat
  BY DEF CommentsInv
<1>1. /\ s \in ScanRecords(j - 1) /\ j \in Nat /\ s.shown \in Seq(1 .. j - 1) /\ s.found \in Seq(Extents)
  BY DEF Kept, ScanRecords
<1>2. <<row, j>> \in Place /\ <<row, j + 1>> \in Place /\ ~Before(<<row, j + 1>>, <<row, j>>)
  BY <1>0, <1>1 DEF Place, Before
<1>3. /\ t \in ScanRecords(j) /\ t.mode = "block" /\ t.start = <<row, j>> /\ t.shown = s.shown
      /\ Found(t) = Found(s) /\ Found(s) \in Seq(Extents)
  <2>1. s.shown \in Seq(1 .. j)
    BY <1>1, SeqMonotonic
  <2>2. Found(s) \in Seq(Extents)
    BY <1>0, <1>1, ConcatProperties DEF Found, Typed
  <2> QED BY <1>1, <1>2, <2>1, <2>2 DEF ScanRecords, Modes, Found
<1>4. UpToPlace(Found(s), <<row, j>>)
  <2>1. j - 1 + 1 = j
    BY <1>1
  <2> QED BY <2>1 DEF Kept
<1>5. UpToPlace(Found(s), <<row, j + 1>>) /\ ~HeldBy(Found(s), <<row, j>>)
  BY <1>2, <1>3, <1>4, UpToLater
<1>6. Begun(t, j)
  BY <1>1, <1>3 DEF Begun
<1>7. ASSUME NEW i \in 1 .. Len(rawLines), NEW c \in 1 .. Len(rawLines[i])
      PROVE  Contains(shown[i], c) <=> ~Hides(t, <<i, c>>)
  <2>1. Before(<<i, c>>, t.start)
    BY <1>0, <1>3 DEF Before
  <2> QED BY <1>3, <2>1 DEF Kept, Hides
<1>8. ASSUME NEW c \in 1 .. j PROVE Contains(t.shown, c) <=> ~Hides(t, <<row, c>>)
  <2>1. CASE c = j
    <3>1. ~Contains(s.shown, j)
      BY <1>1 DEF Contains
    <3>2. ~Before(<<row, j>>, t.start)
      BY <1>0, <1>1, <1>3 DEF Before
    <3> QED BY <1>3, <2>1, <3>1, <3>2 DEF Hides
  <2>2. CASE c # j
    <3>1. c \in 1 .. j - 1
      BY <1>1, <2>2
    <3>2. Before(<<row, c>>, t.start)
      BY <1>1, <1>3, <3>1 DEF Before
    <3> QED BY <1>3, <3>1, <3>2 DEF Kept, Hides
  <2> QED BY <2>1, <2>2
<1> QED BY <1>3, <1>4, <1>5, <1>6, <1>7, <1>8 DEF Kept

LEMMA LexemeKept ==
    ASSUME CommentsInv, NEW l \in Seq(Lexemes), NEW j \in 1 .. Len(l), NEW s, Kept(l, s, j - 1)
    PROVE  Kept(l, ScanLexeme(l, s, j), j)
<1> DEFINE keep == [s EXCEPT !.shown = Append(@, j)]
           t == ScanLexeme(l, s, j)
<1>1. s.mode \in Modes /\ s \in ScanRecords(j - 1)
  BY DEF Kept, ScanRecords
<1>2. CASE s.mode = "string"
  <2>1. \E mode \in {"text", "string"} : t = [keep EXCEPT !.mode = mode]
    <3>1. CASE l[j] = "quote"
      <4>1. t = [keep EXCEPT !.mode = "text"]
        BY <1>2, <3>1 DEF ScanLexeme
      <4> QED BY <4>1
    <3>2. CASE l[j] # "quote"
      <4>1. t = keep /\ keep = [keep EXCEPT !.mode = "string"]
        BY <1>1, <1>2, <3>2 DEF ScanLexeme, ScanRecords
      <4> HIDE DEF t, keep
      <4> QED BY <4>1
    <3> QED BY <3>1, <3>2
  <2> HIDE DEF t
  <2> QED BY <1>2, <2>1, ShownKept DEF t
<1>3. CASE s.mode = "block"
  <2>1. CASE l[j] = "*/"
    <3> DEFINE e == Extent(s.start, <<row, j + 1>>)
    <3>1. t = [s EXCEPT !.mode = "text", !.found = Append(@, e)]
      BY <1>3, <2>1 DEF ScanLexeme
    <3> HIDE DEF e, t
    <3> QED BY <1>3, <3>1, FoundKept DEF e, t
  <2>2. CASE l[j] # "*/"
    BY <1>3, <2>2, HiddenKept DEF ScanLexeme
  <2> QED BY <2>1, <2>2
<1>4. CASE s.mode = "rest"
  BY <1>4, HiddenKept DEF ScanLexeme
<1>5. CASE s.mode = "text" /\ l[j] = "/*"
  <2>1. t = [s EXCEPT !.mode = "block", !.start = <<row, j>>]
    BY <1>5 DEF ScanLexeme
  <2> HIDE DEF t
  <2> QED BY <1>5, <2>1, OpenKept DEF t
<1>6. CASE s.mode = "text" /\ l[j] = "//"
  <2> DEFINE e == Extent(<<row, j>>, EndOf(l, row))
  <2>1. t = [s EXCEPT !.mode = "rest", !.found = Append(@, e)]
    BY <1>6 DEF ScanLexeme
  <2> HIDE DEF e, t
  <2> QED BY <1>6, <2>1, FoundKept DEF e, t
<1>7. CASE s.mode = "text" /\ l[j] \notin {"/*", "//"}
  <2>1. \E mode \in {"text", "string"} : t = [keep EXCEPT !.mode = mode]
    <3>1. CASE l[j] = "quote"
      <4>1. t = [keep EXCEPT !.mode = "string"]
        BY <1>7, <3>1 DEF ScanLexeme
      <4> QED BY <4>1
    <3>2. CASE l[j] # "quote"
      <4>1. t = keep /\ keep = [keep EXCEPT !.mode = "text"]
        BY <1>1, <1>7, <3>2 DEF ScanLexeme, ScanRecords
      <4> HIDE DEF t, keep
      <4> QED BY <4>1
    <3> QED BY <3>1, <3>2
  <2> HIDE DEF t
  <2> QED BY <1>7, <2>1, ShownKept DEF t
<1> QED BY <1>1, <1>2, <1>3, <1>4, <1>5, <1>6, <1>7 DEF Modes

\* The scan of a line, from its first lexeme to its end.
LEMMA ScanKeeps ==
    ASSUME CommentsInv, NEW l \in Seq(Lexemes)
    PROVE  /\ Kept(l, ScanLine(l), Len(l))
           /\ \A j \in 0 .. Len(l) : Kept(l, ScanStates(l)[j], j)
<1> DEFINE S == {j \in 0 .. Len(l) : Kept(l, ScanStates(l)[j], j)}
<1>0. Len(l) \in Nat
  OBVIOUS
<1>1. \A j \in 0 .. Len(l) : ScanStates(l)[j] =
        IF j = 0 THEN ScanStart(l) ELSE ScanLexeme(l, ScanStates(l)[j - 1], j)
  BY <1>0, ScanEquation
<1>2. 0 \in S
  BY <1>0, <1>1, StartKept
<1>3. ASSUME NEW k \in 0 .. Len(l) - 1, k \in S PROVE k + 1 \in S
  <2>1. k + 1 \in 1 .. Len(l) /\ k + 1 - 1 = k
    OBVIOUS
  <2>2. Kept(l, ScanStates(l)[k + 1 - 1], k + 1 - 1)
    BY <1>3, <2>1
  <2>3. Kept(l, ScanLexeme(l, ScanStates(l)[k + 1 - 1], k + 1), k + 1)
    BY <2>1, <2>2, LexemeKept
  <2>4. k + 1 \in 0 .. Len(l) /\ k + 1 # 0
    BY <2>1
  <2> QED BY <1>1, <2>1, <2>3, <2>4
<1> HIDE DEF S
<1>4. \A j \in 0 .. Len(l) : j \in S
  BY <1>0, <1>2, <1>3, UpTo
<1> QED BY <1>0, <1>4 DEF S, ScanLine

------------------------------------------------------------------------------
(* The step of a line *)

LEMMA InitKept == CommentsInit => CommentsInv
<1> SUFFICES ASSUME CommentsInit PROVE CommentsInv
  OBVIOUS
<1>1. rawLines = <<>> /\ comments = <<>> /\ hashes = <<>> /\ shown = <<>>
      /\ ~inBlock /\ ~inRegion /\ ~walkInXs /\ blockStart = <<0, 0>> /\ file \in Files
  BY DEF CommentsInit
<1>2. Len(rawLines) = 0 /\ DOMAIN comments = {} /\ DOMAIN hashes = {} /\ <<0, 0>> \in Place
  BY <1>1 DEF Place
<1>3. /\ rawLines \in Seq(Seq(Lexemes)) /\ hashes \in Seq(Extents) /\ comments \in Seq(Extents)
      /\ shown \in Seq(Seq(Nat)) /\ Len(shown) = Len(rawLines)
  BY <1>1, <1>2
<1>4. Typed
  <2>1. inBlock \in BOOLEAN /\ inRegion \in BOOLEAN /\ walkInXs \in BOOLEAN
    BY DEF CommentsInit
  <2> QED BY <1>1, <1>2, <1>3, <2>1 DEF Typed
<1>5. Laid /\ Hashed
  BY <1>2 DEF Laid, Ordered, UpToPlace, Hashed
<1>6. BlockPlaced /\ OneRegion
  BY DEF CommentsInit, BlockPlaced, OneRegion
<1>7. Covered
  BY <1>2 DEF Covered
<1> QED BY <1>4, <1>5, <1>6, <1>7 DEF CommentsInv

\* What a line adds to the extents found.
LEMMA LineFinds ==
    ASSUME CommentsInv, NEW l \in Seq(Lexemes), rawLines' = Append(rawLines, l), blankLine(l)
    PROVE  /\ comments' \in Seq(Extents) /\ Laid' /\ BlockPlaced' /\ Covered'
           /\ blockStart' \in Place /\ inBlock' \in BOOLEAN
<1> DEFINE s == ScanLine(l)
           e == Extent(s.start, EndOf(l, row))
           p == EndOf(l, row)
<1> USE TypedFacts
<1>0. Typed /\ row \in Nat /\ Len(l) \in Nat /\ shown \in Seq(Seq(Nat)) /\ Len(shown) = Len(rawLines)
  BY DEF CommentsInv, Typed
<1>1. Kept(l, s, Len(l))
  BY ScanKeeps
<1>2. PICK cut \in BOOLEAN :
        /\ cut => s.mode = "block"
        /\ inBlock' = (s.mode = "block" /\ ~cut)
        /\ comments' = Found(s) \o (IF cut THEN <<e>> ELSE <<>>)
        /\ blockStart' = s.start /\ shown' = Append(shown, s.shown)
  <2> DEFINE text == Text(l, s.shown)
             still == inRegion /\ ~terminates(text)
             opens == ~still /\ opensXsRegion(text)
             cut == opens /\ s.mode = "block"
  <2>1. inBlock' = (s.mode = "block" /\ ~cut) /\ blockStart' = s.start /\ shown' = Append(shown, s.shown)
    BY DEF blankLine
  <2>2. comments' = comments \o s.found \o (IF cut THEN <<e>> ELSE <<>>)
    BY DEF blankLine
  <2>3. cut \in BOOLEAN
    BY DEF opensXsRegion
  <2> HIDE DEF cut, e, s
  <2> WITNESS cut \in BOOLEAN
  <2> QED BY <2>1, <2>2, <2>3 DEF Found, cut
<1> HIDE DEF s
<1>3. /\ s.start \in Place /\ Found(s) \in Seq(Extents) /\ s.found \in Seq(Extents)
      /\ s.shown \in Seq(1 .. Len(l))
  <2>1. s.start \in Place /\ s.found \in Seq(Extents) /\ s.shown \in Seq(1 .. Len(l))
    BY <1>1 DEF Kept, ScanRecords
  <2> QED BY <1>0, <2>1, ConcatProperties DEF Found, Typed
<1>4. p = <<row, Len(l) + 1>> /\ p \in Place /\ e.start = s.start /\ e.end = p /\ e \in Extents
  BY <1>0, <1>3 DEF EndOf, Place, Extent, Extents
<1>5. rawLines' \in Seq(Seq(Lexemes)) /\ Len(rawLines') = row /\ row' = row + 1
      /\ rawLines'[row] = l /\ \A i \in 1 .. Len(rawLines) : rawLines'[i] = rawLines[i]
  BY <1>0 DEF Typed, row
<1>6. shown'[row] = s.shown /\ \A i \in 1 .. Len(rawLines) : shown'[i] = shown[i]
  BY <1>0, <1>2
<1>7. Ordered(Found(s)) /\ UpToPlace(Found(s), p)
  BY <1>1, <1>4 DEF Kept
<1>8. s.mode = "block" =>
        /\ UpToPlace(Found(s), s.start) /\ Before(s.start, p)
        /\ s.start[1] \in 1 .. row /\ s.start[2] \in 1 .. Len(rawLines'[s.start[1]])
  <2> SUFFICES ASSUME s.mode = "block"
               PROVE  /\ UpToPlace(Found(s), s.start) /\ Before(s.start, p)
                      /\ s.start[1] \in 1 .. row /\ s.start[2] \in 1 .. Len(rawLines'[s.start[1]])
    OBVIOUS
  <2>1. UpToPlace(Found(s), s.start) /\ Begun(s, Len(l))
    BY <1>1 DEF Kept
  <2>2. CASE inBlock /\ s.start = blockStart
    BY <1>0, <1>4, <1>5, <2>1, <2>2 DEF CommentsInv, BlockPlaced, Before
  <2>3. CASE s.start[1] = row /\ s.start[2] \in 1 .. Len(l)
    BY <1>0, <1>4, <1>5, <2>1, <2>3 DEF Before
  <2> QED BY <2>1, <2>2, <2>3 DEF Begun
<1>9. ~Before(<<row', 1>>, p) /\ <<row', 1>> \in Place
  BY <1>0, <1>4, <1>5 DEF Before, Place
<1>10. CASE cut
  <2>1. comments' = Append(Found(s), e)
    BY <1>2, <1>3, <1>4, <1>10
  <2>2. comments' \in Seq(Extents) /\ Ordered(comments')
    <3>1. Before(e.start, e.end) /\ UpToPlace(Found(s), e.start)
      BY <1>2, <1>4, <1>8, <1>10
    <3> HIDE DEF e
    <3> QED BY <1>3, <1>4, <1>7, <2>1, <3>1, OneMore
  <2>3. UpToPlace(comments', <<row', 1>>)
    <3>1. UpToPlace(Found(s), <<row', 1>>)
      BY <1>3, <1>4, <1>7, <1>9, UpToLater
    <3> QED BY <1>3, <1>4, <1>9, <2>1, <3>1, OneMore
  <2>4. ASSUME NEW i \in 1 .. row, NEW c \in 1 .. Len(rawLines'[i])
        PROVE  Contains(shown'[i], c) <=> ~HeldBy(comments', <<i, c>>)
    <3>1. Contains(shown'[i], c) <=> ~Hides(s, <<i, c>>)
      <4>1. CASE i = row
        BY <1>1, <1>5, <1>6, <4>1 DEF Kept
      <4>2. CASE i \in 1 .. Len(rawLines)
        BY <1>1, <1>5, <1>6, <4>2 DEF Kept
      <4> QED BY <1>0, <4>1, <4>2
    <3>2. Before(<<i, c>>, e.end)
      <4>1. CASE i = row
        <5>1. c < Len(l) + 1
          BY <1>0, <1>5, <4>1
        <5>2. e.end = <<row, Len(l) + 1>>
          BY <1>4
        <5> HIDE DEF e
        <5> QED BY <4>1, <5>1, <5>2 DEF Before
      <4>2. CASE i \in 1 .. Len(rawLines)
        <5>1. i < row
          BY <1>0, <4>2
        <5>2. e.end[1] = row
          <6>1. e.end = <<row, Len(l) + 1>>
            BY <1>4
          <6> HIDE DEF e
          <6> QED BY <6>1, <1>0
        <5> QED BY <5>1, <5>2 DEF Before
      <4> QED BY <1>0, <4>1, <4>2
    <3>3. HeldBy(comments', <<i, c>>) <=> HeldBy(Found(s), <<i, c>>) \/ In(<<i, c>>, e)
      BY <1>3, <1>4, <2>1, OneMore
    <3> QED BY <1>2, <1>4, <1>10, <3>1, <3>2, <3>3 DEF Hides, In
  <2>5. ~inBlock'
    BY <1>2, <1>10
  <2> QED BY <1>2, <1>3, <1>5, <2>2, <2>3, <2>4, <2>5 DEF Laid, BlockPlaced, Covered
<1>11. CASE ~cut
  <2>1. comments' = Found(s)
    BY <1>2, <1>3, <1>11
  <2>2. UpToPlace(comments', <<row', 1>>)
    BY <1>3, <1>4, <1>7, <1>9, <2>1, UpToLater
  <2>3. ASSUME NEW i \in 1 .. row, NEW c \in 1 .. Len(rawLines'[i])
        PROVE  Contains(shown'[i], c) <=> ~Hides(s, <<i, c>>)
    <3>1. CASE i = row
      BY <1>1, <1>5, <1>6, <3>1 DEF Kept
    <3>2. CASE i \in 1 .. Len(rawLines)
      BY <1>1, <1>5, <1>6, <3>2 DEF Kept
    <3> QED BY <1>0, <3>1, <3>2
  <2>4. inBlock' = (s.mode = "block")
    BY <1>2, <1>11
  <2>5. Covered'
    BY <1>2, <1>5, <2>1, <2>3, <2>4 DEF Covered, Hides
  <2>6. BlockPlaced'
    BY <1>2, <1>5, <1>8, <2>1, <2>4 DEF BlockPlaced
  <2> QED BY <1>2, <1>3, <1>7, <2>1, <2>2, <2>4, <2>5, <2>6 DEF Laid
<1> QED BY <1>10, <1>11

\* What a line adds to the #-lines.
LEMMA LineHashes ==
    ASSUME CommentsInv, NEW l \in Seq(Lexemes), rawLines' = Append(rawLines, l), blankLine(l),
           LET cols == ScanLine(l).shown IN walkLine(l, Text(l, cols), cols)
    PROVE  hashes' \in Seq(Extents) /\ Hashed' /\ OneRegion' /\ walkInXs' \in BOOLEAN
<1> DEFINE cols == ScanLine(l).shown
           text == Text(l, cols)
           e == Extent(<<row, cols[1]>>, EndOf(l, row))
<1> USE TypedFacts
<1>0. Typed /\ row \in Nat /\ Len(l) \in Nat /\ shown \in Seq(Seq(Nat)) /\ Len(shown) = Len(rawLines)
      /\ hashes \in Seq(Extents)
  BY DEF CommentsInv, Typed
<1>1. cols \in Seq(1 .. Len(l))
  BY ScanKeeps DEF Kept, ScanRecords
<1>2. shown' = Append(shown, cols)
  BY DEF blankLine
<1>3. OneRegion' /\ walkInXs' \in BOOLEAN
  <2>1. walkInXs = inRegion
    BY DEF CommentsInv, OneRegion
  <2>2. walkInXs' = ((walkInXs /\ ~terminates(text)) \/ opensXsRegion(text))
    BY DEF walkLine
  <2>3. inRegion' = ((inRegion /\ ~terminates(text))
                       \/ (~(inRegion /\ ~terminates(text)) /\ opensXsRegion(text)))
    BY DEF blankLine
  <2>4. opensXsRegion(text) \in BOOLEAN /\ terminates(text) \in BOOLEAN
    BY DEF opensXsRegion, terminates, sectionHeader, isDirectiveLine
  <2> HIDE DEF text
  <2> QED BY <2>1, <2>2, <2>3, <2>4 DEF OneRegion
<1>4. hashes' = hashes \/ (hashes' = Append(hashes, e) /\ text # <<>>)
  BY DEF walkLine
<1>5. /\ Len(rawLines') = row /\ rawLines'[row] = l /\ \A i \in 1 .. Len(rawLines) : rawLines'[i] = rawLines[i]
      /\ shown'[row] = cols /\ \A i \in 1 .. Len(rawLines) : shown'[i] = shown[i]
  BY <1>0, <1>1, <1>2 DEF Typed
<1>6. ASSUME NEW k \in DOMAIN hashes
      PROVE  LET i == hashes[k].start[1]
             IN /\ i \in 1 .. Len(rawLines) /\ i \in 1 .. Len(rawLines') /\ shown'[i] # <<>>
                /\ hashes[k] = Extent(<<i, shown'[i][1]>>, EndOf(rawLines'[i], i))
  <2> DEFINE i == hashes[k].start[1]
  <2>1. i \in 1 .. Len(rawLines) /\ shown[i] # <<>>
        /\ hashes[k] = Extent(<<i, shown[i][1]>>, EndOf(rawLines[i], i))
    BY DEF CommentsInv, Hashed
  <2> HIDE DEF i
  <2>2. i \in 1 .. Len(rawLines')
    BY <1>0, <1>5, <2>1
  <2>3. shown'[i] = shown[i] /\ rawLines'[i] = rawLines[i]
    BY <1>5, <2>1
  <2>4. /\ i \in 1 .. Len(rawLines) /\ i \in 1 .. Len(rawLines') /\ shown'[i] # <<>>
        /\ hashes[k] = Extent(<<i, shown'[i][1]>>, EndOf(rawLines'[i], i))
    BY <2>1, <2>2, <2>3
  <2> QED BY <2>4 DEF i
<1>7. CASE hashes' = hashes
  <2>1. Hashed'
    BY <1>6, <1>7 DEF CommentsInv, Hashed
  <2> QED BY <1>0, <1>3, <1>7, <2>1
<1>8. CASE hashes' = Append(hashes, e) /\ text # <<>>
  <2>1. cols # <<>> /\ cols[1] \in Nat
    <3>1. cols = <<>> => text = <<>>
      BY DEF Text
    <3> QED BY <1>1, <1>8, <3>1
  <2>2. e \in Extents /\ e.start = <<row, cols[1]>> /\ e.start[1] = row
    BY <1>0, <2>1 DEF Extent, EndOf, Extents, Place
  <2>3. /\ hashes' \in Seq(Extents) /\ Len(hashes') = Len(hashes) + 1 /\ Len(hashes) \in Nat
        /\ hashes'[Len(hashes) + 1] = e /\ \A k \in 1 .. Len(hashes) : hashes'[k] = hashes[k]
        /\ DOMAIN hashes' = 1 .. Len(hashes) + 1 /\ DOMAIN hashes = 1 .. Len(hashes)
    BY <1>0, <1>8, <2>2
  <2>4. ASSUME NEW k \in DOMAIN hashes'
        PROVE  LET i == hashes'[k].start[1]
               IN /\ i \in 1 .. Len(rawLines') /\ shown'[i] # <<>>
                  /\ hashes'[k] = Extent(<<i, shown'[i][1]>>, EndOf(rawLines'[i], i))
    <3>1. CASE k = Len(hashes) + 1
      <4>1. hashes'[k].start[1] = row /\ hashes'[k] = e
        BY <2>2, <2>3, <3>1
      <4>2. row \in 1 .. Len(rawLines') /\ shown'[row] # <<>>
        BY <1>0, <1>5, <2>1
      <4>3. e = Extent(<<row, shown'[row][1]>>, EndOf(rawLines'[row], row))
        BY <1>5
      <4> HIDE DEF e
      <4> QED BY <4>1, <4>2, <4>3
    <3>2. CASE k \in 1 .. Len(hashes)
      BY <1>6, <2>3, <3>2
    <3> QED BY <2>3, <3>1, <3>2
  <2>5. ASSUME NEW k \in DOMAIN hashes', NEW m \in DOMAIN hashes', k < m
        PROVE  hashes'[k].start[1] < hashes'[m].start[1]
    <3>1. CASE m = Len(hashes) + 1
      <4>1. k \in DOMAIN hashes /\ hashes'[k] = hashes[k] /\ hashes'[m].start[1] = row
        BY <2>2, <2>3, <2>5, <3>1
      <4>2. hashes[k].start[1] \in 1 .. Len(rawLines)
        BY <1>6, <4>1
      <4> QED BY <1>0, <4>1, <4>2
    <3>2. CASE m \in 1 .. Len(hashes)
      BY <2>3, <2>5, <3>2 DEF CommentsInv, Hashed
    <3> QED BY <2>3, <3>1, <3>2
  <2> QED BY <1>3, <2>3, <2>4, <2>5 DEF Hashed
<1> QED BY <1>4, <1>7, <1>8

LEMMA LineKept == CommentsInv /\ [CommentsNext]_commentVars => CommentsInv'
<1> SUFFICES ASSUME CommentsInv, [CommentsNext]_commentVars PROVE CommentsInv'
  OBVIOUS
<1> USE TypedFacts
<1>0. Typed
  BY DEF CommentsInv
<1>1. CASE CommentsNext
  <2>1. PICK l \in SeqOf(file.lexemes, file.width) : RawLine(l)
    BY <1>1 DEF CommentsNext
  <2>2. l \in Seq(Lexemes)
    <3>1. PICK n \in 0 .. file.width : l \in [1 .. n -> file.lexemes]
      BY DEF SeqOf
    <3>2. l \in Seq(file.lexemes) /\ file.lexemes \subseteq Lexemes
      BY <1>0, <3>1 DEF Typed, Lexemes
    <3> QED BY <3>2, SeqMonotonic
  <2>3. /\ rawLines' = Append(rawLines, l) /\ blankLine(l) /\ file' = file
        /\ LET cols == ScanLine(l).shown IN walkLine(l, Text(l, cols), cols)
    BY <2>1 DEF RawLine
  <2>4. /\ comments' \in Seq(Extents) /\ Laid' /\ BlockPlaced' /\ Covered'
        /\ blockStart' \in Place /\ inBlock' \in BOOLEAN
    BY <2>2, <2>3, LineFinds
  <2>5. hashes' \in Seq(Extents) /\ Hashed' /\ OneRegion' /\ walkInXs' \in BOOLEAN
    BY <2>2, <2>3, LineHashes
  <2>6. Typed'
    <3> DEFINE cols == ScanLine(l).shown
    <3>1. cols \in Seq(1 .. Len(l))
      BY <2>2, ScanKeeps DEF Kept, ScanRecords
    <3>2. cols \in Seq(Nat)
      BY <2>2, <3>1, SeqMonotonic
    <3>3. shown' = Append(shown, cols)
      BY <2>3 DEF blankLine
    <3>4. /\ shown \in Seq(Seq(Nat)) /\ Len(shown) = Len(rawLines) /\ rawLines \in Seq(Seq(Lexemes))
          /\ \A i \in 1 .. Len(rawLines) : \A c \in ToSet(shown[i]) : c \in 1 .. Len(rawLines[i])
      BY <1>0 DEF Typed
    <3>5. inRegion' \in BOOLEAN
      BY <2>5 DEF OneRegion
    <3>6. /\ rawLines' \in Seq(Seq(Lexemes)) /\ shown' \in Seq(Seq(Nat)) /\ Len(shown') = Len(rawLines')
          /\ Len(rawLines') = Len(rawLines) + 1 /\ rawLines'[Len(rawLines) + 1] = l /\ shown'[Len(rawLines) + 1] = cols
          /\ \A i \in 1 .. Len(rawLines) : rawLines'[i] = rawLines[i] /\ shown'[i] = shown[i]
      BY <1>0, <2>2, <2>3, <3>2, <3>3, <3>4
    <3>7. ASSUME NEW i \in 1 .. Len(rawLines') PROVE \A c \in ToSet(shown'[i]) : c \in 1 .. Len(rawLines'[i])
      <4>1. CASE i = Len(rawLines) + 1
        BY <3>1, <3>6, <4>1 DEF ToSet
      <4>2. CASE i \in 1 .. Len(rawLines)
        BY <3>4, <3>6, <4>2
      <4> QED BY <1>0, <3>6, <4>1, <4>2
    <3> HIDE DEF cols
    <3> QED BY <1>0, <2>3, <2>4, <2>5, <3>5, <3>6, <3>7 DEF Typed
  <2> QED BY <2>4, <2>5, <2>6 DEF CommentsInv
<1>2. CASE UNCHANGED commentVars
  BY <1>2 DEF commentVars, scan, walk, row, CommentsInv, Typed, BlockPlaced, Laid, Ordered, UpToPlace,
              Covered, HeldBy, Hashed, OneRegion
<1> QED BY <1>1, <1>2

\* The two passes over the lines agree, and what they found covers what they hid.
THEOREM CommentsInvHolds == CommentsSpec => []CommentsInv
BY InitKept, LineKept, PTL DEF CommentsSpec

------------------------------------------------------------------------------
(* The line that ends a region is seen *)

LEMMA MinFacts ==
    ASSUME NEW n \in Nat, NEW T \in SUBSET (1 .. n), T # {}
    PROVE  Min(T) \in T /\ \A k \in T : Min(T) <= k
<1> DEFINE S == {k \in 0 .. n : \A j \in T : j > k}
<1>1. ASSUME \A m \in T : \E k \in T : ~(m <= k) PROVE FALSE
  <2>1. 0 \in S
    OBVIOUS
  <2>2. ASSUME NEW k \in 0 .. n - 1, k \in S PROVE k + 1 \in S
    <3>1. ASSUME k + 1 \in T PROVE FALSE
      BY <1>1, <2>2, <3>1
    <3> QED BY <2>2, <3>1
  <2> HIDE DEF S
  <2>3. \A k \in 0 .. n : k \in S
    BY <2>1, <2>2, UpTo
  <2>4. n \in S
    BY <2>3
  <2>5. PICK j \in T : TRUE
    OBVIOUS
  <2> QED BY <2>4, <2>5 DEF S
<1>2. \E m \in T : \A k \in T : m <= k
  BY <1>1
<1> QED BY <1>2 DEF Min

\* A line that begins with a terminator begins with a lexeme that no comment opens.
LEMMA TerminatorFirst ==
    ASSUME NEW l \in Seq(Lexemes), xsTerminatorPrefix(l)
    PROVE  l # <<>> /\ l[1] \in {"<name>", "#includeXS", "#const"}
<1> DEFINE marks == {j \in DOMAIN l : l[j] \in {"/*", "//"}}
           text == IF marks = {} THEN l ELSE SubSeq(l, 1, Min(marks) - 1)
<1>1. terminates(text)
  BY DEF xsTerminatorPrefix
<1>2. text # <<>> /\ text[1] \in {"<name>", "#includeXS", "#const"}
  <2> HIDE DEF text
  <2> QED BY <1>1 DEF terminates, sectionHeader, isDirectiveLine
<1>3. CASE marks = {}
  BY <1>2, <1>3
<1>4. CASE marks # {}
  <2> DEFINE m == Min(marks)
  <2>1. m \in 1 .. Len(l)
    <3>1. marks \in SUBSET (1 .. Len(l)) /\ Len(l) \in Nat
      OBVIOUS
    <3> HIDE DEF marks
    <3> QED BY <1>4, <3>1, MinFacts
  <2>2. text = SubSeq(l, 1, m - 1)
    BY <1>4
  <2> HIDE DEF m, text, marks
  <2>3. m # 1
    BY <1>2, <2>2
  <2>4. text[1] = l[1]
    BY <2>1, <2>2, <2>3
  <2> QED BY <1>2, <2>1, <2>4
<1> QED BY <1>3, <1>4

\* What a line shows it goes on showing.
LEMMA ShownStays ==
    ASSUME NEW l, NEW j \in Nat, NEW s, s.shown \in Seq(Nat), s \in [mode : Modes, start : Place, found : Seq(Extents), shown : Seq(Nat)]
    PROVE  /\ \A c : Contains(s.shown, c) => Contains(ScanLexeme(l, s, j).shown, c)
           /\ s.mode = "text" /\ l[j] \notin {"/*", "//"} => Contains(ScanLexeme(l, s, j).shown, j)
<1> DEFINE t == ScanLexeme(l, s, j)
<1>1. t.shown = s.shown \/ t.shown = Append(s.shown, j)
  BY DEF ScanLexeme, Modes
<1>2. s.mode = "text" /\ l[j] \notin {"/*", "//"} => t.shown = Append(s.shown, j)
  BY DEF ScanLexeme
<1> HIDE DEF t
<1>3. \A c : Contains(s.shown, c) => Contains(Append(s.shown, j), c)
  BY DEF Contains
<1>4. Contains(Append(s.shown, j), j)
  <2>1. Append(s.shown, j)[Len(s.shown) + 1] = j /\ Len(s.shown) + 1 \in 1 .. Len(Append(s.shown, j))
    OBVIOUS
  <2> QED BY <2>1 DEF Contains
<1> QED BY <1>1, <1>2, <1>3, <1>4 DEF t

\* The scan and the walk agree about the regions, and the scan ends the comment
\* that is open above a line that begins with the terminator of a region: that
\* line shows its terminator (parse.go:971-976, 997-1004, 1039-1043).
THEOREM TerminatorSeenHolds == CommentsSpec => TerminatorSeen
<1> DEFINE Seen == walkInXs /\ rawLines' # rawLines /\ xsTerminatorPrefix(Last(rawLines')) => Contains(Last(shown'), 1)
<1>1. ASSUME CommentsInv, [CommentsNext]_commentVars PROVE [Seen]_commentVars
  <2> SUFFICES ASSUME CommentsNext, walkInXs, xsTerminatorPrefix(Last(rawLines')) PROVE Contains(Last(shown'), 1)
    BY <1>1
  <2> USE TypedFacts
  <2>1. PICK l \in SeqOf(file.lexemes, file.width) : RawLine(l)
    BY DEF CommentsNext
  <2>2. l \in Seq(Lexemes)
    <3>1. PICK n \in 0 .. file.width : l \in [1 .. n -> file.lexemes]
      BY DEF SeqOf
    <3>2. l \in Seq(file.lexemes) /\ file.lexemes \subseteq Lexemes
      BY <1>1, <3>1 DEF CommentsInv, Typed, Lexemes
    <3> QED BY <3>2, SeqMonotonic
  <2>3. rawLines' = Append(rawLines, l) /\ shown' = Append(shown, ScanLine(l).shown)
    BY <2>1 DEF RawLine, blankLine
  <2>4. Last(rawLines') = l /\ Last(shown') = ScanLine(l).shown
    BY <1>1, <2>2, <2>3 DEF CommentsInv, Typed, Last
  <2>5. xsTerminatorPrefix(l)
    BY <2>4
  <2>6. l # <<>> /\ l[1] \in {"<name>", "#includeXS", "#const"} /\ Len(l) \in Nat /\ Len(l) # 0
    BY <2>2, <2>5, TerminatorFirst
  <2>7. inRegion /\ ScanStart(l).mode = "text"
    BY <1>1, <2>5 DEF CommentsInv, OneRegion, ScanStart, clamped
  <2>8. \A j \in 0 .. Len(l) : ScanStates(l)[j] =
          IF j = 0 THEN ScanStart(l) ELSE ScanLexeme(l, ScanStates(l)[j - 1], j)
    BY <2>6, ScanEquation
  <2>9. \A j \in 0 .. Len(l) :
          ScanStates(l)[j] \in [mode : Modes, start : Place, found : Seq(Extents), shown : Seq(Nat)]
    <3> TAKE j \in 0 .. Len(l)
    <3>1. ScanStates(l)[j] \in ScanRecords(j)
      BY <1>1, <2>2, ScanKeeps DEF Kept
    <3>2. Seq(1 .. j) \subseteq Seq(Nat)
      BY SeqMonotonic
    <3> QED BY <3>1, <3>2 DEF ScanRecords
  <2> DEFINE S == {k \in 0 .. Len(l) - 1 : Contains(ScanStates(l)[k + 1].shown, 1)}
  <2>10. 0 \in S
    <3>1. ScanStates(l)[1] = ScanLexeme(l, ScanStates(l)[0], 1) /\ ScanStates(l)[0] = ScanStart(l)
      BY <2>6, <2>8
    <3>2. Contains(ScanStates(l)[1].shown, 1)
      <4>1. l[1] \notin {"/*", "//"} /\ 0 \in 0 .. Len(l) /\ 1 \in Nat
        BY <2>6
      <4>2. ScanStates(l)[0] \in [mode : Modes, start : Place, found : Seq(Extents), shown : Seq(Nat)]
        BY <2>9, <4>1
      <4>3. ScanStates(l)[0].shown \in Seq(Nat) /\ ScanStates(l)[0].mode = "text"
        BY <2>7, <3>1, <4>2
      <4> QED BY <3>1, <4>1, <4>2, <4>3, ShownStays
    <3> QED BY <2>6, <3>2
  <2>11. ASSUME NEW k \in 0 .. Len(l) - 1 - 1, k \in S PROVE k + 1 \in S
    <3>1. k + 1 \in 0 .. Len(l) /\ k + 2 \in 0 .. Len(l) /\ k + 2 # 0 /\ k + 2 - 1 = k + 1
          /\ k + 1 + 1 = k + 2 /\ k + 1 \in 0 .. Len(l) - 1 /\ k + 2 \in Nat
      BY <2>6
    <3>2. ScanStates(l)[k + 2] = ScanLexeme(l, ScanStates(l)[k + 1], k + 2)
      BY <2>8, <3>1
    <3>3. Contains(ScanStates(l)[k + 1].shown, 1)
      BY <2>11
    <3>4. Contains(ScanStates(l)[k + 2].shown, 1)
      <4> DEFINE t == ScanStates(l)[k + 1]
      <4>1. t \in [mode : Modes, start : Place, found : Seq(Extents), shown : Seq(Nat)]
        BY <2>9, <3>1
      <4>2. t.shown \in Seq(Nat)
        BY <4>1
      <4> HIDE DEF t
      <4>3. Contains(ScanLexeme(l, t, k + 2).shown, 1)
        BY <3>1, <3>3, <4>1, <4>2, ShownStays DEF t
      <4> QED BY <3>2, <4>3 DEF t
    <3> QED BY <3>1, <3>4
  <2> HIDE DEF S
  <2>12. \A k \in 0 .. Len(l) - 1 : k \in S
    <3>1. Len(l) - 1 \in Nat
      BY <2>6
    <3> QED BY <2>10, <2>11, <3>1, UpTo
  <2>13. Len(l) - 1 \in S /\ Len(l) - 1 + 1 = Len(l)
    BY <2>6, <2>12
  <2> QED BY <2>4, <2>13 DEF S, ScanLine
<1>2. TerminatorSeen <=> [][Seen]_commentVars
  BY PTL DEF TerminatorSeen
<1> QED BY <1>1, <1>2, CommentsInvHolds, PTL DEF CommentsSpec

------------------------------------------------------------------------------
(* The extents of the file *)

\* At the end of the file the comment that is open ends with it.
LEMMA ScannedFacts ==
    ASSUME CommentsInv
    PROVE  /\ scanned \in Seq(Extents) /\ Ordered(scanned)
           /\ \A i \in 1 .. Len(rawLines) : \A c \in 1 .. Len(rawLines[i]) :
                Contains(shown[i], c) <=> ~HeldBy(scanned, <<i, c>>)
           /\ inBlock => /\ scanned[Len(scanned)] = unclosed /\ scanned # <<>>
                         /\ \A i \in 1 .. Len(rawLines) : \A c \in 1 .. Len(rawLines[i]) :
                              Before(<<i, c>>, unclosed.end)
<1> USE TypedFacts
<1>0. Typed /\ comments \in Seq(Extents)
  BY DEF CommentsInv, Typed
<1>1. CASE ~inBlock
  <2>1. scanned = comments
    BY <1>1 DEF scanned
  <2> QED BY <1>0, <1>1, <2>1 DEF CommentsInv, Laid, Covered
<1>2. CASE inBlock
  <2>1. blockStart[1] \in 1 .. Len(rawLines) /\ blockStart[2] \in 1 .. Len(rawLines[blockStart[1]])
        /\ UpToPlace(comments, blockStart) /\ blockStart \in Place
    BY <1>0, <1>2 DEF CommentsInv, BlockPlaced, Typed
  <2>2. /\ unclosed.start = blockStart /\ unclosed \in Extents
        /\ unclosed.end = <<Len(rawLines), Len(rawLines[Len(rawLines)]) + 1>>
    <3>1. rawLines # <<>> /\ Len(rawLines) \in 1 .. Len(rawLines)
      BY <1>0, <2>1
    <3>2. unclosed = Extent(blockStart, <<Len(rawLines), Len(rawLines[Len(rawLines)]) + 1>>)
      BY <1>0, <3>1 DEF unclosed, EndOf
    <3>3. <<Len(rawLines), Len(rawLines[Len(rawLines)]) + 1>> \in Place
      BY <1>0, <3>1 DEF Place
    <3> QED BY <2>1, <3>2, <3>3 DEF Extent, Extents
  <2>3. ASSUME NEW i \in 1 .. Len(rawLines), NEW c \in 1 .. Len(rawLines[i])
        PROVE  Before(<<i, c>>, unclosed.end)
    <3> DEFINE q == unclosed.end
    <3>1. q[1] = Len(rawLines) /\ q[2] = Len(rawLines[Len(rawLines)]) + 1
      BY <2>2
    <3>2. i < Len(rawLines) \/ (i = Len(rawLines) /\ c < Len(rawLines[Len(rawLines)]) + 1)
      <4>1. Len(rawLines[i]) \in Nat /\ Len(rawLines) \in Nat
        BY <1>0
      <4>2. c < Len(rawLines[i]) + 1 /\ i <= Len(rawLines) /\ i \in Nat
        BY <4>1
      <4>3. CASE i = Len(rawLines)
        BY <4>2, <4>3
      <4>4. CASE i # Len(rawLines)
        BY <4>1, <4>2, <4>4
      <4> QED BY <4>3, <4>4
    <3> HIDE DEF q
    <3>3. Before(<<i, c>>, q)
      BY <3>1, <3>2 DEF Before
    <3> QED BY <3>3 DEF q
  <2>4. Before(unclosed.start, unclosed.end)
    BY <1>0, <2>1, <2>2 DEF Before
  <2>5. scanned = Append(comments, unclosed)
    BY <1>2 DEF scanned
  <2>6. scanned \in Seq(Extents) /\ Ordered(scanned)
    BY <1>0, <2>1, <2>2, <2>4, <2>5, OneMore DEF CommentsInv, Laid
  <2>7. scanned[Len(scanned)] = unclosed /\ scanned # <<>>
    <3>1. \A cs \in Seq(Extents) : \A e \in Extents :
            Append(cs, e)[Len(Append(cs, e))] = e /\ Append(cs, e) # <<>>
      OBVIOUS
    <3> QED BY <1>0, <2>2, <2>5, <3>1
  <2>8. ASSUME NEW i \in 1 .. Len(rawLines), NEW c \in 1 .. Len(rawLines[i])
        PROVE  Contains(shown[i], c) <=> ~HeldBy(scanned, <<i, c>>)
    <3>1. HeldBy(scanned, <<i, c>>) <=> HeldBy(comments, <<i, c>>) \/ In(<<i, c>>, unclosed)
      BY <1>0, <2>2, <2>5, OneMore
    <3> QED BY <1>2, <2>2, <2>3, <3>1 DEF CommentsInv, Covered, In
  <2> QED BY <2>3, <2>6, <2>7, <2>8
<1> QED BY <1>0, <1>1, <1>2 DEF Typed

\* The comment that begins where the open one does is the open one.
LEMMA UnclosedLast ==
    ASSUME CommentsInv, inBlock, NEW a \in DOMAIN scanned, scanned[a].start = unclosed.start
    PROVE  a = Len(scanned)
<1> DEFINE n == Len(scanned)
<1>1. n \in DOMAIN scanned /\ a <= n /\ scanned[n] = unclosed /\ scanned[a] \in Extents
      /\ scanned[n] \in Extents /\ Ordered(scanned)
  BY ScannedFacts
<1>2. ASSUME a < n PROVE FALSE
  <2>1. Before(scanned[a].start, scanned[a].end) /\ ~Before(scanned[n].start, scanned[a].end)
    BY <1>1, <1>2 DEF Ordered
  <2> HIDE DEF n
  <2> QED BY <1>1, <2>1
<1> QED BY <1>1, <1>2, ScannedFacts

\* One comment at most crosses the end of a #-line.
LEMMA CrossingOne ==
    ASSUME CommentsInv, NEW h \in Extents, NEW a \in DOMAIN scanned, NEW b \in DOMAIN scanned,
           scanned[a] \in crossing(h), scanned[b] \in crossing(h)
    PROVE  a = b
<1>1. scanned \in Seq(Extents) /\ Ordered(scanned)
  BY ScannedFacts
<1>2. ASSUME NEW x \in DOMAIN scanned, NEW y \in DOMAIN scanned, x < y,
             scanned[x] \in crossing(h), scanned[y] \in crossing(h)
      PROVE  FALSE
  <2>1. scanned[x] \in Extents /\ scanned[y] \in Extents
    BY <1>1
  <2>2. ~Before(scanned[y].start, scanned[x].end) /\ Before(scanned[y].start, h.end)
    BY <1>1, <1>2 DEF Ordered, crossing
  <2>3. Before(h.end, scanned[x].end) \/ (inBlock /\ scanned[x].start = unclosed.start)
    BY <1>2 DEF crossing
  <2>4. CASE Before(h.end, scanned[x].end)
    BY <2>1, <2>2, <2>4, BeforeOrder DEF Extents
  <2>5. CASE inBlock /\ scanned[x].start = unclosed.start
    <3>1. x = Len(scanned)
      BY <2>5, UnclosedLast
    <3> QED BY <1>1, <1>2, <3>1
  <2> QED BY <2>3, <2>4, <2>5
<1> QED BY <1>1, <1>2

LEMMA CutFacts ==
    ASSUME CommentsInv, NEW h \in Extents
    PROVE  /\ commentCut(h) \in Extents /\ commentCut(h).start = h.start
           /\ ~Before(h.end, commentCut(h).end)
           /\ \/ crossing(h) = {} /\ commentCut(h).end = h.end
              \/ \E a \in DOMAIN scanned :
                   scanned[a] \in crossing(h) /\ commentCut(h).end = scanned[a].start
<1>0. scanned \in Seq(Extents)
  BY ScannedFacts
<1>1. CASE crossing(h) = {}
  <2>1. commentCut(h) = h
    BY <1>1 DEF commentCut
  <2> QED BY <1>1, <2>1, BeforeOrder DEF Extents
<1>2. CASE crossing(h) # {}
  <2>1. PICK a \in DOMAIN scanned : scanned[a] \in crossing(h)
    BY <1>2 DEF crossing, ToSet
  <2>2. \A d \in crossing(h) : d = scanned[a]
    <3> TAKE d \in crossing(h)
    <3>1. PICK b \in DOMAIN scanned : d = scanned[b]
      BY DEF crossing, ToSet
    <3> QED BY <2>1, <3>1, CrossingOne
  <2>3. scanned[a] \in Extents /\ scanned[a].start \in Place
    <3>1. scanned[a] \in Extents
      BY <1>0
    <3> QED BY <3>1 DEF Extents
  <2>4. ~Before(scanned[a].start, scanned[a].start)
    BY <2>3, BeforeOrder
  <2>5. (CHOOSE c \in crossing(h) : \A d \in crossing(h) : ~Before(d.start, c.start)) = scanned[a]
    BY <2>1, <2>2, <2>4
  <2>6. commentCut(h) = [h EXCEPT !.end = scanned[a].start]
    BY <1>2, <2>5 DEF commentCut
  <2>7. Before(scanned[a].start, h.end)
    BY <2>1 DEF crossing
  <2>8. ~Before(h.end, scanned[a].start)
    BY <2>3, <2>7, BeforeOrder DEF Extents
  <2> QED BY <2>1, <2>3, <2>6, <2>8 DEF Extents
<1> QED BY <1>1, <1>2

\* A place of a #-line is on its line, which shows its first column; a line has
\* one #-line at most.
LEMMA HashFacts ==
    ASSUME CommentsInv, NEW k \in DOMAIN hashes
    PROVE  /\ hashes[k] \in Extents
           /\ \A q \in Place : In(q, hashes[k]) => q[1] = hashes[k].start[1]
           /\ ~HeldBy(scanned, hashes[k].start)
           /\ \A m \in DOMAIN hashes : hashes[m].start[1] = hashes[k].start[1] => m = k
<1> DEFINE h == hashes[k]
           i == hashes[k].start[1]
<1> USE TypedFacts
<1>0. Typed /\ hashes \in Seq(Extents)
  BY DEF CommentsInv, Typed
<1>1. h \in Extents
  BY <1>0
<1>2. /\ i \in 1 .. Len(rawLines) /\ shown[i] # <<>>
      /\ h.start = <<i, shown[i][1]>> /\ h.end = <<i, Len(rawLines[i]) + 1>>
  BY DEF CommentsInv, Hashed, Extent, EndOf
<1>3. \A q \in Place : In(q, h) => q[1] = i
  <2> HIDE DEF h, i
  <2> QED BY <1>0, <1>2 DEF In, Before, Place
<1>4. ~HeldBy(scanned, h.start)
  <2> HIDE DEF i
  <2> DEFINE c == shown[i][1]
  <2>1. shown[i] \in Seq(Nat) /\ Len(shown[i]) > 0
    <3>1. shown \in Seq(Seq(Nat)) /\ i \in 1 .. Len(shown)
      BY <1>0, <1>2 DEF Typed
    <3>2. shown[i] \in Seq(Nat) /\ shown[i] # <<>>
      BY <1>2, <3>1
    <3>3. \A x \in Seq(Nat) : x # <<>> => Len(x) > 0
      OBVIOUS
    <3> QED BY <3>2, <3>3
  <2>2. Contains(shown[i], c) /\ c \in ToSet(shown[i])
    BY <2>1 DEF Contains, ToSet
  <2>3. c \in 1 .. Len(rawLines[i])
    BY <1>0, <1>2, <2>2 DEF Typed
  <2> QED BY <1>2, <2>2, <2>3, ScannedFacts
<1>5. ASSUME NEW m \in DOMAIN hashes, hashes[m].start[1] = i PROVE m = k
  <2>1. \A a, b \in DOMAIN hashes : a < b => hashes[a].start[1] < hashes[b].start[1]
    BY DEF CommentsInv, Hashed
  <2>2. m \in Nat /\ k \in Nat
    BY <1>0
  <2>3. i \in Nat
    BY <1>2
  <2> HIDE DEF i
  <2> QED BY <1>5, <2>1, <2>2, <2>3 DEF i
<1> QED BY <1>1, <1>3, <1>4, <1>5

\* A place of a #-line is in one extent: the #-line as far as its cut, the
\* comment that cuts it from there.
LEMMA HashCovered ==
    ASSUME CommentsInv, NEW p \in Place, NEW k \in DOMAIN hashes, In(p, hashes[k]),
           inBlock => Before(p, unclosed.end),
           NEW cut, cut = [i \in DOMAIN hashes |-> commentCut(hashes[i])]
    PROVE  \/ /\ In(p, cut[k])
              /\ \A a \in DOMAIN scanned : In(p, scanned[a]) => insideRange(scanned[a], cut)
           \/ /\ ~In(p, cut[k])
              /\ \E a \in DOMAIN scanned : In(p, scanned[a]) /\ ~insideRange(scanned[a], cut)
<1> DEFINE h == hashes[k]
           q == cut[k].end
<1>0. scanned \in Seq(Extents) /\ Ordered(scanned) /\ h \in Extents
  BY ScannedFacts, HashFacts
<1>1. /\ \A m \in DOMAIN hashes :
            hashes[m] \in Extents /\ cut[m] \in Extents /\ cut[m].start = hashes[m].start
            /\ ~Before(hashes[m].end, cut[m].end)
      /\ DOMAIN cut = DOMAIN hashes
      /\ \/ crossing(h) = {} /\ q = h.end
         \/ \E a \in DOMAIN scanned : scanned[a] \in crossing(h) /\ q = scanned[a].start
  BY HashFacts, CutFacts
<1>2. q \in Place /\ h.start \in Place /\ h.end \in Place /\ cut[k].start = h.start
  <2>1. cut[k] \in Extents
    BY <1>1
  <2> QED BY <1>0, <1>1, <2>1 DEF Extents
<1>3. ~Before(p, h.start) /\ Before(p, h.end)
  BY DEF In
<1>4. \A a \in DOMAIN scanned : scanned[a] \in Extents /\ scanned[a].start \in Place
        /\ scanned[a].end \in Place /\ Before(scanned[a].start, scanned[a].end) /\ a \in Nat
  <2> TAKE a \in DOMAIN scanned
  <2>1. scanned[a] \in Extents
    BY <1>0
  <2> QED BY <1>0, <2>1 DEF Extents, Ordered
<1> HIDE DEF q, h
<1>5. CASE Before(p, q)
  <2>1. In(p, cut[k])
    BY <1>2, <1>3, <1>5 DEF In, q
  <2>2. ASSUME NEW a \in DOMAIN scanned, In(p, scanned[a]), ~insideRange(scanned[a], cut) PROVE FALSE
    <3>1. ~Before(p, scanned[a].start) /\ Before(p, scanned[a].end)
      BY <2>2 DEF In
    <3>2. ~Before(scanned[a].start, h.start)
      <4>1. ASSUME Before(scanned[a].start, h.start) PROVE FALSE
        <5>1. In(h.start, scanned[a])
          BY <1>2, <1>3, <1>4, <3>1, <4>1, BeforeOrder DEF In
        <5>2. ~HeldBy(scanned, h.start)
          BY HashFacts DEF h
        <5> QED BY <5>1, <5>2 DEF HeldBy
      <4> QED BY <4>1
    <3>3. Before(q, scanned[a].end)
      BY <1>1, <1>2, <2>2, <3>2 DEF insideRange, h, q
    <3>4. Before(scanned[a].start, h.end)
      BY <1>2, <1>3, <1>4, <3>1, BeforeOrder
    <3>5. CASE crossing(h) = {} /\ q = h.end
      <4>1. scanned[a] \in crossing(h)
        BY <3>2, <3>3, <3>4, <3>5 DEF crossing, ToSet
      <4> QED BY <3>5, <4>1
    <3>6. CASE \E b \in DOMAIN scanned : scanned[b] \in crossing(h) /\ q = scanned[b].start
      <4>1. PICK b \in DOMAIN scanned : q = scanned[b].start
        BY <3>6
      <4>2. Before(scanned[a].start, q)
        BY <1>2, <1>4, <1>5, <3>1, BeforeOrder
      <4>3. a # b
        BY <1>2, <4>1, <4>2, BeforeOrder
      <4>4. CASE a < b
        <5>1. ~Before(scanned[b].start, scanned[a].end)
          BY <1>0, <4>4 DEF Ordered
        <5> QED BY <3>3, <4>1, <5>1
      <4>5. CASE b < a
        <5>1. ~Before(scanned[a].start, scanned[b].end) /\ Before(q, scanned[b].end)
          BY <1>0, <1>4, <4>1, <4>5 DEF Ordered
        <5>2. Before(q, scanned[a].start)
          BY <1>2, <1>4, <5>1, BeforeOrder
        <5> QED BY <1>2, <1>4, <4>2, <5>2, BeforeOrder
      <4> QED BY <1>4, <4>3, <4>4, <4>5
    <3> QED BY <1>1, <3>5, <3>6
  <2> QED BY <2>1, <2>2
<1>6. CASE ~Before(p, q)
  <2>1. ~In(p, cut[k])
    BY <1>6 DEF In, q
  <2>2. PICK a \in DOMAIN scanned : scanned[a] \in crossing(h) /\ q = scanned[a].start
    BY <1>1, <1>3, <1>6
  <2>3. /\ ~Before(q, h.start) /\ Before(q, h.end)
        /\ Before(h.end, scanned[a].end) \/ (inBlock /\ scanned[a].start = unclosed.start)
    BY <2>2 DEF crossing
  <2>4. Before(p, scanned[a].end)
    <3>1. CASE Before(h.end, scanned[a].end)
      BY <1>2, <1>3, <1>4, <3>1, BeforeOrder
    <3>2. CASE inBlock /\ scanned[a].start = unclosed.start
      <4>1. scanned[a] = unclosed
        BY <3>2, ScannedFacts, UnclosedLast
      <4> QED BY <3>2, <4>1
    <3> QED BY <2>3, <3>1, <3>2
  <2>5. In(p, scanned[a])
    BY <1>6, <2>2, <2>4 DEF In
  <2>6. ASSUME insideRange(scanned[a], cut) PROVE FALSE
    <3>1. PICK m \in DOMAIN hashes :
            ~Before(q, cut[m].start) /\ ~Before(cut[m].end, scanned[a].end)
      BY <1>1, <2>2, <2>6 DEF insideRange
    <3>2. cut[m].end \in Place /\ hashes[m].end \in Place /\ cut[m].start = hashes[m].start
          /\ ~Before(hashes[m].end, cut[m].end)
      <4>1. cut[m] \in Extents /\ hashes[m] \in Extents
        BY <1>1
      <4> QED BY <1>1, <4>1 DEF Extents
    <3>3. Before(q, scanned[a].end)
      BY <1>4, <2>2
    <3>4. Before(q, cut[m].end)
      BY <1>2, <1>4, <3>1, <3>2, <3>3, BeforeOrder
    <3>5. Before(q, hashes[m].end)
      BY <1>2, <3>2, <3>4, BeforeOrder
    <3>6. In(q, hashes[m]) /\ In(q, h)
      BY <2>3, <3>1, <3>2, <3>5 DEF In
    <3>7. hashes[m].start[1] = hashes[k].start[1]
      BY <1>2, <3>6, HashFacts DEF h
    <3>8. m = k
      BY <3>7, HashFacts
    <3>9. ~Before(q, scanned[a].end)
      BY <3>1, <3>8 DEF q
    <3> QED BY <3>3, <3>9
  <2> QED BY <2>1, <2>5, <2>6
<1> QED BY <1>5, <1>6

LEMMA CoverOnce == CommentsInv => CommentsCoverOnce
<1> SUFFICES ASSUME CommentsInv PROVE CommentsCoverOnce
  OBVIOUS
<1> USE TypedFacts
<1>0. Typed
  BY DEF CommentsInv
<1> DEFINE cut == [k \in DOMAIN hashes |-> commentCut(hashes[k])]
           found == mergeComments
           holders(p) == {x \in DOMAIN found : In(p, found[x])}
<1>1. /\ \A k \in DOMAIN hashes : <<"hash", k>> \in DOMAIN found /\ found[<<"hash", k>>] = cut[k]
      /\ \A a \in DOMAIN scanned : ~insideRange(scanned[a], cut) =>
           <<"comment", a>> \in DOMAIN found /\ found[<<"comment", a>>] = scanned[a]
      /\ \A x \in DOMAIN found :
           \/ \E k \in DOMAIN hashes : x = <<"hash", k>>
           \/ \E a \in DOMAIN scanned : x = <<"comment", a>> /\ ~insideRange(scanned[a], cut)
  <2>1. mergeComments = extents(cut, cut)
    BY DEF mergeComments
  <2>2. DOMAIN cut = DOMAIN hashes
    OBVIOUS
  <2> HIDE DEF cut
  <2> QED BY <2>1, <2>2 DEF extents
<1>2. \A m \in DOMAIN hashes : \A p : In(p, cut[m]) =>
        ~Before(p, hashes[m].start) /\ Before(p, cut[m].end)
  BY HashFacts, CutFacts DEF In
<1>3. \A m \in DOMAIN hashes : \A p \in Place : In(p, cut[m]) => In(p, hashes[m])
  <2> SUFFICES ASSUME NEW m \in DOMAIN hashes, NEW p \in Place, In(p, cut[m]) PROVE In(p, hashes[m])
    OBVIOUS
  <2>1. hashes[m] \in Extents /\ cut[m] \in Extents /\ ~Before(hashes[m].end, cut[m].end)
    BY HashFacts, CutFacts
  <2>2. hashes[m].end \in Place /\ cut[m].end \in Place
    BY <2>1 DEF Extents
  <2> QED BY <1>2, <2>1, <2>2, BeforeOrder DEF In
<1> HIDE DEF found
<1> SUFFICES ASSUME NEW i \in DOMAIN rawLines, NEW j \in DOMAIN rawLines[i]
             PROVE  IF ~Contains(shown[i], j) \/ (\E k \in DOMAIN hashes : In(<<i, j>>, hashes[k]))
                      THEN \E x \in DOMAIN found : holders(<<i, j>>) = {x}
                      ELSE holders(<<i, j>>) = {}
  BY DEF CommentsCoverOnce, found
<1> DEFINE p == <<i, j>>
<1>4. /\ p \in Place /\ (Contains(shown[i], j) <=> ~HeldBy(scanned, p))
      /\ inBlock => Before(p, unclosed.end)
  <2>1. i \in 1 .. Len(rawLines) /\ j \in 1 .. Len(rawLines[i])
    BY <1>0
  <2> QED BY <1>0, <2>1, ScannedFacts DEF Place
<1>5. scanned \in Seq(Extents) /\ Ordered(scanned)
  BY ScannedFacts
<1> HIDE DEF p
<1>6. CASE \E k \in DOMAIN hashes : In(p, hashes[k])
  <2>1. PICK k \in DOMAIN hashes : In(p, hashes[k])
    BY <1>6
  <2>2. \A m \in DOMAIN hashes : In(p, cut[m]) => m = k
    <3>1. ASSUME NEW m \in DOMAIN hashes, In(p, cut[m]) PROVE m = k
      <4>1. In(p, hashes[m])
        BY <1>3, <1>4, <3>1
      <4>2. p[1] = hashes[m].start[1] /\ p[1] = hashes[k].start[1]
        BY <1>4, <2>1, <4>1, HashFacts
      <4> QED BY <4>2, HashFacts
    <3> QED BY <3>1
  <2>3. \/ /\ In(p, cut[k])
           /\ \A a \in DOMAIN scanned : In(p, scanned[a]) => insideRange(scanned[a], cut)
        \/ /\ ~In(p, cut[k])
           /\ \E a \in DOMAIN scanned : In(p, scanned[a]) /\ ~insideRange(scanned[a], cut)
    BY <1>4, <2>1, HashCovered
  <2> HIDE DEF cut
  <2>4. CASE /\ In(p, cut[k])
             /\ \A a \in DOMAIN scanned : In(p, scanned[a]) => insideRange(scanned[a], cut)
    <3>1. holders(p) = {<<"hash", k>>}
      BY <1>1, <2>2, <2>4
    <3> QED BY <1>1, <1>6, <3>1 DEF p
  <2>5. CASE /\ ~In(p, cut[k])
             /\ \E a \in DOMAIN scanned : In(p, scanned[a]) /\ ~insideRange(scanned[a], cut)
    <3>1. PICK a \in DOMAIN scanned : In(p, scanned[a]) /\ ~insideRange(scanned[a], cut)
      BY <2>5
    <3>2. \A b \in DOMAIN scanned : In(p, scanned[b]) => b = a
      BY <1>4, <1>5, <3>1, HeldOnce
    <3>3. holders(p) = {<<"comment", a>>}
      BY <1>1, <2>2, <2>5, <3>1, <3>2
    <3> QED BY <1>1, <1>6, <3>1, <3>3 DEF p
  <2> QED BY <2>3, <2>4, <2>5
<1>7. CASE ~\E k \in DOMAIN hashes : In(p, hashes[k])
  <2>1. \A m \in DOMAIN hashes : ~In(p, cut[m])
    BY <1>3, <1>4, <1>7
  <2>2. \A a \in DOMAIN scanned : In(p, scanned[a]) => ~insideRange(scanned[a], cut)
    <3>1. ASSUME NEW a \in DOMAIN scanned, In(p, scanned[a]), insideRange(scanned[a], cut) PROVE FALSE
      <4>1. PICK m \in DOMAIN hashes :
              ~Before(scanned[a].start, cut[m].start) /\ ~Before(cut[m].end, scanned[a].end)
        BY <3>1 DEF insideRange
      <4>2. cut[m] \in Extents /\ scanned[a] \in Extents
        BY <1>5, HashFacts, CutFacts
      <4>3. cut[m].start \in Place /\ cut[m].end \in Place /\ scanned[a].start \in Place
            /\ scanned[a].end \in Place
        BY <4>2 DEF Extents
      <4> HIDE DEF cut
      <4>4. ~Before(p, scanned[a].start) /\ Before(p, scanned[a].end)
        BY <3>1 DEF In
      <4>5. ~Before(p, cut[m].start) /\ Before(p, cut[m].end)
        BY <1>4, <4>1, <4>3, <4>4, BeforeOrder
      <4> QED BY <2>1, <4>5 DEF In
    <3> QED BY <3>1
  <2> HIDE DEF cut
  <2>3. CASE HeldBy(scanned, p)
    <3>1. PICK a \in DOMAIN scanned : In(p, scanned[a])
      BY <2>3 DEF HeldBy
    <3>2. \A b \in DOMAIN scanned : In(p, scanned[b]) => b = a
      BY <1>4, <1>5, <3>1, HeldOnce
    <3>3. holders(p) = {<<"comment", a>>}
      BY <1>1, <2>1, <2>2, <3>1, <3>2
    <3> QED BY <1>1, <1>4, <2>2, <2>3, <3>1, <3>3 DEF p
  <2>4. CASE ~HeldBy(scanned, p)
    <3>1. holders(p) = {}
      BY <1>1, <2>1, <2>4 DEF HeldBy
    <3> QED BY <1>4, <1>7, <2>4, <3>1 DEF p
  <2> QED BY <2>3, <2>4
<1> QED BY <1>6, <1>7

\* Every byte the walk does not read, and every byte of a #-line, is in exactly
\* one of the comment extents of the file (mergeComments, parse.go:1102-1175).
THEOREM CommentsCoverOnceHolds == CommentsSpec => []CommentsCoverOnce
BY CommentsInvHolds, CoverOnce, PTL

------------------------------------------------------------------------------
(* What the characters of a text take *)

Texts  == Seq(Characters)
Widths == [Characters -> Nat]

\* Every character takes something.
Wide(width) == \A c \in Characters : width[c] # 0

LEMMA WidthsAre ==
    /\ bytes \in Widths /\ units \in Widths /\ newlines \in Widths
    /\ Wide(bytes) /\ Wide(units)
    /\ \A c \in Characters : newlines[c] = IF c \in breaks THEN 1 ELSE 0
<1>1. /\ \A c \in Characters : bytes[c] \in 1 .. 4 /\ units[c] \in 1 .. 2
      /\ \A c \in Characters : newlines[c] = IF c \in breaks THEN 1 ELSE 0
  BY DEF bytes, units, newlines, Characters
<1>2. bytes \in Widths /\ units \in Widths /\ newlines \in Widths
  <2>1. bytes = [c \in Characters |-> bytes[c]] /\ units = [c \in Characters |-> units[c]]
        /\ newlines = [c \in Characters |-> newlines[c]]
    BY DEF bytes, units, newlines
  <2> QED BY <1>1, <2>1 DEF Widths
<1>3. Wide(bytes) /\ Wide(units)
  BY <1>1 DEF Wide
<1> QED BY <1>1, <1>2, <1>3

LEMMA TakenEquation ==
    ASSUME NEW text \in Texts, NEW width \in Widths
    PROVE  taken(text, width) =
             [k \in 0 .. Len(text) |->
                IF k = 0 THEN 0 ELSE taken(text, width)[k - 1] + width[text[k]]]
<1> DEFINE Solves(f, n) == f = [k \in 0 .. n |-> IF k = 0 THEN 0 ELSE f[k - 1] + width[text[k]]]
           S == {n \in 0 .. Len(text) : \E f : Solves(f, n)}
<1>1. 0 \in S
  <2> DEFINE f == [k \in 0 .. 0 |-> 0]
  <2>1. f = [k \in 0 .. 0 |-> IF k = 0 THEN 0 ELSE f[k - 1] + width[text[k]]]
    OBVIOUS
  <2> HIDE DEF f
  <2>2. Solves(f, 0)
    BY <2>1
  <2> QED BY <2>2
<1>2. ASSUME NEW n \in 0 .. Len(text) - 1, n \in S PROVE n + 1 \in S
  <2>1. PICK f : Solves(f, n)
    BY <1>2
  <2> DEFINE g == [k \in 0 .. n + 1 |-> IF k = n + 1 THEN f[n] + width[text[n + 1]] ELSE f[k]]
  <2>2. \A k \in 0 .. n : f[k] = IF k = 0 THEN 0 ELSE f[k - 1] + width[text[k]]
    BY <2>1
  <2>3. \A k \in 0 .. n + 1 : g[k] = IF k = 0 THEN 0 ELSE g[k - 1] + width[text[k]]
    <3>1. \A k \in 0 .. n : g[k] = f[k]
      OBVIOUS
    <3>2. g[n + 1] = f[n] + width[text[n + 1]]
      OBVIOUS
    <3> HIDE DEF g
    <3>3. ASSUME NEW k \in 0 .. n + 1, k # n + 1, k # 0 PROVE g[k] = g[k - 1] + width[text[k]]
      BY <2>2, <3>1, <3>3
    <3>4. g[n + 1] = g[n] + width[text[n + 1]] /\ n + 1 - 1 = n
      BY <3>1, <3>2
    <3>5. g[0] = 0
      BY <2>2, <3>1
    <3> QED BY <3>3, <3>4, <3>5
  <2>4. g = [k \in 0 .. n + 1 |-> g[k]]
    OBVIOUS
  <2> HIDE DEF g
  <2>5. Solves(g, n + 1)
    BY <2>3, <2>4
  <2> QED BY <2>5
<1>3. Len(text) \in Nat
  BY DEF Texts
<1>4. Len(text) \in S
  <2> HIDE DEF S
  <2>1. \A k \in 0 .. Len(text) : k \in S
    BY <1>1, <1>2, <1>3, UpTo
  <2> QED BY <1>3, <2>1
<1>5. PICK f : Solves(f, Len(text))
  BY <1>4
<1> QED BY <1>5 DEF taken

LEMMA TakenIs ==
    ASSUME NEW text \in Texts, NEW width \in Widths
    PROVE  /\ Len(text) \in Nat /\ taken(text, width)[0] = 0
           /\ \A k \in 1 .. Len(text) : /\ text[k] \in Characters /\ width[text[k]] \in Nat
                                        /\ taken(text, width)[k]
                                             = taken(text, width)[k - 1] + width[text[k]]
           /\ \A k \in 0 .. Len(text) : taken(text, width)[k] \in Nat
<1> DEFINE S == {k \in 0 .. Len(text) : taken(text, width)[k] \in Nat}
<1>1. Len(text) \in Nat /\ \A k \in 1 .. Len(text) : text[k] \in Characters /\ width[text[k]] \in Nat
  BY DEF Texts, Widths
<1>2. PICK f : f = taken(text, width)
  OBVIOUS
<1>3. f = [k \in 0 .. Len(text) |-> IF k = 0 THEN 0 ELSE f[k - 1] + width[text[k]]]
  BY <1>2, TakenEquation
<1>4. f[0] = 0 /\ \A k \in 1 .. Len(text) : f[k] = f[k - 1] + width[text[k]]
  BY <1>1, <1>3
<1>5. 0 \in S
  BY <1>1, <1>2, <1>4
<1>6. ASSUME NEW k \in 0 .. Len(text) - 1, k \in S PROVE k + 1 \in S
  <2>1. k + 1 \in 1 .. Len(text) /\ k + 1 - 1 = k
    BY <1>1
  <2>2. f[k + 1] = f[k] + width[text[k + 1]] /\ f[k] \in Nat
    BY <1>2, <1>4, <1>6, <2>1
  <2> QED BY <1>1, <1>2, <2>1, <2>2
<1> HIDE DEF S
<1>7. \A k \in 0 .. Len(text) : k \in S
  BY <1>1, <1>5, <1>6, UpTo
<1> QED BY <1>1, <1>2, <1>4, <1>7 DEF S

\* More characters take no less, and more if each takes something.
LEMMA TakenGrows ==
    ASSUME NEW text \in Texts, NEW width \in Widths,
           NEW a \in 0 .. Len(text), NEW b \in 0 .. Len(text), a <= b
    PROVE  /\ taken(text, width)[a] <= taken(text, width)[b]
           /\ Wide(width) /\ a < b => taken(text, width)[a] < taken(text, width)[b]
<1> DEFINE S == {k \in 0 .. Len(text) : k < a \/
                   /\ taken(text, width)[a] <= taken(text, width)[k]
                   /\ Wide(width) /\ a < k => taken(text, width)[a] < taken(text, width)[k]}
<1>0. PICK f : f = taken(text, width)
  OBVIOUS
<1>1. /\ Len(text) \in Nat /\ \A k \in 0 .. Len(text) : f[k] \in Nat
      /\ \A k \in 1 .. Len(text) : /\ text[k] \in Characters /\ width[text[k]] \in Nat
                                   /\ f[k] = f[k - 1] + width[text[k]]
  BY <1>0, TakenIs
<1>2. 0 \in S
  BY <1>0, <1>1
<1>3. ASSUME NEW k \in 0 .. Len(text) - 1, k \in S PROVE k + 1 \in S
  <2>1. /\ k + 1 \in 1 .. Len(text) /\ k \in 0 .. Len(text) /\ k + 1 \in 0 .. Len(text)
        /\ f[k + 1] = f[k] + width[text[k + 1]] /\ width[text[k + 1]] \in Nat
        /\ text[k + 1] \in Characters /\ f[k] \in Nat /\ f[a] \in Nat
    <3>1. k + 1 \in 1 .. Len(text) /\ k \in 0 .. Len(text) /\ k + 1 \in 0 .. Len(text) /\ k + 1 - 1 = k
      BY <1>1
    <3> QED BY <1>1, <3>1
  <2>2. Wide(width) => width[text[k + 1]] # 0
    BY <2>1 DEF Wide
  <2>3. CASE k < a /\ k + 1 < a
    BY <2>1, <2>3
  <2>4. CASE k < a /\ ~(k + 1 < a)
    <3>1. k + 1 = a
      BY <2>1, <2>4
    <3> QED BY <1>0, <2>1, <3>1
  <2>5. CASE ~(k < a)
    <3>1. f[a] <= f[k]
      BY <1>0, <1>3, <2>5
    <3>2. f[a] <= f[k + 1]
      BY <2>1, <3>1
    <3>3. Wide(width) => f[a] < f[k + 1]
      <4>1. PICK u \in Nat, v \in Nat, w \in Nat : u = f[a] /\ v = f[k] /\ w = width[text[k + 1]]
        BY <1>0, <2>1
      <4>2. f[k + 1] = v + w
        BY <2>1, <4>1, Zenon
      <4>3. u <= v
        BY <3>1, <4>1, Zenon
      <4>4. Wide(width) => w # 0
        BY <2>2, <4>1
      <4>5. w # 0 => u < v + w
        BY <4>3
      <4> QED BY <4>1, <4>2, <4>4, <4>5, Zenon
    <3> QED BY <1>0, <2>1, <3>2, <3>3
  <2> QED BY <2>3, <2>4, <2>5
<1> HIDE DEF S
<1>4. \A k \in 0 .. Len(text) : k \in S
  BY <1>1, <1>2, <1>3, UpTo
<1>5. b \in S /\ ~(b < a)
  BY <1>4
<1> QED BY <1>5 DEF S

\* The first n characters of a text have the widths of n characters of another,
\* from the i-th on; and take what those do.
Alike(p, q, i, n, width) ==
    /\ n <= Len(p) /\ i + n <= Len(q)
    /\ \A k \in 1 .. n : width[p[k]] = width[q[i + k]]

TakesAlike(p, q, i, n, width) ==
    \A k \in 0 .. n : taken(p, width)[k] = taken(q, width)[i + k] - taken(q, width)[i]

LEMMA TakenAlike ==
    ASSUME NEW p \in Texts, NEW q \in Texts, NEW width \in Widths,
           NEW n \in Nat, NEW i \in Nat, Alike(p, q, i, n, width)
    PROVE  TakesAlike(p, q, i, n, width)
<1>length. /\ n <= Len(p) /\ i + n <= Len(q)
      /\ \A k \in 1 .. n : width[p[k]] = width[q[i + k]]
  BY DEF Alike
<1> DEFINE S == {k \in 0 .. n : taken(p, width)[k] = taken(q, width)[i + k] - taken(q, width)[i]}
<1>0. PICK f, g : f = taken(p, width) /\ g = taken(q, width)
  OBVIOUS
<1>1. /\ Len(p) \in Nat /\ f[0] = 0
      /\ \A k \in 1 .. Len(p) : f[k] = f[k - 1] + width[p[k]]
      /\ \A k \in 0 .. Len(p) : f[k] \in Nat
  BY <1>0, TakenIs
<1>2. /\ Len(q) \in Nat
      /\ \A k \in 1 .. Len(q) : g[k] = g[k - 1] + width[q[k]] /\ width[q[k]] \in Nat
      /\ \A k \in 0 .. Len(q) : g[k] \in Nat
  BY <1>0, TakenIs
<1>3. 0 \in S
  <2>1. i + 0 = i /\ i \in 0 .. Len(q)
    BY <1>2, <1>length
  <2> QED BY <1>0, <1>1, <1>2, <2>1
<1>4. ASSUME NEW k \in 0 .. n - 1, k \in S PROVE k + 1 \in S
  <2>1. /\ k + 1 \in 1 .. Len(p) /\ k + 1 \in 1 .. n /\ k + 1 - 1 = k
        /\ i + (k + 1) \in 1 .. Len(q) /\ i + (k + 1) - 1 = i + k
        /\ i + k \in 0 .. Len(q) /\ i \in 0 .. Len(q)
    BY <1>1, <1>2, <1>length
  <2>2. f[k + 1] = f[k] + width[p[k + 1]]
    <3>1. PICK m \in 1 .. Len(p) : m = k + 1 /\ m - 1 = k
      BY <2>1
    <3>2. f[m] = f[m - 1] + width[p[m]]
      BY <1>1
    <3> QED BY <3>1, <3>2
  <2>3. g[i + (k + 1)] = g[i + k] + width[q[i + (k + 1)]] /\ width[q[i + (k + 1)]] \in Nat
    BY <1>2, <2>1
  <2>4. f[k] = g[i + k] - g[i] /\ g[i + k] \in Nat /\ g[i] \in Nat
    BY <1>0, <1>2, <1>4, <2>1
  <2>5. width[p[k + 1]] = width[q[i + (k + 1)]]
    BY <2>1, <1>length
  <2>6. f[k + 1] = g[i + (k + 1)] - g[i]
    <3>1. PICK u \in Nat, v \in Nat, w \in Nat :
            u = g[i + k] /\ v = g[i] /\ w = width[q[i + (k + 1)]]
      BY <2>3, <2>4
    <3>2. f[k + 1] = (u - v) + w
      BY <2>2, <2>4, <2>5, <3>1, Zenon
    <3>3. g[i + (k + 1)] = u + w
      BY <2>3, <3>1, Zenon
    <3>4. (u - v) + w = (u + w) - v
      OBVIOUS
    <3> QED BY <3>1, <3>2, <3>3, <3>4, Zenon
  <2> QED BY <1>0, <2>1, <2>6
<1> HIDE DEF S
<1>5. \A k \in 0 .. n : k \in S
  BY <1>3, <1>4, UpTo
<1> QED BY <1>5 DEF S, TakesAlike

\* A part of a text.
LEMMA PartIs ==
    ASSUME NEW text \in Texts, NEW i \in 0 .. Len(text), NEW j \in i .. Len(text)
    PROVE  LET part == SubSeq(text, i + 1, j)
           IN /\ part \in Texts /\ Len(part) = j - i /\ j - i \in Nat
              /\ \A k \in 1 .. j - i : part[k] = text[i + k]
              /\ \A width \in Widths : \A k \in 0 .. j - i :
                   taken(part, width)[k] = taken(text, width)[i + k] - taken(text, width)[i]
<1> DEFINE part == SubSeq(text, i + 1, j)
<1>1. Len(text) \in Nat /\ i \in Nat /\ j \in Nat /\ j - i \in Nat /\ i + (j - i) <= Len(text)
  BY DEF Texts
<1>2. part \in Texts /\ Len(part) = j - i /\ \A k \in 1 .. j - i : part[k] = text[i + k]
  BY <1>1 DEF Texts
<1> HIDE DEF part
<1>3. ASSUME NEW width \in Widths
      PROVE  \A k \in 0 .. j - i :
               taken(part, width)[k] = taken(text, width)[i + k] - taken(text, width)[i]
  <2>1. \A k \in 1 .. j - i : width[part[k]] = width[text[i + k]]
    BY <1>2
  <2>2. Alike(part, text, i, j - i, width)
    BY <1>1, <1>2, <2>1 DEF Alike
  <2>3. TakesAlike(part, text, i, j - i, width)
    BY <1>1, <1>2, <2>2, TakenAlike
  <2> QED BY <2>3 DEF TakesAlike
<1> QED BY <1>1, <1>2, <1>3 DEF part

------------------------------------------------------------------------------
(* Lines *)

\* The line a place is on, and the place where that line begins.
lineAt(text, k)  == taken(text, newlines)[k]
beginOf(text, k) == Max({0} \cup {i \in 1 .. k : text[i] \in breaks})

LEMMA MaxFacts ==
    ASSUME NEW n \in Nat, NEW T \in SUBSET (0 .. n), T # {}
    PROVE  Max(T) \in T /\ \A k \in T : k <= Max(T)
<1> DEFINE S == {k \in 0 .. n : \A j \in T : j < n - k}
<1>1. ASSUME \A m \in T : \E k \in T : ~(m >= k) PROVE FALSE
  <2>1. 0 \in S
    <3>1. n \notin T
      BY <1>1
    <3> QED BY <3>1
  <2>2. ASSUME NEW k \in 0 .. n - 1, k \in S PROVE k + 1 \in S
    <3>1. ASSUME n - (k + 1) \in T PROVE FALSE
      BY <1>1, <2>2, <3>1
    <3> QED BY <2>2, <3>1
  <2> HIDE DEF S
  <2>3. \A k \in 0 .. n : k \in S
    BY <2>1, <2>2, UpTo
  <2>4. n \in S
    BY <2>3
  <2>5. PICK j \in T : TRUE
    OBVIOUS
  <2> QED BY <2>4, <2>5 DEF S
<1>2. \E m \in T : \A k \in T : m >= k
  BY <1>1
<1>3. Max(T) \in T /\ \A k \in T : Max(T) >= k
  BY <1>2 DEF Max
<1> QED BY <1>3

LEMMA LeastIs ==
    ASSUME NEW T \in SUBSET Int, NEW m \in T, \A k \in T : m <= k
    PROVE  Min(T) = m
<1>1. Min(T) \in T /\ \A k \in T : Min(T) <= k
  BY DEF Min
<1>2. PICK x : x = Min(T)
  OBVIOUS
<1>3. x \in Int /\ m \in Int /\ x <= m /\ m <= x
  BY <1>1, <1>2
<1> QED BY <1>2, <1>3

LEMMA GreatestIs ==
    ASSUME NEW T \in SUBSET Int, NEW m \in T, \A k \in T : k <= m
    PROVE  Max(T) = m
<1>1. Max(T) \in T /\ \A k \in T : Max(T) >= k
  BY DEF Max
<1>2. PICK x : x = Max(T)
  OBVIOUS
<1>3. x \in Int /\ m \in Int /\ x >= m /\ x <= m
  BY <1>1, <1>2
<1> QED BY <1>2, <1>3

\* A line break is one line more.
LEMMA LineSteps ==
    ASSUME NEW text \in Texts
    PROVE  /\ Len(text) \in Nat /\ lineAt(text, 0) = 0
           /\ \A k \in 0 .. Len(text) : lineAt(text, k) \in Nat
           /\ \A k \in 1 .. Len(text) :
                lineAt(text, k) = lineAt(text, k - 1) + IF text[k] \in breaks THEN 1 ELSE 0
           /\ \A j, k \in 0 .. Len(text) : j <= k => lineAt(text, j) <= lineAt(text, k)
<1>1. newlines \in Widths /\ \A c \in Characters : newlines[c] = IF c \in breaks THEN 1 ELSE 0
  BY WidthsAre
<1>2. PICK f : f = taken(text, newlines)
  OBVIOUS
<1>3. /\ Len(text) \in Nat /\ f[0] = 0 /\ \A k \in 0 .. Len(text) : f[k] \in Nat
      /\ \A k \in 1 .. Len(text) : text[k] \in Characters /\ f[k] = f[k - 1] + newlines[text[k]]
  BY <1>1, <1>2, TakenIs
<1>4. \A j, k \in 0 .. Len(text) : j <= k => f[j] <= f[k]
  BY <1>1, <1>2, TakenGrows
<1> QED BY <1>1, <1>2, <1>3, <1>4 DEF lineAt

\* The number of a line is the number of line breaks before it.
LEMMA LinesCounted ==
    ASSUME NEW text \in Texts, NEW k \in 0 .. Len(text)
    PROVE  Cardinality({i \in 1 .. k : text[i] \in breaks}) = lineAt(text, k)
<1> DEFINE passed(m) == {i \in 1 .. m : text[i] \in breaks}
           S == {m \in 0 .. Len(text) : /\ IsFiniteSet(passed(m))
                                        /\ Cardinality(passed(m)) = lineAt(text, m)}
<1>1. 0 \in S
  <2>1. passed(0) = {}
    OBVIOUS
  <2>2. Len(text) \in Nat /\ lineAt(text, 0) = 0
    BY LineSteps
  <2> HIDE DEF passed
  <2> QED BY <2>1, <2>2, FS_EmptySet
<1>2. ASSUME NEW m \in 0 .. Len(text) - 1, m \in S PROVE m + 1 \in S
  <2>1. /\ m + 1 \in 1 .. Len(text) /\ m + 1 \in 0 .. Len(text) /\ m + 1 - 1 = m /\ m \in Nat
        /\ lineAt(text, m) \in Nat
        /\ lineAt(text, m + 1) = lineAt(text, m) + IF text[m + 1] \in breaks THEN 1 ELSE 0
    <3>1. Len(text) \in Nat
      BY LineSteps
    <3>2. m + 1 \in 1 .. Len(text) /\ m + 1 \in 0 .. Len(text) /\ m + 1 - 1 = m /\ m \in Nat
          /\ m \in 0 .. Len(text)
      BY <3>1
    <3>3. PICK n \in 1 .. Len(text) : n = m + 1 /\ n - 1 = m
      BY <3>2
    <3>4. lineAt(text, n) = lineAt(text, n - 1) + IF text[n] \in breaks THEN 1 ELSE 0
      BY LineSteps
    <3>5. lineAt(text, m) \in Nat
      BY <3>2, LineSteps
    <3> QED BY <3>2, <3>3, <3>4, <3>5
  <2>2. CASE text[m + 1] \in breaks
    <3>1. passed(m + 1) = passed(m) \cup {m + 1} /\ m + 1 \notin passed(m)
      BY <2>1, <2>2
    <3> HIDE DEF passed
    <3>2. IsFiniteSet(passed(m + 1)) /\ Cardinality(passed(m + 1)) = Cardinality(passed(m)) + 1
      BY <1>2, <3>1, FS_AddElement
    <3> QED BY <1>2, <2>1, <2>2, <3>2
  <2>3. CASE text[m + 1] \notin breaks
    <3>1. passed(m + 1) = passed(m)
      BY <2>1, <2>3
    <3> HIDE DEF passed
    <3> QED BY <1>2, <2>1, <2>3, <3>1
  <2> QED BY <2>2, <2>3
<1> HIDE DEF S
<1>3. \A m \in 0 .. Len(text) : m \in S
  BY <1>1, <1>2, LineSteps, UpTo
<1> QED BY <1>3 DEF S

\* The beginning of a line: the places from there on are on it, those before it
\* are on an earlier one.
LEMMA BeginIs ==
    ASSUME NEW text \in Texts, NEW k \in 0 .. Len(text)
    PROVE  /\ beginOf(text, k) \in 0 .. k
           /\ \A m \in beginOf(text, k) .. k : lineAt(text, m) = lineAt(text, k)
           /\ \A m \in 0 .. beginOf(text, k) - 1 : lineAt(text, m) < lineAt(text, k)
<1> DEFINE T == {0} \cup {i \in 1 .. k : text[i] \in breaks}
           S == {m \in 0 .. k : m >= Max(T) => lineAt(text, m) = lineAt(text, Max(T))}
<1>1. Len(text) \in Nat /\ k \in Nat
  BY LineSteps
<1>2. T \in SUBSET (0 .. k) /\ T # {}
  BY <1>1
<1>3. Max(T) \in T /\ \A m \in T : m <= Max(T)
  <2> HIDE DEF T
  <2> QED BY <1>1, <1>2, MaxFacts
<1>4. PICK b : b = Max(T)
  OBVIOUS
<1>5. b \in 0 .. k /\ (b # 0 => text[b] \in breaks) /\ \A i \in 1 .. k : text[i] \in breaks => i <= b
  BY <1>3, <1>4
<1> HIDE DEF T
<1>6. \A m \in 0 .. k : m \in S
  <2>1. 0 \in S
    BY <1>1, <1>4, <1>5
  <2>2. ASSUME NEW m \in 0 .. k - 1, m \in S PROVE m + 1 \in S
    <3>1. PICK n \in 1 .. k : n = m + 1 /\ n - 1 = m
      BY <1>1
    <3>2. n \in 1 .. Len(text) /\ m \in 0 .. Len(text)
      BY <1>1, <3>1
    <3>3. lineAt(text, n) = lineAt(text, n - 1) + (IF text[n] \in breaks THEN 1 ELSE 0)
          /\ lineAt(text, m) \in Nat
      BY <3>2, LineSteps
    <3>4. CASE n <= b
      BY <1>1, <1>4, <1>5, <3>1, <3>4
    <3>5. CASE ~(n <= b)
      <4>1. text[n] \notin breaks /\ m >= b
        BY <1>5, <3>1, <3>5
      <4> QED BY <1>1, <1>4, <2>2, <3>1, <3>3, <4>1
    <3> QED BY <3>4, <3>5
  <2> HIDE DEF S
  <2> QED BY <1>1, <2>1, <2>2, UpTo
<1>7. \A m \in b .. k : lineAt(text, m) = lineAt(text, b)
  BY <1>1, <1>4, <1>5, <1>6
<1>8. lineAt(text, k) = lineAt(text, b)
  BY <1>1, <1>5, <1>7
<1>9. ASSUME NEW m \in 0 .. b - 1 PROVE lineAt(text, m) < lineAt(text, b)
  <2>1. b \in 1 .. Len(text) /\ text[b] \in breaks /\ m \in 0 .. Len(text) /\ b - 1 \in 0 .. Len(text)
        /\ m <= b - 1
    BY <1>1, <1>5
  <2>2. lineAt(text, b) = lineAt(text, b - 1) + 1
    BY <2>1, LineSteps
  <2>3. lineAt(text, m) <= lineAt(text, b - 1)
    BY <2>1, LineSteps
  <2>4. lineAt(text, b - 1) \in Nat /\ lineAt(text, m) \in Nat
    BY <2>1, LineSteps
  <2> QED BY <2>2, <2>3, <2>4
<1> QED BY <1>4, <1>5, <1>7, <1>8, <1>9 DEF beginOf, T

\* Places of one line have one beginning.
LEMMA BeginSame ==
    ASSUME NEW text \in Texts, NEW j \in 0 .. Len(text), NEW k \in 0 .. Len(text),
           lineAt(text, j) = lineAt(text, k)
    PROVE  beginOf(text, j) = beginOf(text, k)
<1> DEFINE a == beginOf(text, j)
           b == beginOf(text, k)
<1>1. /\ a \in 0 .. j /\ lineAt(text, a) = lineAt(text, k)
      /\ \A m \in 0 .. a - 1 : lineAt(text, m) < lineAt(text, k)
  BY BeginIs
<1>2. /\ b \in 0 .. k /\ lineAt(text, b) = lineAt(text, k)
      /\ \A m \in 0 .. b - 1 : lineAt(text, m) < lineAt(text, k)
  BY BeginIs
<1>3. lineAt(text, k) \in Nat
  BY LineSteps
<1> HIDE DEF a, b
<1>4. ~(a < b)
  BY <1>1, <1>2, <1>3
<1>5. ~(b < a)
  BY <1>1, <1>2, <1>3
<1>6. a = b
  BY <1>1, <1>2, <1>4, <1>5
<1> QED BY <1>6 DEF a, b

LEMMA PlaceIs ==
    ASSUME NEW text \in Texts, NEW width \in Widths, NEW k \in 0 .. Len(text)
    PROVE  placeOf(text, k, width)
             = Pos(lineAt(text, k),
                   taken(text, width)[k] - taken(text, width)[beginOf(text, k)],
                   taken(text, width)[k])
<1> DEFINE b == beginOf(text, k)
<1>1. Len(text) \in Nat /\ k \in Nat
  BY LineSteps
<1>2. b \in 0 .. Len(text) /\ k \in b .. Len(text) /\ k - b \in 0 .. k - b /\ b + (k - b) = k
  BY <1>1, BeginIs
<1> HIDE DEF b
<1>3. total(SubSeq(text, b + 1, k), width) = taken(text, width)[k] - taken(text, width)[b]
  BY <1>2, PartIs DEF total
<1>4. total(SubSeq(text, 1, k), width) = taken(text, width)[k]
  <2>1. 0 \in 0 .. Len(text) /\ k \in 0 .. Len(text) /\ 0 + 1 = 1 /\ k - 0 = k /\ 0 + k = k /\ k \in 0 .. k - 0
    BY <1>1
  <2>2. total(SubSeq(text, 0 + 1, k), width) = taken(text, width)[0 + k] - taken(text, width)[0]
    <3>1. PICK z : z = 0
      OBVIOUS
    <3>2. z \in 0 .. Len(text) /\ k \in z .. Len(text) /\ k - z = k /\ k \in 0 .. k - z
      BY <1>1, <2>1, <3>1
    <3>3. total(SubSeq(text, z + 1, k), width) = taken(text, width)[z + k] - taken(text, width)[z]
      BY <3>2, PartIs DEF total
    <3> QED BY <3>1, <3>3
  <2>3. taken(text, width)[0] = 0 /\ taken(text, width)[k] \in Nat
    BY TakenIs
  <2> QED BY <2>1, <2>2, <2>3
<1> QED BY <1>3, <1>4, LinesCounted DEF placeOf, beginOf, b

\* What a line consists of, when e is the place before its line break.
LineUpTo(text, k, e) ==
    LET line == lineOf(text, lineAt(text, k))
        b    == beginOf(text, k)
    IN /\ e \in k .. Len(text) /\ b \in 0 .. k
       /\ \A m \in 0 .. Len(text) : lineAt(text, m) = lineAt(text, k) <=> m \in b .. e
       /\ line \in Texts /\ e - b <= Len(line)
       /\ \/ Len(line) = e - b
          \/ e < Len(text) /\ text[e + 1] = "crlf"
       /\ \A width \in Widths : \A m \in 0 .. e - b :
            taken(line, width)[m] = taken(text, width)[b + m] - taken(text, width)[b]

LEMMA LineIs ==
    ASSUME NEW text \in Texts, NEW k \in 0 .. Len(text)
    PROVE  \E e : LineUpTo(text, k, e)
<1> DEFINE ends   == {m \in 0 .. Len(text) : lineAt(text, m) = lineAt(text, k)}
           e      == Max(ends)
           b      == beginOf(text, k)
           part   == SubSeq(text, b + 1, e)
           return == IF e < Len(text) /\ text[e + 1] = "crlf" THEN <<"ascii">> ELSE <<>>
           line   == lineOf(text, lineAt(text, k))
<1>1. Len(text) \in Nat /\ k \in ends /\ ends \in SUBSET (0 .. Len(text))
  BY LineSteps
<1>2. e \in ends /\ \A m \in ends : m <= e
  <2>1. ends # {}
    BY <1>1
  <2> HIDE DEF ends
  <2> QED BY <1>1, <2>1, MaxFacts
<1>3. /\ b \in 0 .. k /\ lineAt(text, b) = lineAt(text, k)
      /\ \A m \in 0 .. b - 1 : lineAt(text, m) < lineAt(text, k)
  BY BeginIs
<1>4. e \in k .. Len(text) /\ e \in 0 .. Len(text) /\ lineAt(text, e) = lineAt(text, k)
  BY <1>1, <1>2
<1>5. line = SubSeq(text, Min(ends) + 1, e) \o return
  <2>1. ends # {}
    BY <1>1
  <2> QED BY <2>1 DEF lineOf, lineAt
<1> HIDE DEF e, b, line
<1>6. \A m \in ends : m >= b
  BY <1>1, <1>3, LineSteps
<1>7. Min(ends) = b
  <2>1. b \in ends /\ ends \in SUBSET Int
    BY <1>1, <1>3
  <2> HIDE DEF ends
  <2> QED BY <1>6, <2>1, LeastIs
<1>8. ASSUME NEW m \in 0 .. Len(text) PROVE m \in ends <=> m \in b .. e
  <2>1. ASSUME m \in b .. e PROVE lineAt(text, m) = lineAt(text, k)
    <3>1. b \in 0 .. Len(text) /\ b <= m /\ m <= e
      BY <1>1, <1>3, <2>1
    <3>2. lineAt(text, b) <= lineAt(text, m) /\ lineAt(text, m) <= lineAt(text, e)
      BY <1>4, <3>1, LineSteps
    <3>3. lineAt(text, m) \in Nat /\ lineAt(text, k) \in Nat
      BY LineSteps
    <3> QED BY <1>3, <1>4, <3>2, <3>3
  <2>2. ASSUME m \in ends PROVE m \in b .. e
    BY <1>2, <1>6, <2>2
  <2> QED BY <2>1, <2>2
<1>9. /\ b \in 0 .. Len(text) /\ e \in b .. Len(text) /\ e - b \in Nat
      /\ b + (e - b) <= Len(text)
  BY <1>1, <1>3, <1>4
<1>10. part \in Texts /\ Len(part) = e - b /\ \A m \in 1 .. e - b : part[m] = text[b + m]
  BY <1>9, PartIs
<1>11. line = part \o return
  BY <1>5, <1>7
<1>12. return \in Texts /\ Len(return) \in Nat /\ (Len(return) = 0 \/ (e < Len(text) /\ text[e + 1] = "crlf"))
  <2>1. "ascii" \in Characters
    BY DEF Characters
  <2>2. <<"ascii">> \in Texts /\ <<>> \in Texts /\ Len(<<"ascii">>) = 1 /\ Len(<<>>) = 0
    BY <2>1 DEF Texts
  <2>3. CASE e < Len(text) /\ text[e + 1] = "crlf"
    BY <2>2, <2>3
  <2>4. CASE ~(e < Len(text) /\ text[e + 1] = "crlf")
    <3>1. return = <<>>
      BY <2>4
    <3> HIDE DEF return
    <3>2. return \in Texts /\ Len(return) = 0
      BY <2>2, <3>1
    <3> QED BY <3>2
  <2> QED BY <2>3, <2>4
<1> HIDE DEF part, return, ends
<1>13. /\ line \in Texts /\ Len(line) = (e - b) + Len(return)
       /\ \A m \in 1 .. e - b : line[m] = text[b + m]
  <2>1. part \in Seq(Characters) /\ return \in Seq(Characters)
    BY <1>10, <1>12 DEF Texts
  <2>2. part \o return \in Seq(Characters) /\ Len(part \o return) = Len(part) + Len(return)
    BY <2>1, ConcatProperties, Zenon
  <2>3. \A m \in 1 .. Len(part) + Len(return) :
          (part \o return)[m] = IF m <= Len(part) THEN part[m] ELSE return[m - Len(part)]
    BY <2>1, ConcatProperties, Zenon
  <2>4. \A m \in 1 .. e - b : m \in 1 .. Len(part) + Len(return) /\ m <= Len(part)
    BY <1>9, <1>10, <1>12
  <2>5. \A m \in 1 .. e - b : line[m] = part[m]
    BY <1>11, <2>3, <2>4
  <2> QED BY <1>10, <1>11, <2>2, <2>5 DEF Texts
<1>14. ASSUME NEW width \in Widths
       PROVE  \A m \in 0 .. e - b :
                taken(line, width)[m] = taken(text, width)[b + m] - taken(text, width)[b]
  <2>1. \A m \in 1 .. e - b : width[line[m]] = width[text[b + m]]
    BY <1>13
  <2>2. e - b <= Len(line) /\ b \in Nat
    BY <1>9, <1>12, <1>13
  <2>3. PICK n \in Nat : n = e - b
    BY <1>9
  <2>4. line \in Texts /\ b + n <= Len(text) /\ n <= Len(line)
    BY <1>9, <1>13, <2>2, <2>3
  <2>5. Alike(line, text, b, n, width)
    BY <2>1, <2>3, <2>4 DEF Alike
  <2>6. TakesAlike(line, text, b, n, width)
    BY <2>2, <2>4, <2>5, TakenAlike
  <2> QED BY <2>3, <2>6 DEF TakesAlike
<1>15. e - b <= Len(line) /\ (Len(line) = e - b \/ (e < Len(text) /\ text[e + 1] = "crlf"))
  <2>1. e - b <= Len(line)
    BY <1>9, <1>12, <1>13
  <2>2. CASE Len(return) = 0
    BY <1>9, <1>13, <2>1, <2>2
  <2>3. CASE e < Len(text) /\ text[e + 1] = "crlf"
    BY <2>1, <2>3
  <2> QED BY <1>12, <2>2, <2>3
<1>16. \A m \in 0 .. Len(text) : lineAt(text, m) = lineAt(text, k) <=> m \in b .. e
  BY <1>8 DEF ends
<1> QED BY <1>3, <1>4, <1>13, <1>14, <1>15, <1>16 DEF LineUpTo, b, line

\* Every line up to the last has places.
LEMMA LineHasPlace ==
    ASSUME NEW text \in Texts, NEW n \in 0 .. lineAt(text, Len(text))
    PROVE  \E k \in 0 .. Len(text) : lineAt(text, k) = n
<1> DEFINE S == {k \in 0 .. Len(text) : n <= lineAt(text, k) =>
                                          \E j \in 0 .. Len(text) : lineAt(text, j) = n}
<1>1. Len(text) \in Nat /\ lineAt(text, 0) = 0 /\ lineAt(text, Len(text)) \in Nat
  BY LineSteps
<1>2. 0 \in S
  <2>1. n <= 0 => n = 0
    BY <1>1
  <2> QED BY <1>1, <2>1
<1>3. ASSUME NEW k \in 0 .. Len(text) - 1, k \in S PROVE k + 1 \in S
  <2>1. PICK m \in 1 .. Len(text) : m = k + 1 /\ m - 1 = k
    BY <1>1
  <2>2. lineAt(text, m) \in Nat /\ lineAt(text, k) \in Nat /\ m \in 0 .. Len(text)
        /\ lineAt(text, m) \in lineAt(text, k) .. lineAt(text, k) + 1
    BY <1>1, <2>1, LineSteps
  <2>3. CASE n <= lineAt(text, k)
    BY <1>3, <2>1, <2>2, <2>3
  <2>4. CASE n > lineAt(text, k)
    <3>1. n <= lineAt(text, m) => lineAt(text, m) = n
      BY <1>1, <2>2, <2>4
    <3> QED BY <2>1, <2>2, <3>1
  <2> QED BY <1>1, <2>2, <2>3, <2>4
<1> HIDE DEF S
<1>4. \A k \in 0 .. Len(text) : k \in S
  BY <1>1, <1>2, <1>3, UpTo
<1>5. Len(text) \in S
  BY <1>1, <1>4
<1> QED BY <1>1, <1>5 DEF S

------------------------------------------------------------------------------
(* Columns *)

LEMMA BeforeIs ==
    ASSUME NEW line \in Texts, NEW width \in Widths, NEW column \in Nat
    PROVE  /\ before(line, column, width) \in 0 .. Len(line)
           /\ taken(line, width)[before(line, column, width)] <= column
           /\ \A k \in 0 .. Len(line) :
                taken(line, width)[k] <= column => k <= before(line, column, width)
<1> DEFINE T == {k \in 0 .. Len(line) : taken(line, width)[k] <= column}
<1>1. Len(line) \in Nat /\ taken(line, width)[0] = 0
  BY TakenIs
<1>2. T \in SUBSET (0 .. Len(line)) /\ 0 \in T
  BY <1>1
<1>3. Max(T) \in T /\ \A k \in T : k <= Max(T)
  <2>1. T # {}
    BY <1>2
  <2> HIDE DEF T
  <2> QED BY <1>1, <1>2, <2>1, MaxFacts
<1>4. before(line, column, width) = Max(T)
  BY DEF before
<1>5. PICK x : x = Max(T)
  OBVIOUS
<1>6. x \in T /\ \A k \in T : k <= x
  BY <1>3, <1>5
<1> QED BY <1>4, <1>5, <1>6

\* The column of a place is that place's.
LEMMA BeforeExact ==
    ASSUME NEW line \in Texts, NEW width \in Widths, Wide(width), NEW m \in 0 .. Len(line)
    PROVE  before(line, taken(line, width)[m], width) = m
<1> DEFINE b == before(line, taken(line, width)[m], width)
<1>1. taken(line, width)[m] \in Nat /\ Len(line) \in Nat
  BY TakenIs
<1>2. b \in 0 .. Len(line) /\ taken(line, width)[b] <= taken(line, width)[m] /\ m <= b
  <2>1. PICK c \in Nat : c = taken(line, width)[m]
    BY <1>1
  <2>2. /\ before(line, c, width) \in 0 .. Len(line)
        /\ taken(line, width)[before(line, c, width)] <= c
        /\ \A k \in 0 .. Len(line) : taken(line, width)[k] <= c => k <= before(line, c, width)
    BY BeforeIs
  <2>3. taken(line, width)[m] <= c
    BY <2>1
  <2> QED BY <2>1, <2>2, <2>3
<1>3. taken(line, width)[b] \in Nat
  BY <1>2, TakenIs
<1>4. m < b => taken(line, width)[m] < taken(line, width)[b]
  BY <1>2, TakenGrows
<1> HIDE DEF b
<1>5. b = m
  BY <1>1, <1>2, <1>3, <1>4
<1> QED BY <1>5 DEF b

LEMMA Converted ==
    ASSUME NEW line \in Texts, NEW m \in 0 .. Len(line)
    PROVE  /\ byteToUTF16(line, taken(line, bytes)[m]) = taken(line, units)[m]
           /\ utf16ToByte(line, taken(line, units)[m]) = taken(line, bytes)[m]
<1>1. bytes \in Widths /\ units \in Widths /\ Wide(bytes) /\ Wide(units)
  BY WidthsAre
<1>2. Len(line) \in Nat /\ Len(line) \in 0 .. Len(line) /\ m <= Len(line)
  BY TakenIs, <1>1
<1>3. PICK c : c = taken(line, bytes)[m]
  OBVIOUS
<1>4. c \in Nat /\ total(line, bytes) \in Nat /\ c <= total(line, bytes)
      /\ taken(line, units)[m] \in Nat
  BY <1>1, <1>2, <1>3, TakenIs, TakenGrows DEF total
<1>5. Min({c, total(line, bytes)}) = c
  <2>1. {c, total(line, bytes)} \in SUBSET Int
    BY <1>4
  <2>2. \A k \in {c, total(line, bytes)} : c <= k
    BY <1>4
  <2>3. c \in {c, total(line, bytes)}
    OBVIOUS
  <2> QED BY <2>1, <2>2, <2>3, LeastIs
<1>6. before(line, c, bytes) = m
  BY <1>1, <1>3, BeforeExact
<1>7. byteToUTF16(line, c) = taken(line, units)[m]
  <2>1. byteToUTF16(line, c) = taken(line, units)[m] + (c - taken(line, bytes)[m])
    BY <1>5, <1>6 DEF byteToUTF16
  <2> QED BY <1>3, <1>4, <2>1
<1>8. utf16ToByte(line, taken(line, units)[m]) = taken(line, bytes)[m]
  BY <1>1, BeforeExact DEF utf16ToByte
<1> QED BY <1>3, <1>7, <1>8

------------------------------------------------------------------------------
(* The columns of the editor are those of the parsers *)

\* A place of a text in a width: what it takes on its line.
columnOf(text, width, k) == taken(text, width)[k] - taken(text, width)[beginOf(text, k)]

LEMMA ColumnOnLine ==
    ASSUME NEW text \in Texts, NEW k \in 0 .. Len(text), NEW e, LineUpTo(text, k, e),
           NEW j \in beginOf(text, k) .. e
    PROVE  /\ j \in 0 .. Len(text) /\ lineAt(text, j) = lineAt(text, k)
           /\ j - beginOf(text, k) \in 0 .. e - beginOf(text, k)
           /\ j - beginOf(text, k) \in 0 .. Len(lineOf(text, lineAt(text, k)))
           /\ \A width \in Widths :
                columnOf(text, width, j)
                  = taken(lineOf(text, lineAt(text, k)), width)[j - beginOf(text, k)]
<1> DEFINE b == beginOf(text, k)
           line == lineOf(text, lineAt(text, k))
<1>1. /\ e \in k .. Len(text) /\ b \in 0 .. k /\ line \in Texts /\ e - b <= Len(line)
      /\ \A m \in 0 .. Len(text) : lineAt(text, m) = lineAt(text, k) <=> m \in b .. e
      /\ \A width \in Widths : \A m \in 0 .. e - b :
           taken(line, width)[m] = taken(text, width)[b + m] - taken(text, width)[b]
  BY DEF LineUpTo
<1>2. Len(text) \in Nat /\ Len(line) \in Nat
  BY <1>1 DEF Texts
<1> HIDE DEF b, line
<1>3. j \in b .. e
  BY DEF b
<1>4. j \in 0 .. Len(text) /\ j - b \in 0 .. e - b /\ j - b \in 0 .. Len(line) /\ b + (j - b) = j
  BY <1>1, <1>2, <1>3
<1>5. lineAt(text, j) = lineAt(text, k)
  BY <1>1, <1>3, <1>4
<1>6. beginOf(text, j) = b
  BY <1>4, <1>5, BeginSame DEF b
<1>7. ASSUME NEW width \in Widths PROVE columnOf(text, width, j) = taken(line, width)[j - b]
  <2>1. taken(line, width)[j - b] = taken(text, width)[b + (j - b)] - taken(text, width)[b]
    BY <1>1, <1>4
  <2> QED BY <1>4, <1>6, <2>1 DEF columnOf
<1> QED BY <1>4, <1>5, <1>7 DEF b, line

LEMMA SameColumns ==
    ASSUME chars \in Texts, NEW utf16 \in BOOLEAN, NEW k \in Ends
    PROVE  sameColumns(utf16, k)
<1>1. bytes \in Widths /\ units \in Widths
  BY WidthsAre
<1>2. k \in 0 .. Len(chars) /\ Len(chars) \in Nat
  BY DEF Ends, Texts
<1>3. PICK e : LineUpTo(chars, k, e)
  BY <1>2, LineIs
<1> DEFINE r == lineAt(chars, k)
           line == lineOf(chars, r)
           m == k - beginOf(chars, k)
<1>4. /\ inBytes(k) = Pos(r, columnOf(chars, bytes, k), taken(chars, bytes)[k])
      /\ inUnits(k) = Pos(r, columnOf(chars, units, k), taken(chars, units)[k])
  BY <1>1, <1>2, PlaceIs DEF inBytes, inUnits, columnOf
<1>5. k \in beginOf(chars, k) .. e
  BY <1>3, <1>2 DEF LineUpTo
<1>6. /\ m \in 0 .. Len(line)
      /\ columnOf(chars, bytes, k) = taken(line, bytes)[m]
      /\ columnOf(chars, units, k) = taken(line, units)[m]
  BY <1>1, <1>2, <1>3, <1>5, ColumnOnLine
<1>7. line \in Texts
  BY <1>3 DEF LineUpTo
<1> HIDE DEF r, line, m
<1>8. /\ byteToUTF16(line, columnOf(chars, bytes, k)) = columnOf(chars, units, k)
      /\ utf16ToByte(line, columnOf(chars, units, k)) = columnOf(chars, bytes, k)
  BY <1>6, <1>7, Converted
<1>9. line = lineOf(chars, r)
  BY DEF line
<1>10. chars = <<>> => columnOf(chars, units, k) = columnOf(chars, bytes, k)
  <2> SUFFICES ASSUME chars = <<>> PROVE columnOf(chars, units, k) = columnOf(chars, bytes, k)
    OBVIOUS
  <2>1. k = 0 /\ beginOf(chars, k) \in 0 .. k
    BY <1>2, BeginIs
  <2>2. beginOf(chars, k) = 0
    BY <2>1
  <2>3. taken(chars, units)[0] = 0 /\ taken(chars, bytes)[0] = 0
    BY <1>1, TakenIs
  <2> QED BY <2>1, <2>2, <2>3 DEF columnOf
<1>11. CASE utf16
  BY <1>4, <1>8, <1>9, <1>10, <1>11 DEF sameColumns, toProtocolPos, fromProtocolPos, Pos
<1>12. CASE ~utf16
  BY <1>4, <1>12 DEF sameColumns, toProtocolPos, fromProtocolPos, Pos
<1> QED BY <1>11, <1>12

\* A text without CR LF has lines of nothing but its characters.
LEMMA CursorFound ==
    ASSUME chars \in Texts, chars # <<>>, "crlf" \notin ToSet(chars),
           NEW line \in 0 .. inUnits(Len(chars)).line, NEW character \in Nat
    PROVE  fromProtocolPos(chars, TRUE, [line |-> line, character |-> character]).column
             = cursorOn(line, character)
<1>1. bytes \in Widths /\ units \in Widths
  BY WidthsAre
<1>2. Len(chars) \in Nat /\ Len(chars) \in 0 .. Len(chars)
  BY DEF Texts
<1>3. \A j \in 0 .. Len(chars) :
        /\ inBytes(j) = Pos(lineAt(chars, j), columnOf(chars, bytes, j), taken(chars, bytes)[j])
        /\ inUnits(j) = Pos(lineAt(chars, j), columnOf(chars, units, j), taken(chars, units)[j])
  BY <1>1, PlaceIs DEF inBytes, inUnits, columnOf
<1>4. \A j \in 0 .. Len(chars) :
        /\ inBytes(j).column = columnOf(chars, bytes, j)
        /\ inUnits(j).column = columnOf(chars, units, j) /\ inUnits(j).line = lineAt(chars, j)
  BY <1>3 DEF Pos
<1>5. line \in 0 .. lineAt(chars, Len(chars))
  BY <1>2, <1>4
<1>6. PICK k \in 0 .. Len(chars) : lineAt(chars, k) = line
  BY <1>5, LineHasPlace
<1>7. PICK e : LineUpTo(chars, k, e)
  BY LineIs
<1> DEFINE b == beginOf(chars, k)
           text == lineOf(chars, line)
           x == before(text, character, units)
           ends == {j \in Ends : inUnits(j).line = line /\ inUnits(j).column <= character}
<1>8. /\ e \in k .. Len(chars) /\ b \in 0 .. k /\ text \in Texts
      /\ \A m \in 0 .. Len(chars) : lineAt(chars, m) = line <=> m \in b .. e
      /\ \/ Len(text) = e - b
         \/ e < Len(chars) /\ chars[e + 1] = "crlf"
  BY <1>6, <1>7 DEF LineUpTo
<1>9. Len(text) = e - b
  <2>1. ASSUME e < Len(chars) PROVE chars[e + 1] # "crlf"
    <3>1. e + 1 \in DOMAIN chars
      BY <1>2, <1>8, <2>1 DEF Texts
    <3> QED BY <3>1 DEF ToSet
  <2> QED BY <1>8, <2>1
<1>10. \A j \in b .. e : /\ j \in 0 .. Len(chars) /\ lineAt(chars, j) = line
                         /\ columnOf(chars, bytes, j) = taken(text, bytes)[j - b]
                         /\ columnOf(chars, units, j) = taken(text, units)[j - b]
  BY <1>1, <1>6, <1>7, ColumnOnLine
<1>11. /\ x \in 0 .. Len(text) /\ taken(text, units)[x] <= character
       /\ \A m \in 0 .. Len(text) : taken(text, units)[m] <= character => m <= x
  BY <1>1, <1>8, BeforeIs
<1> HIDE DEF b, text, x
<1>12. b \in Nat /\ x \in Nat /\ e \in Nat /\ b + x \in b .. e
  BY <1>2, <1>8, <1>9, <1>11
<1>length. /\ b + x \in 0 .. Len(chars) /\ lineAt(chars, b + x) = line
      /\ columnOf(chars, bytes, b + x) = taken(text, bytes)[x]
      /\ columnOf(chars, units, b + x) = taken(text, units)[x]
  <2>1. PICK j : j = b + x
    OBVIOUS
  <2>a. j \in b .. e /\ j - b = x
    BY <1>12, <2>1
  <2>2. /\ j \in 0 .. Len(chars) /\ lineAt(chars, j) = line
        /\ columnOf(chars, bytes, j) = taken(text, bytes)[j - b]
        /\ columnOf(chars, units, j) = taken(text, units)[j - b]
    BY <1>10, <2>a
  <2> QED BY <2>1, <2>2, <2>a
<1>13. b + x \in ends
  <2>1. columnOf(chars, units, b + x) <= character /\ b + x \in 0 .. Len(chars)
        /\ lineAt(chars, b + x) = line
    BY <1>11, <1>length
  <2> QED BY <1>4, <2>1 DEF Ends
<1>14. ASSUME NEW j \in ends PROVE j <= b + x
  <2>1. j \in 0 .. Len(chars) /\ lineAt(chars, j) = line /\ columnOf(chars, units, j) <= character
    BY <1>4 DEF Ends
  <2>2. j \in b .. e
    BY <1>8, <2>1
  <2>3. j - b \in 0 .. Len(text) /\ taken(text, units)[j - b] <= character
    BY <1>2, <1>8, <1>9, <1>10, <2>1, <2>2
  <2>4. j - b <= x
    BY <1>11, <2>3
  <2> QED BY <1>2, <1>8, <1>11, <2>1, <2>4
<1>15. Max(ends) = b + x
  <2>1. ends \in SUBSET Int
    BY <1>2 DEF Ends
  <2> HIDE DEF ends
  <2> QED BY <1>13, <1>14, <2>1, GreatestIs
<1>16. cursorOn(line, character) = taken(text, bytes)[x]
  <2>1. cursorOn(line, character) = inBytes(Max(ends)).column
    BY DEF cursorOn
  <2>2. inBytes(b + x).column = columnOf(chars, bytes, b + x)
    BY <1>4, <1>length
  <2> QED BY <1>15, <1>length, <2>1, <2>2
<1>17. fromProtocolPos(chars, TRUE, [line |-> line, character |-> character]).column
         = taken(text, bytes)[x]
  BY DEF fromProtocolPos, utf16ToByte, x, text
<1> QED BY <1>16, <1>17

LEMMA EndFound ==
    ASSUME chars \in Texts
    PROVE  LET end == inBytes(Len(chars))
           IN endOfDocument(chars) = [line |-> end.line, column |-> end.column]
<1>1. bytes \in Widths
  BY WidthsAre
<1>2. Len(chars) \in Nat /\ Len(chars) \in 0 .. Len(chars)
  BY DEF Texts
<1>3. PICK k \in 0 .. Len(chars) : k = Len(chars)
  BY <1>2
<1>4. PICK e : LineUpTo(chars, k, e)
  BY LineIs
<1> DEFINE b == beginOf(chars, k)
           line == lineOf(chars, lineAt(chars, k))
<1>5. e = k /\ b \in 0 .. k /\ line \in Texts /\ Len(line) = e - b
  BY <1>2, <1>3, <1>4 DEF LineUpTo
<1>6. columnOf(chars, bytes, k) = taken(line, bytes)[k - b]
  <2>1. k \in b .. e
    BY <1>2, <1>5
  <2> QED BY <1>1, <1>4, <2>1, ColumnOnLine
<1>7. inBytes(k) = Pos(lineAt(chars, k), columnOf(chars, bytes, k), taken(chars, bytes)[k])
  BY <1>1, PlaceIs DEF inBytes, columnOf
<1>8. total(line, bytes) = columnOf(chars, bytes, k)
  BY <1>5, <1>6 DEF total
<1> QED BY <1>3, <1>7, <1>8 DEF endOfDocument, total, lineAt, Pos

LEMMA TextTyped == TextSpec => [](chars \in Texts)
<1>1. TextInit => chars \in Texts
  BY DEF TextInit, Texts
<1>2. chars \in Texts /\ [TextNext]_chars => (chars \in Texts)'
  <2> SUFFICES ASSUME chars \in Texts, [TextNext]_chars PROVE chars' \in Texts
    OBVIOUS
  <2>1. CASE TextNext
    BY <2>1 DEF TextNext, TypeChar, Texts
  <2>2. CASE UNCHANGED chars
    BY <2>2
  <2> QED BY <2>1, <2>2
<1> QED BY <1>1, <1>2, PTL DEF TextSpec

\* In every text each place between characters has one column in bytes and one in
\* UTF-16 units, each found from the other, a cursor anywhere else means the place
\* before it, and the end of the document is found (toProtocolPos, fromProtocolPos
\* and endOfDocument, server.go:1778-1788, 2064-2165).
THEOREM ColumnsExactHolds == TextSpec => []ColumnsExact
<1>1. chars \in Texts => ColumnsExact
  <2> SUFFICES ASSUME chars \in Texts PROVE ColumnsExact
    OBVIOUS
  <2>1. \A utf16 \in BOOLEAN : \A k \in Ends : sameColumns(utf16, k)
    BY SameColumns
  <2>2. ASSUME chars # <<>>, "crlf" \notin ToSet(chars), NEW line \in 0 .. inUnits(Len(chars)).line,
               NEW character \in 0 .. 2 * Len(chars) + 2
        PROVE  fromProtocolPos(chars, TRUE, [line |-> line, character |-> character]).column
                 = cursorOn(line, character)
    <3>1. character \in Nat
      OBVIOUS
    <3> QED BY <2>2, <3>1, CursorFound
  <2>3. LET end == inBytes(Len(chars))
        IN endOfDocument(chars) = [line |-> end.line, column |-> end.column]
    BY EndFound
  <2> QED BY <2>1, <2>2, <2>3 DEF ColumnsExact
<1> QED BY <1>1, TextTyped, PTL

------------------------------------------------------------------------------
(* Inline blocks *)

LEMMA BeginUnique ==
    ASSUME NEW text \in Texts, NEW k \in 0 .. Len(text), NEW b \in 0 .. k,
           lineAt(text, b) = lineAt(text, k),
           \A m \in 0 .. b - 1 : lineAt(text, m) < lineAt(text, k)
    PROVE  beginOf(text, k) = b
<1> DEFINE a == beginOf(text, k)
<1>1. a \in 0 .. k /\ lineAt(text, a) = lineAt(text, k)
      /\ \A m \in 0 .. a - 1 : lineAt(text, m) < lineAt(text, k)
  BY BeginIs
<1>2. lineAt(text, k) \in Nat
  BY LineSteps
<1> HIDE DEF a
<1>3. ~(a < b)
  BY <1>1, <1>2
<1>4. ~(b < a)
  BY <1>1, <1>2
<1>5. a = b
  BY <1>1, <1>3, <1>4
<1> QED BY <1>5 DEF a

LEMMA NormalizedIs ==
    ASSUME NEW text \in Texts
    PROVE  /\ normalized(text) \in Texts /\ Len(normalized(text)) = Len(text)
           /\ \A k \in 1 .. Len(text) :
                normalized(text)[k] = IF text[k] = "crlf" THEN "lf" ELSE text[k]
<1>1. Len(text) \in Nat /\ DOMAIN text = 1 .. Len(text)
      /\ \A k \in 1 .. Len(text) : text[k] \in Characters
  BY DEF Texts
<1>2. \A k \in 1 .. Len(text) : (IF text[k] = "crlf" THEN "lf" ELSE text[k]) \in Characters
  BY <1>1 DEF Characters
<1> QED BY <1>1, <1>2 DEF normalized, Texts

\* The place k characters into a part of a text.
LEMMA PlaceInPart ==
    ASSUME NEW text \in Texts, NEW i \in 0 .. Len(text), NEW j \in i .. Len(text), NEW k \in 0 .. j - i
    PROVE  LET part == SubSeq(text, i + 1, j)
           IN /\ shiftPos(placeOf(part, k, bytes), placeOf(text, i, bytes)) = placeOf(text, i + k, bytes)
              /\ unshiftPos(placeOf(text, i + k, bytes), placeOf(text, i, bytes)) = placeOf(part, k, bytes)
<1> DEFINE part == SubSeq(text, i + 1, j)
           of(m) == taken(text, bytes)[m]
           in(m) == taken(part, bytes)[m]
<1>0. bytes \in Widths /\ newlines \in Widths
  BY WidthsAre
<1>1. Len(text) \in Nat /\ i \in Nat /\ j \in Nat /\ k \in Nat /\ j - i \in Nat /\ i + k \in 0 .. Len(text)
  BY LineSteps
<1>2. /\ part \in Texts /\ Len(part) = j - i
      /\ \A width \in Widths : \A m \in 0 .. j - i :
           taken(part, width)[m] = taken(text, width)[i + m] - taken(text, width)[i]
  BY PartIs
<1> HIDE DEF part
<1>3. /\ \A m \in 0 .. j - i : in(m) = of(i + m) - of(i) /\ lineAt(part, m) = lineAt(text, i + m) - lineAt(text, i)
      /\ \A m \in 0 .. j - i : lineAt(part, m) \in Nat /\ in(m) \in Nat
      /\ in(0) = 0 /\ lineAt(part, 0) = 0
  BY <1>0, <1>2, TakenIs DEF lineAt
<1>4. /\ \A m \in 0 .. Len(text) : of(m) \in Nat /\ lineAt(text, m) \in Nat
      /\ \A m \in 0 .. j - i : i + m \in 0 .. Len(text)
  BY <1>0, <1>1, TakenIs DEF lineAt
<1> DEFINE a == beginOf(text, i)
           b == beginOf(text, i + k)
           c == beginOf(part, k)
<1>5. /\ placeOf(text, i, bytes) = Pos(lineAt(text, i), of(i) - of(a), of(i))
      /\ placeOf(text, i + k, bytes) = Pos(lineAt(text, i + k), of(i + k) - of(b), of(i + k))
      /\ placeOf(part, k, bytes) = Pos(lineAt(part, k), in(k) - in(c), in(k))
  BY <1>0, <1>1, <1>2, PlaceIs
<1>6. /\ a \in 0 .. i /\ a \in 0 .. Len(text) /\ b \in 0 .. i + k /\ b \in 0 .. Len(text)
      /\ c \in 0 .. k /\ c \in 0 .. j - i
      /\ lineAt(part, c) = lineAt(part, k) /\ \A m \in 0 .. c - 1 : lineAt(part, m) < lineAt(part, k)
  BY <1>1, <1>2, BeginIs
<1> HIDE DEF of, in, a, b, c
<1>7. CASE lineAt(part, k) = 0
  <2>1. c = 0
    <3>1. c > 0 => lineAt(part, 0) < lineAt(part, k)
      BY <1>6
    <3> QED BY <1>3, <1>6, <1>7, <3>1
  <2>2. lineAt(text, i + k) = lineAt(text, i)
    <3>1. PICK u \in Nat, v \in Nat : u = lineAt(text, i + k) /\ v = lineAt(text, i)
      BY <1>1, <1>4
    <3>2. lineAt(part, k) = u - v
      BY <1>1, <1>3, <3>1
    <3> QED BY <1>7, <3>1, <3>2
  <2>3. a = b
    BY <1>1, <2>2, BeginSame DEF a, b
  <2>4. /\ of(i) \in Nat /\ of(a) \in Nat /\ of(i + k) \in Nat /\ in(k) = of(i + k) - of(i) /\ in(0) = 0
        /\ lineAt(text, i) \in Nat
    BY <1>1, <1>3, <1>4, <1>6
  <2>5. /\ of(i + k) - of(b) = (in(k) - in(c)) + (of(i) - of(a)) /\ of(i + k) = in(k) + of(i)
        /\ lineAt(text, i + k) = lineAt(part, k) + lineAt(text, i)
        /\ lineAt(text, i + k) - lineAt(text, i) = lineAt(part, k)
        /\ (of(i + k) - of(b)) - (of(i) - of(a)) = in(k) - in(c) /\ of(i + k) - of(i) = in(k)
    BY <1>7, <2>1, <2>2, <2>3, <2>4
  <2> QED BY <1>5, <1>7, <2>2, <2>5 DEF shiftPos, unshiftPos, Pos, part
<1>8. CASE lineAt(part, k) # 0
  <2>1. c # 0
    BY <1>3, <1>6, <1>8
  <2>2. /\ i + c \in 0 .. i + k /\ lineAt(text, i + c) = lineAt(text, i + k)
        /\ lineAt(text, i) < lineAt(text, i + k)
    <3>1. i + c \in 0 .. i + k /\ i + c \in 0 .. Len(text) /\ k \in 0 .. j - i
      BY <1>1, <1>4, <1>6
    <3>2. /\ lineAt(part, k) = lineAt(text, i + k) - lineAt(text, i)
          /\ lineAt(part, c) = lineAt(text, i + c) - lineAt(text, i) /\ lineAt(part, k) \in Nat
      BY <1>3, <1>6, <3>1
    <3>3. lineAt(text, i) \in Nat /\ lineAt(text, i + k) \in Nat /\ lineAt(text, i + c) \in Nat
      BY <1>1, <1>4, <3>1
    <3> QED BY <1>6, <1>8, <3>1, <3>2, <3>3
  <2>q. PICK q : q = i + c
    OBVIOUS
  <2>3. ASSUME NEW m \in 0 .. q - 1 PROVE lineAt(text, m) < lineAt(text, i + k)
    <3>1. m \in 0 .. Len(text) /\ i \in 0 .. Len(text) /\ i + k \in 0 .. Len(text)
      BY <1>1, <1>6, <2>q
    <3>2. lineAt(text, m) \in Nat /\ lineAt(text, i) \in Nat /\ lineAt(text, i + k) \in Nat
      BY <1>4, <3>1
    <3>3. CASE m <= i
      <4>1. lineAt(text, m) <= lineAt(text, i)
        BY <3>1, <3>3, LineSteps
      <4> QED BY <2>2, <3>2, <4>1
    <3>4. CASE ~(m <= i)
      <4>1. PICK n : n = m - i
        OBVIOUS
      <4>2. n \in 0 .. c - 1 /\ n \in 0 .. j - i /\ i + n = m /\ k \in 0 .. j - i
        BY <1>1, <1>6, <2>q, <3>4, <4>1
      <4>3. lineAt(part, n) < lineAt(part, k) /\ lineAt(part, n) = lineAt(text, m) - lineAt(text, i)
            /\ lineAt(part, k) = lineAt(text, i + k) - lineAt(text, i)
        BY <1>3, <1>6, <4>2
      <4> QED BY <3>2, <4>3
    <3> QED BY <3>3, <3>4
  <2>4. b = i + c
    <3>1. PICK p : p = i + k
      OBVIOUS
    <3>2. p \in 0 .. Len(text) /\ q \in 0 .. p /\ lineAt(text, q) = lineAt(text, p)
      BY <1>1, <2>2, <2>q, <3>1
    <3>3. \A m \in 0 .. q - 1 : lineAt(text, m) < lineAt(text, p)
      BY <2>3, <3>1
    <3>4. beginOf(text, p) = q
      BY <3>2, <3>3, BeginUnique
    <3> QED BY <2>q, <3>1, <3>4 DEF b
  <2>5. /\ of(i) \in Nat /\ of(b) \in Nat /\ of(i + k) \in Nat /\ in(k) = of(i + k) - of(i)
        /\ in(c) = of(b) - of(i) /\ lineAt(text, i) \in Nat /\ lineAt(text, i + k) \in Nat
        /\ lineAt(part, k) = lineAt(text, i + k) - lineAt(text, i)
    BY <1>1, <1>3, <1>4, <1>6, <2>4
  <2>6. /\ of(i + k) - of(b) = in(k) - in(c) /\ of(i + k) = in(k) + of(i)
        /\ lineAt(text, i + k) = lineAt(part, k) + lineAt(text, i)
        /\ lineAt(text, i + k) # lineAt(text, i)
        /\ lineAt(text, i + k) - lineAt(text, i) = lineAt(part, k) /\ of(i + k) - of(i) = in(k)
        /\ (in(k) - in(c)) + 0 = in(k) - in(c) /\ (in(k) - in(c)) - 0 = in(k) - in(c)
    BY <1>8, <2>5
  <2> QED BY <1>5, <1>8, <2>6 DEF shiftPos, unshiftPos, Pos, part
<1> QED BY <1>7, <1>8

\* What stands between the offsets of two places.
LEMMA SliceExact ==
    ASSUME NEW text \in Texts, NEW i \in 0 .. Len(text), NEW j \in 0 .. Len(text)
    PROVE  slice(text, taken(text, bytes)[i], taken(text, bytes)[j]) = {SubSeq(text, i + 1, j)}
<1>1. bytes \in Widths /\ Wide(bytes)
  BY WidthsAre
<1>2. Len(text) \in Nat
  BY DEF Texts
<1>3. ASSUME NEW a \in 0 .. Len(text), NEW b \in 0 .. Len(text),
             taken(text, bytes)[a] = taken(text, bytes)[b]
      PROVE  a = b
  <2>1. taken(text, bytes)[a] \in Nat /\ taken(text, bytes)[b] \in Nat
    BY <1>1, TakenIs
  <2>2. ~(a < b)
    BY <1>1, <1>2, <1>3, <2>1, TakenGrows
  <2>3. ~(b < a)
    BY <1>1, <1>2, <1>3, <2>1, TakenGrows
  <2> QED BY <1>2, <2>2, <2>3
<1>4. {q \in (0 .. Len(text)) \X (0 .. Len(text)) :
         /\ taken(text, bytes)[q[1]] = taken(text, bytes)[i]
         /\ taken(text, bytes)[q[2]] = taken(text, bytes)[j]} = {<<i, j>>}
  BY <1>3
<1>5. {SubSeq(text, p[1] + 1, p[2]) : p \in {<<i, j>>}} = {SubSeq(text, i + 1, j)}
  <2>1. PICK u : u = <<i, j>>
    OBVIOUS
  <2>2. {SubSeq(text, p[1] + 1, p[2]) : p \in {u}} = {SubSeq(text, u[1] + 1, u[2])}
    BY Zenon
  <2>3. u[1] = i /\ u[2] = j
    BY <2>1
  <2> QED BY <2>1, <2>2, <2>3
<1>6. slice(text, taken(text, bytes)[i], taken(text, bytes)[j])
        = {SubSeq(text, p[1] + 1, p[2]) : p \in {<<i, j>>}}
  BY <1>4, Zenon DEF slice
<1> QED BY <1>5, <1>6

LEMMA NamesRead ==
    ASSUME chars \in Texts, NEW i \in Ends, NEW j \in i .. Len(chars)
    PROVE  LET norm == normalized(chars)
               range == [start |-> placeOf(norm, i, bytes), end |-> placeOf(norm, j, bytes)]
           IN /\ siteText(chars, TRUE, range) = {SubSeq(norm, i + 1, j)}
              /\ siteText(chars, FALSE, [start |-> inBytes(i), end |-> inBytes(j)])
                   = {SubSeq(chars, i + 1, j)}
              /\ "crlf" \notin ToSet(SubSeq(chars, 1, j)) =>
                   nameText(chars, range) = {SubSeq(chars, i + 1, j)}
<1> DEFINE norm == normalized(chars)
           range == [start |-> placeOf(norm, i, bytes), end |-> placeOf(norm, j, bytes)]
<1>1. bytes \in Widths
  BY WidthsAre
<1>2. /\ Len(chars) \in Nat /\ i \in 0 .. Len(chars) /\ j \in 0 .. Len(chars) /\ i <= j
      /\ norm \in Texts /\ Len(norm) = Len(chars)
      /\ \A k \in 1 .. Len(chars) : norm[k] = IF chars[k] = "crlf" THEN "lf" ELSE chars[k]
  BY NormalizedIs DEF Ends, Texts
<1> HIDE DEF norm
<1>3. range.start.offset = taken(norm, bytes)[i] /\ range.end.offset = taken(norm, bytes)[j]
  <2>1. placeOf(norm, i, bytes).offset = taken(norm, bytes)[i]
    BY <1>1, <1>2, PlaceIs DEF Pos
  <2>2. placeOf(norm, j, bytes).offset = taken(norm, bytes)[j]
    BY <1>1, <1>2, PlaceIs DEF Pos
  <2>3. range.start = placeOf(norm, i, bytes) /\ range.end = placeOf(norm, j, bytes)
    OBVIOUS
  <2> QED BY <2>1, <2>2, <2>3
<1>4. inBytes(i).offset = taken(chars, bytes)[i] /\ inBytes(j).offset = taken(chars, bytes)[j]
  BY <1>1, <1>2, PlaceIs DEF inBytes, Pos
<1> HIDE DEF range
<1>5. siteText(chars, TRUE, range) = {SubSeq(norm, i + 1, j)}
  <2>1. siteText(chars, TRUE, range) = slice(norm, taken(norm, bytes)[i], taken(norm, bytes)[j])
    BY <1>3, Zenon DEF siteText, norm
  <2>2. norm \in Texts /\ i \in 0 .. Len(norm) /\ j \in 0 .. Len(norm)
    BY <1>2
  <2>3. slice(norm, taken(norm, bytes)[i], taken(norm, bytes)[j]) = {SubSeq(norm, i + 1, j)}
    BY <2>2, SliceExact
  <2> QED BY <2>1, <2>3
<1>6. siteText(chars, FALSE, [start |-> inBytes(i), end |-> inBytes(j)]) = {SubSeq(chars, i + 1, j)}
  <2>1. siteText(chars, FALSE, [start |-> inBytes(i), end |-> inBytes(j)])
          = slice(chars, taken(chars, bytes)[i], taken(chars, bytes)[j])
    BY <1>4, Zenon DEF siteText
  <2>2. slice(chars, taken(chars, bytes)[i], taken(chars, bytes)[j]) = {SubSeq(chars, i + 1, j)}
    BY <1>2, SliceExact
  <2> QED BY <2>1, <2>2
<1>7. ASSUME "crlf" \notin ToSet(SubSeq(chars, 1, j)) PROVE nameText(chars, range) = {SubSeq(chars, i + 1, j)}
  <2>1. ASSUME NEW k \in 1 .. j PROVE chars[k] # "crlf"
    <3>1. SubSeq(chars, 1, j)[k] = chars[k] /\ k \in DOMAIN SubSeq(chars, 1, j)
      BY <1>2 DEF Texts
    <3> QED BY <1>7, <3>1 DEF ToSet
  <2>2. PICK z \in Nat : z = 0
    OBVIOUS
  <2>3. \A k \in 1 .. j : bytes[norm[k]] = bytes[chars[z + k]]
    BY <1>2, <2>1, <2>2
  <2>4. j \in Nat /\ Alike(norm, chars, z, j, bytes)
    BY <1>2, <2>2, <2>3 DEF Alike
  <2>5. \A k \in 0 .. j : taken(norm, bytes)[k] = taken(chars, bytes)[z + k] - taken(chars, bytes)[z]
    <3>1. norm \in Texts /\ chars \in Texts /\ bytes \in Widths
      BY <1>1, <1>2
    <3>2. TakesAlike(norm, chars, z, j, bytes)
      BY <2>2, <2>4, <3>1, TakenAlike
    <3> QED BY <3>2 DEF TakesAlike
  <2>6. taken(chars, bytes)[0] = 0 /\ \A k \in 0 .. j : taken(chars, bytes)[k] \in Nat
    BY <1>1, <1>2, TakenIs
  <2>7. taken(norm, bytes)[i] = taken(chars, bytes)[i] /\ taken(norm, bytes)[j] = taken(chars, bytes)[j]
    BY <1>2, <2>2, <2>5, <2>6
  <2>8. nameText(chars, range) = slice(chars, taken(chars, bytes)[i], taken(chars, bytes)[j])
    BY <1>3, <2>7, Zenon DEF nameText
  <2> QED BY <1>2, <2>8, SliceExact
<1> QED BY <1>5, <1>6, <1>7 DEF norm, range

\* In every text, whatever line and column an inline block begins at, each place
\* in it is that place of the file, and a name is read back from the text its
\* offsets were counted on (shiftPos, unshiftPos, server.go:1972-2002; siteText,
\* server.go:986-992, resolver.go:634-641; nameAt, resolver.go:805-826).
THEOREM BlocksAgreeHolds == TextSpec => []BlocksAgree
<1>1. chars \in Texts => BlocksAgree
  <2> SUFFICES ASSUME chars \in Texts, NEW i \in Ends, NEW j \in i .. Len(chars)
               PROVE  LET norm == normalized(chars)
                          code == SubSeq(norm, i + 1, j)
                          range == [start |-> placeOf(norm, i, bytes), end |-> placeOf(norm, j, bytes)]
                      IN /\ \A k \in 0 .. Len(code) :
                              /\ shiftPos(placeOf(code, k, bytes), placeOf(norm, i, bytes))
                                   = placeOf(norm, i + k, bytes)
                              /\ unshiftPos(placeOf(norm, i + k, bytes), placeOf(norm, i, bytes))
                                   = placeOf(code, k, bytes)
                         /\ siteText(chars, TRUE, range) = {SubSeq(norm, i + 1, j)}
                         /\ siteText(chars, FALSE, [start |-> inBytes(i), end |-> inBytes(j)])
                              = {SubSeq(chars, i + 1, j)}
                         /\ "crlf" \notin ToSet(SubSeq(chars, 1, j)) =>
                              nameText(chars, range) = {SubSeq(chars, i + 1, j)}
    BY Zenon DEF BlocksAgree
  <2> DEFINE norm == normalized(chars)
  <2>1. norm \in Texts /\ Len(norm) = Len(chars) /\ i \in 0 .. Len(norm) /\ j \in i .. Len(norm)
    BY NormalizedIs DEF Ends
  <2> HIDE DEF norm
  <2>2. Len(SubSeq(norm, i + 1, j)) = j - i
    BY <2>1, PartIs
  <2>3. \A k \in 0 .. j - i :
          /\ shiftPos(placeOf(SubSeq(norm, i + 1, j), k, bytes), placeOf(norm, i, bytes))
               = placeOf(norm, i + k, bytes)
          /\ unshiftPos(placeOf(norm, i + k, bytes), placeOf(norm, i, bytes))
               = placeOf(SubSeq(norm, i + 1, j), k, bytes)
    <3> SUFFICES ASSUME NEW k \in 0 .. j - i
                 PROVE  /\ shiftPos(placeOf(SubSeq(norm, i + 1, j), k, bytes), placeOf(norm, i, bytes))
                             = placeOf(norm, i + k, bytes)
                        /\ unshiftPos(placeOf(norm, i + k, bytes), placeOf(norm, i, bytes))
                             = placeOf(SubSeq(norm, i + 1, j), k, bytes)
      OBVIOUS
    <3> QED BY <2>1, PlaceInPart, Zenon
  <2> QED BY <2>2, <2>3, NamesRead DEF norm
<1> QED BY <1>1, TextTyped, PTL
=============================================================================
