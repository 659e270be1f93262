------------------------- MODULE IncludeClosureProofs -------------------------
(***************************************************************************)
(* The closure of every workspace, for every limit: each file is a member  *)
(* once, and neither the members nor the recursion exceed their limits.    *)
(*                                                                         *)
(* FilesOnce needs the visited set to cover the members, which is what     *)
(* expand maintains by adding a path before it recurses.  The bound on the *)
(* recursion needs each frame to carry its place in the stack as depth.    *)
(*                                                                         *)
(* That the closure is the least closed set has two halves.  Every member  *)
(* is in every closed set (Sound), as it was reached by a directive of a   *)
(* member.  And the members are closed (Whole): what a finished frame      *)
(* includes is a member unless a limit or an unreadable file cut it off,   *)
(* and what an open frame includes is a member or still to do.  The limit  *)
(* of the depth cuts nothing as long as there are enough files, since the  *)
(* frames of the stack are different members.  That directives are         *)
(* accounted for counts, per owner, what is done and what is to do.        *)
(***************************************************************************)
EXTENDS IncludeClosure, FiniteSetTheorems, SequenceTheorems, TLAPS

\* The files and the frames are sequences, of whatever values.
Shape == /\ \E S : files \in Seq(S)
         /\ \E S : stack \in Seq(S)

Covered == \A i \in 1 .. Len(files) : files[i].path \in visited

DepthIsPlace == \A i \in 1 .. Len(stack) : stack[i].depth = i - 1

IInv == Shape /\ Covered /\ FilesOnce /\ DepthIsPlace /\ WithinLimits

\* Appending to a sequence of any values.
LEMMA AppendAny ==
    ASSUME NEW S, NEW s \in Seq(S), NEW e
    PROVE  /\ Append(s, e) \in Seq(S \cup {e})
           /\ Len(Append(s, e)) = Len(s) + 1
           /\ \A i \in 1 .. Len(s) : Append(s, e)[i] = s[i]
           /\ Append(s, e)[Len(s) + 1] = e
<1>1. s \in Seq(S \cup {e})
  OBVIOUS
<1> QED BY <1>1

\* What one call of expand does to the invariant, when the frames below it are
\* sound and the call is at the depth of the next frame.
LEMMA ExpandKeeps ==
    ASSUME IInv, NEW u, NEW depth \in Nat, NEW frames,
           \E S : frames \in Seq(S),
           \A i \in 1 .. Len(frames) : frames[i].depth = i - 1,
           Len(frames) = depth,
           Len(frames) <= MaxDepth + 1,
           Expand(u, depth, frames)
    PROVE  IInv'
<1> USE LimitsAssumption
<1>1. PICK F : files \in Seq(F)
  BY DEF IInv, Shape
<1>2. PICK T : frames \in Seq(T)
  OBVIOUS
<1>3. CASE Refused(u, depth)
  <2>1. stack' = frames /\ files' = files /\ visited' = visited
    BY <1>3 DEF Expand
  <2> QED BY <2>1, <1>1, <1>2
          DEF IInv, Shape, Covered, FilesOnce, DepthIsPlace, WithinLimits
<1>4. CASE ~Refused(u, depth)
  <2> DEFINE f == File(u)
  <2>1. /\ visited' = visited \cup {PathOf[u]}
        /\ files' = Append(files, f)
        /\ \/ stack' = Append(frames, Frame(f, depth))
           \/ stack' = frames
    BY <1>4 DEF Expand
  <2>2. /\ depth <= MaxDepth
        /\ Len(files) < MaxFiles
        /\ PathOf[u] \notin visited
    BY <1>4, <1>1 DEF Refused
  <2>3. f.path = PathOf[u]
    BY DEF File
  <2>4. /\ Len(files') = Len(files) + 1
        /\ \A i \in 1 .. Len(files) : files'[i] = files[i]
        /\ files'[Len(files) + 1] = f
        /\ files' \in Seq(F \cup {f})
    BY <2>1, <1>1, AppendAny
  <2>5. Covered' /\ FilesOnce'
    <3> HIDE DEF f
    <3>1. Len(files) \in Nat
      BY <1>1
    <3>2. \A i \in 1 .. Len(files) : files'[i].path \in visited
      BY <2>4 DEF IInv, Covered
    <3>3. files'[Len(files) + 1].path = PathOf[u]
      BY <2>3, <2>4
    <3>4. Covered'
      BY <2>1, <2>4, <3>1, <3>2, <3>3 DEF Covered
    <3>5. ASSUME NEW i \in 1 .. Len(files'), NEW j \in 1 .. Len(files'),
                 files'[i].path = files'[j].path
          PROVE  i = j
      <4>1. CASE i \in 1 .. Len(files) /\ j \in 1 .. Len(files)
        BY <2>4, <3>5, <4>1 DEF IInv, FilesOnce
      <4>2. CASE i = Len(files) + 1 \/ j = Len(files) + 1
        BY <2>2, <2>4, <3>1, <3>2, <3>3, <3>5, <4>2
      <4> QED BY <2>4, <3>1, <4>1, <4>2
    <3> QED BY <3>4, <3>5 DEF FilesOnce
  <2>6. (\E S : stack' \in Seq(S)) /\ DepthIsPlace' /\ Len(stack') <= MaxDepth + 1
    <3>1. CASE stack' = frames
      BY <3>1, <1>2 DEF DepthIsPlace
    <3>2. CASE stack' = Append(frames, Frame(f, depth))
      <4>1. /\ stack' \in Seq(T \cup {Frame(f, depth)})
            /\ Len(stack') = Len(frames) + 1
            /\ \A i \in 1 .. Len(frames) : stack'[i] = frames[i]
            /\ stack'[Len(frames) + 1] = Frame(f, depth)
        BY <3>2, <1>2, AppendAny
      <4>2. Frame(f, depth).depth = depth
        BY DEF Frame
      <4>3. Len(stack') <= MaxDepth + 1
        BY <4>1, <2>2
      <4>4. \A i \in 1 .. Len(stack') : stack'[i].depth = i - 1
        BY <4>1, <4>2, <1>2
      <4> QED BY <4>1, <4>3, <4>4 DEF DepthIsPlace
    <3> QED BY <2>1, <3>1, <3>2
  <2>7. Len(files') <= MaxFiles
    BY <2>2, <2>4, <1>1
  <2> QED BY <2>4, <2>5, <2>6, <2>7 DEF IInv, Shape, WithinLimits
<1> QED BY <1>3, <1>4

LEMMA InitIInv == Init => IInv
<1> SUFFICES ASSUME Init PROVE IInv
  OBVIOUS
<1>1. files = <<>> /\ stack = <<>>
  BY DEF Init
<1>2. files \in Seq({}) /\ stack \in Seq({}) /\ Len(files) = 0 /\ Len(stack) = 0
  BY <1>1
<1> QED BY <1>2, LimitsAssumption
        DEF IInv, Shape, Covered, FilesOnce, DepthIsPlace, WithinLimits

\* The frames under a directive of the innermost file.
LEMMA RestKeeps ==
    ASSUME IInv, stack # <<>>
    PROVE  /\ \E S : Rest \in Seq(S)
           /\ Len(Rest) = Len(stack)
           /\ \A i \in 1 .. Len(Rest) : Rest[i].depth = i - 1
           /\ Top.depth + 1 = Len(stack)
           /\ Len(stack) \in Nat
<1>1. PICK T : stack \in Seq(T)
  BY DEF IInv, Shape
<1>2. Len(stack) \in Nat /\ Len(stack) \in 1 .. Len(stack)
  BY <1>1
<1>3. Rest \in Seq(T \cup {Advance(Top)})
  BY <1>1, <1>2 DEF Rest
<1>4. Len(Rest) = Len(stack)
  BY <1>1, <1>2 DEF Rest
<1>5. /\ \A i \in 1 .. Len(stack) : i # Len(stack) => Rest[i] = stack[i]
      /\ Rest[Len(stack)] = Advance(Top)
  BY <1>1, <1>2 DEF Rest
<1>6. Advance(Top).depth = Top.depth
  BY DEF Advance
<1>7. Top.depth = Len(stack) - 1
  BY <1>2 DEF IInv, DepthIsPlace, Top
<1> QED BY <1>2, <1>3, <1>4, <1>5, <1>6, <1>7 DEF IInv, DepthIsPlace

LEMMA StepIInv == IInv /\ [Next]_vars => IInv'
<1> SUFFICES ASSUME IInv, [Next]_vars PROVE IInv'
  OBVIOUS
<1>1. CASE Start
  <2>1. Expand(Root, 0, <<>>)
    BY <1>1 DEF Start
  <2>2. <<>> \in Seq({}) /\ Len(<<>>) = 0
    OBVIOUS
  <2>3. \E S : <<>> \in Seq(S)
    BY <2>2
  <2>4. \A i \in 1 .. Len(<<>>) : <<>>[i].depth = i - 1
    BY <2>2
  <2>5. Len(<<>>) <= MaxDepth + 1
    BY <2>2, LimitsAssumption
  <2> QED BY <2>1, <2>2, <2>3, <2>4, <2>5, ExpandKeeps
<1>2. CASE Directive
  <2>0. stack # <<>>
    BY <1>2 DEF Directive
  <2>1. CASE Found(Top.owner, Head(Top.todo))
    <3>1. Expand(Target(Top.owner, Head(Top.todo)), Top.depth + 1, Rest)
      BY <1>2, <2>1 DEF Directive
    <3>2. Len(Rest) <= MaxDepth + 1
      BY <2>0, RestKeeps DEF IInv, WithinLimits
    <3>3. Top.depth + 1 \in Nat /\ Len(Rest) = Top.depth + 1
      BY <2>0, RestKeeps
    <3> QED BY <3>1, <3>2, <3>3, <2>0, RestKeeps, ExpandKeeps
  <2>2. CASE ~Found(Top.owner, Head(Top.todo))
    <3>1. stack' = Rest /\ files' = files /\ visited' = visited
      BY <1>2, <2>2 DEF Directive
    <3> QED BY <3>1, <2>0, RestKeeps
            DEF IInv, Shape, Covered, FilesOnce, DepthIsPlace, WithinLimits
  <2> QED BY <2>1, <2>2
<1>3. CASE Return
  <2>1. PICK T : stack \in Seq(T)
    BY DEF IInv, Shape
  <2>2. stack # <<>> /\ stack' = SubSeq(stack, 1, Len(stack) - 1)
    BY <1>3 DEF Return
  <2>3. PICK n \in Nat : n = Len(stack) - 1 /\ n <= Len(stack)
    BY <2>1, <2>2
  <2>4. /\ stack' \in Seq(T)
        /\ Len(stack') = n
        /\ \A i \in 1 .. n : stack'[i] = stack[i]
    <3>1. \A i \in 1 .. n : stack[i] \in T
      BY <2>1, <2>3
    <3>2. /\ SubSeq(stack, 1, n) \in Seq(T)
          /\ Len(SubSeq(stack, 1, n)) = IF 1 <= n THEN n - 1 + 1 ELSE 0
          /\ \A i \in 1 .. n - 1 + 1 : SubSeq(stack, 1, n)[i] = stack[1 + i - 1]
      BY <3>1, SubSeqProperties
    <3>3. stack' = SubSeq(stack, 1, n)
      BY <2>2, <2>3
    <3>4. (IF 1 <= n THEN n - 1 + 1 ELSE 0) = n /\ n - 1 + 1 = n
      BY <2>3
    <3>5. \A i \in 1 .. n : 1 + i - 1 = i
      OBVIOUS
    <3> QED BY <3>2, <3>3, <3>4, <3>5
  <2>5. files' = files /\ visited' = visited
    BY <1>3 DEF Return, result
  <2>6. DepthIsPlace'
    BY <2>3, <2>4 DEF IInv, DepthIsPlace
  <2>7. WithinLimits'
    BY <2>3, <2>4, <2>5, <2>1, LimitsAssumption DEF IInv, WithinLimits
  <2>8. Shape' /\ Covered' /\ FilesOnce'
    BY <2>4, <2>5 DEF IInv, Shape, Covered, FilesOnce
  <2> QED BY <2>6, <2>7, <2>8 DEF IInv
<1>4. CASE Done \/ Cancel \/ UNCHANGED vars
  <2>1. stack' = stack /\ files' = files /\ visited' = visited
    BY <1>4 DEF Done, Cancel, vars, result
  <2> QED BY <2>1
          DEF IInv, Shape, Covered, FilesOnce, DepthIsPlace, WithinLimits
<1> QED BY <1>1, <1>2, <1>3, <1>4 DEF Next

\* Cycles, diamonds and other spellings never make a file a member twice
\* (expand, resolver.go:79-104).
THEOREM FilesOnceHolds == Spec => []FilesOnce
<1>1. IInv => FilesOnce
  BY DEF IInv
<1> QED BY <1>1, InitIInv, StepIInv, PTL DEF Spec

\* The guards against include bombs hold at every step (resolver.go:90).
THEOREM WithinLimitsHolds == Spec => []WithinLimits
<1>1. IInv => WithinLimits
  BY DEF IInv
<1> QED BY <1>1, InitIInv, StepIInv, PTL DEF Spec

------------------------------------------------------------------------------
(* The types *)

\* A set of positions has a first one.
LEMMA FirstExists ==
    ASSUME NEW n \in Nat, NEW T \in SUBSET (1 .. n), T # {}
    PROVE  First(T) \in T
<1> DEFINE F == {1 .. x : x \in T}
<1>1. F \subseteq FiniteSubsetsOf(1 .. n) /\ F # {}
  <2>1. ASSUME NEW x \in T PROVE 1 .. x \in SUBSET (1 .. n) /\ IsFiniteSet(1 .. x)
    BY FS_Interval
  <2> QED BY <2>1 DEF FiniteSubsetsOf
<1>2. IsFiniteSet(1 .. n)
  BY FS_Interval
<1>3. PICK f \in F : \A g \in F : ~(<<g, f>> \in StrictSubsetOrdering(1 .. n))
  BY <1>1, <1>2, FS_StrictSubsetOrderingWellFounded, WFMin
<1>4. PICK x \in T : f = 1 .. x
  BY <1>3
<1>5. ASSUME NEW y \in T PROVE x <= y
  <2>1. SUFFICES ASSUME y < x PROVE FALSE
    OBVIOUS
  <2>2. 1 .. y \subseteq 1 .. x /\ 1 .. y # 1 .. x
    BY <2>1
  <2>3. <<1 .. y, f>> \in StrictSubsetOrdering(1 .. n)
    BY <1>4, <2>2 DEF StrictSubsetOrdering
  <2> QED BY <1>3, <2>3
<1> HIDE DEF F
<1> QED BY <1>5 DEF First

\* What an argument finds is the URI of a regular file.
LEMMA TargetIsFile ==
    ASSUME TypeOK, NEW owner \in Uris, PathOf[owner] \in Paths,
           NEW arg \in Args, Found(owner, arg)
    PROVE  /\ Target(owner, arg) \in Uris
           /\ PathOf[Target(owner, arg)] \in Paths
           /\ Target(owner, arg) = UriOf[PathOf[Target(owner, arg)]]
<1> DEFINE H == Hits(owner, arg)
           n == Len(Roots)
           c == Candidates(owner, arg)
<1>1. n \in Nat /\ \A i \in 1 .. n : Roots[i] \in Dirs
  BY QueryAssumption
<1>2. H \in SUBSET (1 .. n + 1) /\ H # {}
  BY DEF Hits, Found
<1>3. First(H) \in H
  <2>1. PICK m \in Nat : m = n + 1
    BY <1>1
  <2>2. H \in SUBSET (1 .. m)
    BY <1>2, <2>1
  <2> HIDE DEF H
  <2> QED BY <1>2, <2>2, FirstExists
<1>4. c[First(H)] \in Paths
  BY <1>3 DEF Hits, TypeOK
<1>5. Target(owner, arg) = UriOf[c[First(H)]]
  BY DEF Target
<1> HIDE DEF c, H
<1> QED BY <1>4, <1>5, DataAssumption

\* A file's directives are arguments, and so is what is left of them.
LEMMA ContentsAreSeqs ==
    ASSUME NEW c \in Contents
    PROVE  /\ c \in Seq(Args) /\ Len(c) \in 0 .. MaxDirectives
           /\ Elements(c) \subseteq Args
           /\ c # <<>> => /\ Head(c) \in Args
                          /\ Tail(c) \in Contents
                          /\ Elements(c) = {Head(c)} \cup Elements(Tail(c))
<1>1. PICK n \in 0 .. MaxDirectives : c \in [1 .. n -> Args]
  BY DEF Contents
<1>2. n \in Nat
  BY LimitsAssumption
<1>3. c \in Seq(Args) /\ Len(c) = n
  BY <1>1, <1>2
<1>4. Elements(c) \subseteq Args
  BY <1>1, <1>3 DEF Elements
<1>5. ASSUME c # <<>>
      PROVE  /\ Head(c) \in Args
             /\ Tail(c) \in Contents
             /\ Elements(c) = {Head(c)} \cup Elements(Tail(c))
  <2>1. n >= 1
    BY <1>1, <1>3, <1>5
  <2>2. Head(c) = c[1] /\ c[1] \in Args
    BY <1>1, <1>3, <2>1
  <2>3. /\ Len(Tail(c)) = n - 1
        /\ \A i \in 1 .. n - 1 : Tail(c)[i] = c[i + 1]
    BY <1>3, <1>5
  <2>4. Tail(c) \in [1 .. n - 1 -> Args]
    <3>1. Tail(c) \in Seq(Args)
      BY <1>3, <1>5
    <3> QED BY <2>3, <3>1, LenProperties
  <2>5. Tail(c) \in Contents
    BY <2>1, <2>4, LimitsAssumption DEF Contents
  <2>6. ASSUME NEW i \in 1 .. n, i # 1 PROVE c[i] \in Elements(Tail(c))
    <3>1. i - 1 \in 1 .. n - 1 /\ Tail(c)[i - 1] = c[i]
      BY <2>3, <2>6
    <3> QED BY <2>3, <3>1 DEF Elements
  <2>7. Elements(c) \subseteq {c[1]} \cup Elements(Tail(c))
    BY <1>3, <2>6 DEF Elements
  <2>8. {c[1]} \cup Elements(Tail(c)) \subseteq Elements(c)
    BY <1>3, <2>1, <2>3 DEF Elements
  <2> QED BY <2>2, <2>5, <2>7, <2>8
<1> QED BY <1>3, <1>4, <1>5, LimitsAssumption

LEMMA NoDirectives == <<>> \in Contents /\ Elements(<<>>) = {}
<1>1. <<>> \in [1 .. 0 -> Args]
  OBVIOUS
<1>2. 0 \in 0 .. MaxDirectives
  BY LimitsAssumption
<1> QED BY <1>1, <1>2 DEF Contents, Elements

LEMMA FileTyped ==
    ASSUME TypeOK, NEW u \in Uris, PathOf[u] \in Paths, Loads(u)
    PROVE  File(u) \in FileRecords /\ File(u).path = PathOf[u] /\ File(u).uri = u
<1>1. CASE PathOf[u] \in Scripts
  BY <1>1, NoDirectives DEF File, FileRecords
<1>2. CASE PathOf[u] \notin Scripts /\ u \in Open
  <2>1. inEditor[u] \in Contents
    BY <1>2 DEF TypeOK
  <2> QED BY <1>2, <2>1 DEF File, FileRecords
<1>3. CASE PathOf[u] \notin Scripts /\ u \notin Open
  <2>1. onDisk[PathOf[u]] \in Contents
    BY <1>3 DEF TypeOK, Loads
  <2> QED BY <1>3, <2>1 DEF File, FileRecords
<1> QED BY <1>1, <1>2, <1>3

\* A call of expand is refused, or enters a file that can be read.
LEMMA ExpandOutcome ==
    ASSUME TypeOK, NEW u \in Uris, NEW depth \in Nat,
           NEW frames \in Seq(Frames), Expand(u, depth, frames)
    PROVE  \/ /\ Refused(u, depth)
              /\ stack' = frames /\ files' = files /\ visited' = visited
           \/ /\ ~Refused(u, depth)
              /\ depth \in 0 .. MaxDepth
              /\ PathOf[u] \in Paths /\ PathOf[u] \notin visited /\ Loads(u)
              /\ File(u) \in FileRecords
              /\ visited' = visited \cup {PathOf[u]}
              /\ files' = Append(files, File(u))
              /\ \/ stack' = Append(frames, Frame(File(u), depth))
                 \/ stack' = frames /\ File(u).directives = <<>>
<1>1. CASE Refused(u, depth)
  BY <1>1 DEF Expand
<1>2. CASE ~Refused(u, depth)
  <2>1. PathOf[u] \in Paths /\ PathOf[u] \notin visited /\ Loads(u)
    BY <1>2, DataAssumption DEF Refused
  <2>2. depth \in 0 .. MaxDepth
    BY <1>2, LimitsAssumption DEF Refused
  <2>3. File(u) \in FileRecords
    BY <2>1, FileTyped
  <2>4. ~Rms(File(u)) => File(u).directives = <<>>
    BY DEF Rms, File
  <2> QED BY <1>2, <2>1, <2>2, <2>3, <2>4 DEF Expand
<1> QED BY <1>1, <1>2

LEMMA ExpandTyped ==
    ASSUME TypeOK, NEW u \in Uris, NEW depth \in Nat,
           NEW frames \in Seq(Frames), Expand(u, depth, frames)
    PROVE  files' \in Seq(FileRecords) /\ stack' \in Seq(Frames) /\ visited' \subseteq Paths
<1>1. files \in Seq(FileRecords) /\ visited \subseteq Paths
  BY DEF TypeOK
<1>2. ASSUME depth \in 0 .. MaxDepth, File(u) \in FileRecords
      PROVE  Frame(File(u), depth) \in Frames
  BY <1>2 DEF Frame, Frames, FileRecords
<1>3. CASE stack' = frames /\ files' = files /\ visited' = visited
  BY <1>1, <1>3
<1>4. CASE /\ depth \in 0 .. MaxDepth
           /\ PathOf[u] \in Paths
           /\ File(u) \in FileRecords
           /\ visited' = visited \cup {PathOf[u]}
           /\ files' = Append(files, File(u))
           /\ \/ stack' = Append(frames, Frame(File(u), depth))
              \/ stack' = frames
  <2>1. visited' \subseteq Paths
    BY <1>1, <1>4
  <2>2. files' \in Seq(FileRecords)
    BY <1>1, <1>4
  <2>3. stack' \in Seq(Frames)
    BY <1>2, <1>4
  <2> QED BY <2>1, <2>2, <2>3
<1> QED BY <1>3, <1>4, ExpandOutcome

------------------------------------------------------------------------------
(* What a closure in progress looks like *)

Phase ==
    /\ pc = "start" => /\ stack = <<>> /\ files = <<>> /\ visited = {}
                       /\ resolved = <<>> /\ missing = <<>>
    /\ pc = "done" => stack = <<>>
Visits == visited = Members
RootFirst == files # <<>> => PathOf[Root] \in Members
Named == \A f \in Elements(files) : f.path \in Readable /\ f = Member(f.path)

\* A frame belongs to a member and holds directives of it.
Sits(frame) ==
    /\ PathOf[frame.owner] \in Members
    /\ frame.owner = Name(PathOf[frame.owner])
    /\ Elements(frame.todo) \subseteq Elements(Member(PathOf[frame.owner]).directives)
Framed == \A k \in 1 .. Len(stack) : Sits(stack[k])
ApartIn(frames) ==
    \A j, k \in 1 .. Len(frames) :
        PathOf[frames[j].owner] = PathOf[frames[k].owner] => j = k
Apart == ApartIn(stack)

Linked == Phase /\ Visits /\ RootFirst /\ Named /\ Framed /\ Apart

LEMMA WorldStays ==
    ASSUME [Next]_vars
    PROVE  /\ world' = world
           /\ Readable' = Readable
           /\ \A p : Member(p)' = Member(p)
<1>1. world' = world
  BY DEF Next, Start, Directive, Return, Done, Cancel, vars
<1>2. present' = present /\ onDisk' = onDisk /\ inEditor' = inEditor
  BY <1>1 DEF world
<1>3. Readable' = Readable
  BY <1>2 DEF Readable, Loads
<1>4. \A p : Member(p)' = Member(p)
  BY <1>2 DEF Member, File
<1> QED BY <1>1, <1>3, <1>4

LEMMA ElementsAppend ==
    ASSUME NEW S, NEW s \in Seq(S), NEW e
    PROVE  Elements(Append(s, e)) = Elements(s) \cup {e}
<1>1. /\ Len(Append(s, e)) = Len(s) + 1
      /\ \A i \in 1 .. Len(s) : Append(s, e)[i] = s[i]
      /\ Append(s, e)[Len(s) + 1] = e
      /\ Len(s) \in Nat
  BY AppendAny
<1>2. Elements(Append(s, e)) \subseteq Elements(s) \cup {e}
  BY <1>1 DEF Elements
<1>3. e \in Elements(Append(s, e))
  BY <1>1 DEF Elements
<1>4. Elements(s) \subseteq Elements(Append(s, e))
  BY <1>1 DEF Elements
<1> QED BY <1>2, <1>3, <1>4

LEMMA TopFacts ==
    ASSUME TypeOK, stack # <<>>
    PROVE  /\ Len(stack) \in Nat /\ Len(stack) \in 1 .. Len(stack)
           /\ Top \in Frames /\ Top = stack[Len(stack)]
           /\ Len(Rest) = Len(stack)
           /\ \A k \in 1 .. Len(stack) : k # Len(stack) => Rest[k] = stack[k]
           /\ Rest[Len(stack)] = Advance(Top)
           /\ Top.todo # <<>> => /\ Rest \in Seq(Frames)
                                 /\ Advance(Top) \in Frames
           /\ Advance(Top).owner = Top.owner
           /\ Advance(Top).todo = Tail(Top.todo)
<1>1. stack \in Seq(Frames) /\ Len(stack) \in Nat /\ Len(stack) \in 1 .. Len(stack)
  BY DEF TypeOK
<1>2. Top \in Frames /\ Top = stack[Len(stack)]
  BY <1>1 DEF Top
<1>3. /\ Len(Rest) = Len(stack)
      /\ \A k \in 1 .. Len(stack) : k # Len(stack) => Rest[k] = stack[k]
      /\ Rest[Len(stack)] = Advance(Top)
  BY <1>1 DEF Rest
<1>4. ASSUME Top.todo # <<>> PROVE Rest \in Seq(Frames) /\ Advance(Top) \in Frames
  <2>1. Tail(Top.todo) \in Contents
    BY <1>2, <1>4, ContentsAreSeqs DEF Frames
  <2>2. Advance(Top) \in Frames
    BY <1>2, <2>1 DEF Advance, Frames
  <2> QED BY <1>1, <2>2 DEF Rest
<1>5. Advance(Top).owner = Top.owner /\ Advance(Top).todo = Tail(Top.todo)
  BY DEF Advance
<1> QED BY <1>1, <1>2, <1>3, <1>4, <1>5

\* A member's path is a path, and its name is a URI of it.
LEMMA NameFacts ==
    ASSUME NEW p \in Paths
    PROVE  Name(p) \in Uris /\ PathOf[Name(p)] = p
BY DataAssumption, QueryAssumption DEF Name

\* The directive at hand: its owner is a member, and what it finds is a file.
LEMMA DirectiveFacts ==
    ASSUME TypeOK, Linked, Directive
    PROVE  /\ stack # <<>> /\ Top.todo # <<>>
           /\ PathOf[Top.owner] \in Members /\ PathOf[Top.owner] \in Paths
           /\ Top.owner \in Uris /\ Top.owner = Name(PathOf[Top.owner])
           /\ Head(Top.todo) \in Args
           /\ Head(Top.todo) \in Elements(Member(PathOf[Top.owner]).directives)
           /\ Top.depth + 1 \in Nat
           /\ files # <<>>
           /\ Found(Top.owner, Head(Top.todo)) =>
                LET target == Target(Top.owner, Head(Top.todo))
                IN  /\ target \in Uris /\ PathOf[target] \in Paths
                    /\ PathOf[target] \notin visited => target = Name(PathOf[target])
<1>1. stack # <<>> /\ Top.todo # <<>>
  BY DEF Directive
<1>2. Sits(Top) /\ Top \in Frames
  BY <1>1, TopFacts DEF Linked, Framed
<1>3. PathOf[Top.owner] \in Members /\ PathOf[Top.owner] \in Paths
  BY <1>2 DEF Sits, Linked, Visits, TypeOK
<1>4. Top.owner \in Uris /\ Top.depth + 1 \in Nat
  BY <1>2, LimitsAssumption DEF Frames
<1>5. Head(Top.todo) \in Args /\ Head(Top.todo) \in Elements(Top.todo)
  BY <1>1, <1>2, ContentsAreSeqs DEF Frames
<1>6. Elements(Top.todo) \subseteq Elements(Member(PathOf[Top.owner]).directives)
  BY <1>2 DEF Sits
<1>7. files # <<>>
  BY <1>3 DEF Members, Elements
<1>8. ASSUME Found(Top.owner, Head(Top.todo))
      PROVE  LET target == Target(Top.owner, Head(Top.todo))
             IN  /\ target \in Uris /\ PathOf[target] \in Paths
                 /\ PathOf[target] \notin visited => target = Name(PathOf[target])
  <2>1. PathOf[Root] \in visited
    BY <1>7 DEF Linked, RootFirst, Visits
  <2> QED BY <1>3, <1>4, <1>5, <1>8, <2>1, TargetIsFile DEF Name
<1> QED BY <1>1, <1>2, <1>3, <1>4, <1>5, <1>6, <1>7, <1>8 DEF Sits

LEMMA StepTypeOK ==
    ASSUME TypeOK, Linked, [Next]_vars PROVE TypeOK'
<1> DEFINE Rest1 == /\ present \subseteq Paths
                    /\ onDisk \in [present \ Scripts -> Contents]
                    /\ inEditor \in [Open -> Contents]
           Rest2 == /\ resolved \in Seq([owner : Uris, arg : Args, target : Uris])
                    /\ missing \in Seq([owner : Uris, arg : Args])
                    /\ cancelled \in BOOLEAN
                    /\ pc \in {"start", "run", "done"}
           Rest3 == /\ stack \in Seq(Frames)
                    /\ files \in Seq(FileRecords)
                    /\ visited \subseteq Paths
<1>1. Rest1' 
  BY WorldStays DEF TypeOK, world
<1>2. CASE Start
  <2>1. Rest2'
    BY <1>2 DEF TypeOK, Start
  <2>2. Expand(Root, 0, <<>>) /\ <<>> \in Seq(Frames)
    BY <1>2 DEF Start
  <2>3. Rest3'
    BY <2>2, ExpandTyped, QueryAssumption
  <2> QED BY <1>1, <2>1, <2>3 DEF TypeOK
<1>3. CASE Directive
  <2> DEFINE arg == Head(Top.todo)
             target == Target(Top.owner, arg)
  <2>1. Rest \in Seq(Frames)
    BY <1>3, DirectiveFacts, TopFacts
  <2>2. CASE Found(Top.owner, arg)
    <3>1. /\ resolved' = Append(resolved, [owner |-> Top.owner, arg |-> arg,
                                          target |-> target])
          /\ Expand(target, Top.depth + 1, Rest)
          /\ missing' = missing /\ cancelled' = cancelled /\ pc' = pc
      BY <1>3, <2>2 DEF Directive
    <3>2. [owner |-> Top.owner, arg |-> arg, target |-> target]
            \in [owner : Uris, arg : Args, target : Uris]
      BY <1>3, <2>2, DirectiveFacts
    <3>3. Rest2'
      BY <3>1, <3>2 DEF TypeOK
    <3>4. Rest3'
      BY <1>3, <2>1, <2>2, <3>1, DirectiveFacts, ExpandTyped
    <3> QED BY <1>1, <3>3, <3>4 DEF TypeOK
  <2>3. CASE ~Found(Top.owner, arg)
    <3>1. /\ missing' = Append(missing, [owner |-> Top.owner, arg |-> arg])
          /\ stack' = Rest /\ files' = files /\ visited' = visited
          /\ resolved' = resolved /\ cancelled' = cancelled /\ pc' = pc
      BY <1>3, <2>3 DEF Directive
    <3>2. [owner |-> Top.owner, arg |-> arg] \in [owner : Uris, arg : Args]
      BY <1>3, DirectiveFacts
    <3>3. Rest2' /\ Rest3'
      BY <2>1, <3>1, <3>2 DEF TypeOK
    <3> QED BY <1>1, <3>3 DEF TypeOK
  <2> QED BY <2>2, <2>3
<1>4. CASE Return
  <2>1. /\ Rest2' /\ files' = files /\ visited' = visited
        /\ stack # <<>> /\ stack' = SubSeq(stack, 1, Len(stack) - 1)
    BY <1>4 DEF TypeOK, Return, result
  <2>2. stack' \in Seq(Frames)
    BY <2>1 DEF TypeOK
  <2> QED BY <1>1, <2>1, <2>2 DEF TypeOK
<1>5. CASE Done \/ Cancel \/ UNCHANGED vars
  BY <1>1, <1>5 DEF TypeOK, Done, Cancel, vars, result
<1> QED BY <1>2, <1>3, <1>4, <1>5 DEF Next

LEMMA MembersAppend ==
    ASSUME TypeOK, NEW f, files' = Append(files, f)
    PROVE  Elements(files') = Elements(files) \cup {f} /\ Members' = Members \cup {f.path}
<1>1. Elements(files') = Elements(files) \cup {f}
  BY ElementsAppend DEF TypeOK
<1> QED BY <1>1 DEF Members

LEMMA MembersSame ==
    ASSUME files' = files
    PROVE  Elements(files') = Elements(files) /\ Members' = Members
BY DEF Members, Elements

LEMMA SitsStays ==
    ASSUME [Next]_vars, Members \subseteq Members', NEW frame, Sits(frame)
    PROVE  Sits(frame)'
<1>1. Member(PathOf[frame.owner])' = Member(PathOf[frame.owner])
  BY WorldStays
<1>2. Elements(Member(PathOf[frame.owner]).directives)'
        = Elements(Member(PathOf[frame.owner]).directives)
  BY <1>1 DEF Elements
<1> QED BY <1>2 DEF Sits

LEMMA SitsAt ==
    ASSUME NEW frame, Sits(frame)', NEW k, stack'[k] = frame
    PROVE  Sits(stack[k])'
BY DEF Sits

\* What one call of expand does to the members and the frames.
LEMMA ExpandLinked ==
    ASSUME TypeOK, Linked, [Next]_vars,
           NEW u \in Uris, NEW depth \in Nat, NEW frames \in Seq(Frames),
           \A k \in 1 .. Len(frames) : Sits(frames[k]),
           ApartIn(frames),
           PathOf[u] \in Paths /\ PathOf[u] \notin visited => u = Name(PathOf[u]),
           files = <<>> => u = Root,
           Expand(u, depth, frames)
    PROVE  Visits' /\ RootFirst' /\ Named' /\ Framed' /\ Apart'
<1>1. CASE stack' = frames /\ files' = files /\ visited' = visited
  <2>1. Elements(files') = Elements(files) /\ Members' = Members
    BY <1>1, MembersSame
  <2>2. Visits' /\ RootFirst'
    BY <1>1, <2>1 DEF Linked, Visits, RootFirst
  <2>3. Named'
    BY <2>1, WorldStays DEF Linked, Named
  <2>4. Framed'
    BY <1>1, <2>1, SitsStays DEF Framed
  <2>5. Apart'
    BY <1>1 DEF Apart, ApartIn
  <2> QED BY <2>2, <2>3, <2>4, <2>5
<1>2. CASE /\ PathOf[u] \in Paths /\ PathOf[u] \notin visited /\ Loads(u)
           /\ File(u) \in FileRecords
           /\ visited' = visited \cup {PathOf[u]}
           /\ files' = Append(files, File(u))
           /\ \/ stack' = Append(frames, Frame(File(u), depth))
              \/ stack' = frames
  <2>f. PICK f : f = File(u)
    OBVIOUS
  <2>g. PICK g : g = Frame(f, depth)
    OBVIOUS
  <2>1. f.path = PathOf[u] /\ f.uri = u /\ u = Name(PathOf[u]) /\ f = Member(PathOf[u])
    BY <1>2, <2>f, FileTyped DEF Member
  <2>2. Elements(files') = Elements(files) \cup {f} /\ Members' = Members \cup {PathOf[u]}
    BY <1>2, <2>f, <2>1, MembersAppend
  <2>3. Visits'
    BY <1>2, <2>2 DEF Linked, Visits
  <2>4. RootFirst'
    BY <2>2 DEF Linked, RootFirst
  <2>5. Named'
    <3>1. PathOf[u] \in Readable
      BY <1>2, <2>1 DEF Readable
    <3> QED BY <2>1, <2>2, <3>1, WorldStays DEF Linked, Named
  <2>6. \A k \in 1 .. Len(frames) : Sits(frames[k])'
    BY <2>2, SitsStays
  <2>7. Sits(g)'
    <3>1. g.owner = u /\ g.todo = f.directives
      BY <2>1, <2>g DEF Frame
    <3>2. Member(PathOf[u])' = f
      BY <2>1, WorldStays
    <3>3. Elements(g.todo) = Elements(Member(PathOf[u]).directives)'
      BY <3>1, <3>2 DEF Elements
    <3> QED BY <2>1, <2>2, <3>1, <3>3 DEF Sits
  <2>8. \A k \in 1 .. Len(frames) : PathOf[frames[k].owner] \in Members
    BY DEF Sits
  <2>9. PathOf[u] \notin Members
    BY <1>2 DEF Linked, Visits
  <2>10. CASE stack' = frames
    BY <2>3, <2>4, <2>5, <2>6, <2>10 DEF Framed, Apart, ApartIn
  <2>11. CASE stack' = Append(frames, g)
    <3>1. /\ Len(stack') = Len(frames) + 1
          /\ \A i \in 1 .. Len(frames) : stack'[i] = frames[i]
          /\ stack'[Len(frames) + 1] = g
          /\ Len(frames) \in Nat
      BY <2>11, AppendAny
    <3>2. g.owner = u
      BY <2>1, <2>g DEF Frame
    <3>3. Framed'
      <4>1. ASSUME NEW k \in 1 .. Len(stack') PROVE Sits(stack[k])'
        <5>1. CASE k \in 1 .. Len(frames)
          <6>1. stack'[k] = frames[k]
            BY <3>1, <5>1
          <6>2. PICK frame : frame = frames[k]
            OBVIOUS
          <6>3. Sits(frame)'
            BY <2>2, <5>1, <6>2, SitsStays
          <6> QED BY <6>1, <6>2, <6>3, SitsAt
        <5>2. CASE k = Len(frames) + 1
          BY <2>7, <3>1, <5>2, SitsAt
        <5> QED BY <3>1, <5>1, <5>2
      <4> QED BY <4>1 DEF Framed
    <3>4. Apart'
      <4>1. ASSUME NEW j \in 1 .. Len(stack'), NEW k \in 1 .. Len(stack'),
                   PathOf[stack'[j].owner] = PathOf[stack'[k].owner]
            PROVE  j = k
        <5>1. CASE j \in 1 .. Len(frames) /\ k \in 1 .. Len(frames)
          BY <3>1, <4>1, <5>1 DEF ApartIn
        <5>2. CASE j = Len(frames) + 1 \/ k = Len(frames) + 1
          BY <2>8, <2>9, <3>1, <3>2, <4>1, <5>2
        <5> QED BY <3>1, <5>1, <5>2
      <4> QED BY <4>1 DEF Apart, ApartIn
    <3> QED BY <2>3, <2>4, <2>5, <3>3, <3>4
  <2> QED BY <1>2, <2>f, <2>g, <2>10, <2>11
<1> QED BY <1>1, <1>2, ExpandOutcome

LEMMA RestSits ==
    ASSUME TypeOK, Linked, stack # <<>>, Top.todo # <<>>
    PROVE  (\A k \in 1 .. Len(Rest) : Sits(Rest[k])) /\ ApartIn(Rest)
<1>1. Sits(Top) /\ Top.todo \in Contents
  BY TopFacts DEF Linked, Framed, Frames
<1>2. Elements(Tail(Top.todo)) \subseteq Elements(Top.todo)
  BY <1>1, ContentsAreSeqs
<1>3. Sits(Advance(Top))
  BY <1>1, <1>2, TopFacts DEF Sits
<1>4. \A k \in 1 .. Len(stack) : Sits(Rest[k]) /\ Rest[k].owner = stack[k].owner
  BY <1>3, TopFacts DEF Linked, Framed
<1>5. Len(Rest) = Len(stack)
  BY TopFacts
<1> QED BY <1>4, <1>5 DEF Linked, Apart, ApartIn

LEMMA InitLinked == Init => TypeOK /\ Linked
<1> SUFFICES ASSUME Init PROVE TypeOK /\ Linked
  OBVIOUS
<1>1. TypeOK
  <2>1. /\ present \subseteq Paths
        /\ onDisk \in [present \ Scripts -> Contents]
        /\ inEditor \in [Open -> Contents]
    BY DataAssumption DEF Init
  <2>2. /\ stack \in Seq(Frames) /\ files \in Seq(FileRecords)
        /\ resolved \in Seq([owner : Uris, arg : Args, target : Uris])
        /\ missing \in Seq([owner : Uris, arg : Args])
        /\ visited \subseteq Paths /\ pc \in {"start", "run", "done"}
    BY DEF Init
  <2>3. cancelled \in BOOLEAN
    BY Zenon DEF Init
  <2> QED BY <2>1, <2>2, <2>3 DEF TypeOK
<1>2. Elements(<<>>) = {} /\ Len(<<>>) = 0
  BY NoDirectives
<1>3. files = <<>> /\ stack = <<>> /\ visited = {} /\ pc = "start"
      /\ resolved = <<>> /\ missing = <<>>
  BY DEF Init
<1> QED BY <1>1, <1>2, <1>3
        DEF Linked, Phase, Visits, RootFirst, Named, Framed, Apart, ApartIn, Members

LEMMA StepLinked ==
    ASSUME TypeOK, Linked, [Next]_vars PROVE Linked'
<1> DEFINE Others == Visits /\ RootFirst /\ Named /\ Framed /\ Apart
<1>1. CASE Start
  <2>1. Expand(Root, 0, <<>>) /\ pc' = "run" /\ <<>> \in Seq(Frames) /\ Len(<<>>) = 0
    BY <1>1 DEF Start
  <2>2. Phase'
    BY <2>1 DEF Phase
  <2>3. PathOf[Root] \in Paths => Root = Name(PathOf[Root])
    BY DEF Name
  <2>4. (\A k \in 1 .. Len(<<>>) : Sits(<<>>[k])) /\ ApartIn(<<>>)
    BY <2>1 DEF ApartIn
  <2>5. Others'
    BY <2>1, <2>3, <2>4, QueryAssumption, ExpandLinked
  <2> QED BY <2>2, <2>5 DEF Linked
<1>2. CASE Directive
  <2>1. pc = "run" /\ pc' = pc
    BY <1>2 DEF Directive
  <2>2. Phase'
    BY <2>1 DEF Phase
  <2>3. Rest \in Seq(Frames)
    BY <1>2, DirectiveFacts, TopFacts
  <2>4. CASE Found(Top.owner, Head(Top.todo))
    <3>1. Expand(Target(Top.owner, Head(Top.todo)), Top.depth + 1, Rest)
      BY <1>2, <2>4 DEF Directive
    <3>2. Others'
      BY <1>2, <2>3, <2>4, <3>1, DirectiveFacts, RestSits, ExpandLinked
    <3> QED BY <2>2, <3>2 DEF Linked
  <2>5. CASE ~Found(Top.owner, Head(Top.todo))
    <3>1. stack' = Rest /\ files' = files /\ visited' = visited
      BY <1>2, <2>5 DEF Directive
    <3>2. Elements(files') = Elements(files) /\ Members' = Members
      BY <3>1, MembersSame
    <3>3. Visits' /\ RootFirst' /\ Named'
      BY <3>1, <3>2, WorldStays DEF Linked, Visits, RootFirst, Named
    <3>4. Framed'
      <4>1. \A k \in 1 .. Len(Rest) : Sits(Rest[k])
        BY <1>2, RestSits, DirectiveFacts
      <4>2. ASSUME NEW k \in 1 .. Len(Rest), NEW frame, frame = Rest[k]
            PROVE  Sits(frame)'
        BY <3>2, <4>1, <4>2, SitsStays
      <4>3. ASSUME NEW k \in 1 .. Len(stack') PROVE Sits(stack[k])'
        <5>1. PICK frame : frame = Rest[k]
          OBVIOUS
        <5> QED BY <3>1, <4>2, <5>1, SitsAt
      <4> QED BY <4>3 DEF Framed
    <3>5. Apart'
      BY <1>2, <3>1, RestSits, DirectiveFacts DEF Apart, ApartIn
    <3> QED BY <2>2, <3>3, <3>4, <3>5 DEF Linked
  <2> QED BY <2>4, <2>5
<1>3. CASE Return
  <2>1. /\ pc = "run" /\ pc' = pc /\ files' = files /\ visited' = visited
        /\ stack # <<>> /\ stack' = SubSeq(stack, 1, Len(stack) - 1)
    BY <1>3 DEF Return, result
  <2>2. /\ Len(stack') = Len(stack) - 1 /\ Len(stack) \in Nat
        /\ \A k \in 1 .. Len(stack') : k \in 1 .. Len(stack) /\ stack'[k] = stack[k]
    <3>1. PICK n \in Nat : n = Len(stack) - 1 /\ n <= Len(stack)
      BY <2>1, TopFacts
    <3>2. stack \in Seq(Frames) /\ stack' = SubSeq(stack, 1, n) /\ Len(stack) = n + 1
      BY <2>1, <3>1, TopFacts DEF TypeOK
    <3> HIDE DEF TypeOK
    <3> QED BY <3>1, <3>2
  <2>3. Elements(files') = Elements(files) /\ Members' = Members
    BY <2>1, MembersSame
  <2>4. Phase' /\ Visits' /\ RootFirst' /\ Named'
    BY <2>1, <2>3, WorldStays DEF Linked, Phase, Visits, RootFirst, Named
  <2>5. Framed'
    <3>1. ASSUME NEW k \in 1 .. Len(stack'), NEW frame, frame = stack[k]
          PROVE  Sits(frame)'
      BY <2>2, <2>3, <3>1, SitsStays DEF Linked, Framed
    <3>2. ASSUME NEW k \in 1 .. Len(stack') PROVE Sits(stack[k])'
      <4>1. PICK frame : frame = stack[k]
        OBVIOUS
      <4> QED BY <2>2, <3>1, <4>1, SitsAt
    <3> QED BY <3>2 DEF Framed
  <2>6. Apart'
    BY <2>2 DEF Linked, Apart, ApartIn
  <2> QED BY <2>4, <2>5, <2>6 DEF Linked
<1>4. CASE Done \/ Cancel \/ UNCHANGED vars
  <2>1. /\ stack' = stack /\ files' = files /\ visited' = visited
        /\ resolved' = resolved /\ missing' = missing
    BY <1>4 DEF Done, Cancel, vars, result
  <2>2. Phase'
    BY <1>4, <2>1 DEF Linked, Phase, Done, Cancel, vars
  <2>3. Elements(files') = Elements(files) /\ Members' = Members
    BY <2>1, MembersSame
  <2>4. Visits' /\ RootFirst' /\ Named'
    BY <2>1, <2>3, WorldStays DEF Linked, Visits, RootFirst, Named
  <2>5. Framed'
    <3>1. ASSUME NEW k \in 1 .. Len(stack), NEW frame, frame = stack[k]
          PROVE  Sits(frame)'
      BY <2>3, <3>1, SitsStays DEF Linked, Framed
    <3> QED BY <2>1, <3>1 DEF Framed
  <2>6. Apart'
    BY <2>1 DEF Linked, Apart, ApartIn
  <2> QED BY <2>2, <2>4, <2>5, <2>6 DEF Linked
<1> QED BY <1>1, <1>2, <1>3, <1>4 DEF Next

\* Every closure's state has its type (resolver.go:25-72).
THEOREM TypeCorrect == Spec => []TypeOK
<1>1. TypeOK /\ Linked /\ [Next]_vars => (TypeOK /\ Linked)'
  BY StepTypeOK, StepLinked
<1> QED BY <1>1, InitLinked, PTL DEF Spec

------------------------------------------------------------------------------
(* Every directive is accounted for *)

\* What is not yet recorded of a member's directives is what its frame still
\* holds; a member without a frame is settled, and only members have entries.
Settled(uri, arg) == Entries(resolved, uri, arg) + Entries(missing, uri, arg)
Balanced(f, arg, frames, settled) ==
    /\ \A k \in 1 .. Len(frames) : frames[k].owner = f.uri =>
         Occurrences(f.directives, arg) = settled + Occurrences(frames[k].todo, arg)
    /\ (\A k \in 1 .. Len(frames) : frames[k].owner # f.uri)
         => Occurrences(f.directives, arg) = settled
Accounted ==
    \A f \in Elements(files), arg \in Args : Balanced(f, arg, stack, Settled(f.uri, arg))
Owned ==
    \A e \in Elements(resolved) \cup Elements(missing) : PathOf[e.owner] \in Members

LEMMA OccurrencesOfNone == ASSUME NEW arg PROVE Occurrences(<<>>, arg) = 0
<1>1. {i \in 1 .. Len(<<>>) : <<>>[i] = arg} = {}
  OBVIOUS
<1> QED BY <1>1, FS_EmptySet DEF Occurrences

\* Taking the first directive takes one occurrence of it.
LEMMA OccurrencesOfTail ==
    ASSUME NEW c \in Contents, c # <<>>, NEW arg
    PROVE  /\ Occurrences(c, arg) \in Nat /\ Occurrences(Tail(c), arg) \in Nat
           /\ Occurrences(c, arg)
                = Occurrences(Tail(c), arg) + (IF Head(c) = arg THEN 1 ELSE 0)
<1>1. PICK n \in Nat : n = Len(c)
  BY ContentsAreSeqs
<1>2. /\ n >= 1 /\ Head(c) = c[1] /\ Len(Tail(c)) = n - 1
      /\ \A i \in 1 .. n - 1 : Tail(c)[i] = c[i + 1]
  BY <1>1, ContentsAreSeqs
<1> DEFINE A == {i \in 1 .. n - 1 : Tail(c)[i] = arg}
           B == {i \in 2 .. n : c[i] = arg}
           C == {i \in 1 .. n : c[i] = arg}
           next == [i \in A |-> i + 1]
<1>3. IsFiniteSet(A) /\ IsFiniteSet(C)
  <2>1. IsFiniteSet(1 .. n - 1) /\ IsFiniteSet(1 .. n)
    BY FS_Interval
  <2>2. A \in SUBSET (1 .. n - 1) /\ C \in SUBSET (1 .. n)
    OBVIOUS
  <2> HIDE DEF A, C
  <2> QED BY <2>1, <2>2, FS_Subset
<1>4. next \in Bijection(A, B)
  <2>1. \A i \in A : i + 1 \in B
    BY <1>2
  <2>2. \A j \in B : j - 1 \in A /\ (j - 1) + 1 = j
    BY <1>2
  <2>3. \A i, j \in A : i + 1 = j + 1 => i = j
    OBVIOUS
  <2>4. next \in [A -> B]
    BY <2>1
  <2>5. \A j \in B : \E i \in A : next[i] = j
    BY <2>2
  <2>6. \A i, j \in A : next[i] = next[j] => i = j
    BY <2>3
  <2> HIDE DEF A, B, next
  <2> QED BY <2>4, <2>5, <2>6 DEF Bijection, Injection, Surjection, IsInjective
<1>5. IsFiniteSet(B) /\ Cardinality(B) = Cardinality(A)
  <2> HIDE DEF A, B, next
  <2> QED BY <1>3, <1>4, FS_Bijection DEF ExistsBijection
<1>6. C = IF Head(c) = arg THEN B \cup {1} ELSE B
  BY <1>2
<1>7. 1 \notin B
  OBVIOUS
<1>8. Occurrences(c, arg) = Cardinality(C) /\ Occurrences(Tail(c), arg) = Cardinality(A)
  BY <1>1, <1>2 DEF Occurrences
<1> HIDE DEF A, B, C
<1>9. Cardinality(C) \in Nat /\ Cardinality(A) \in Nat
  BY <1>3, FS_CardinalityType
<1>10. Cardinality(B \cup {1}) = Cardinality(B) + 1
  BY <1>5, <1>7, FS_AddElement
<1> QED BY <1>5, <1>6, <1>8, <1>9, <1>10

LEMMA EntriesFinite ==
    ASSUME NEW S, NEW s \in Seq(S), NEW owner, NEW arg
    PROVE  /\ IsFiniteSet({i \in 1 .. Len(s) : s[i].owner = owner /\ s[i].arg = arg})
           /\ Entries(s, owner, arg) \in Nat
<1>1. IsFiniteSet(1 .. Len(s))
  BY FS_Interval
<1>2. {i \in 1 .. Len(s) : s[i].owner = owner /\ s[i].arg = arg} \in SUBSET (1 .. Len(s))
  OBVIOUS
<1> QED BY <1>1, <1>2, FS_Subset, FS_CardinalityType DEF Entries

\* Recording an entry counts it for its owner and argument only.
LEMMA EntriesAppend ==
    ASSUME NEW S, NEW s \in Seq(S), NEW e, NEW owner, NEW arg
    PROVE  Entries(Append(s, e), owner, arg)
             = Entries(s, owner, arg)
                 + (IF e.owner = owner /\ e.arg = arg THEN 1 ELSE 0)
<1>1. PICK n \in Nat : n = Len(s)
  OBVIOUS
<1>2. /\ Len(Append(s, e)) = n + 1 /\ Append(s, e)[n + 1] = e
      /\ \A i \in 1 .. n : Append(s, e)[i] = s[i]
  BY <1>1, AppendAny
<1> DEFINE A == {i \in 1 .. n : s[i].owner = owner /\ s[i].arg = arg}
           B == {i \in 1 .. n + 1 : Append(s, e)[i].owner = owner
                                    /\ Append(s, e)[i].arg = arg}
<1>3. B = IF e.owner = owner /\ e.arg = arg THEN A \cup {n + 1} ELSE A
  <2>1. \A i \in 1 .. n : i \in B <=> i \in A
    BY <1>2
  <2>2. n + 1 \in B <=> e.owner = owner /\ e.arg = arg
    BY <1>2
  <2>3. n + 1 \notin A /\ A \subseteq 1 .. n
    OBVIOUS
  <2>4. \A i \in B : i \in 1 .. n \/ i = n + 1
    OBVIOUS
  <2> HIDE DEF A, B
  <2>5. CASE e.owner = owner /\ e.arg = arg
    <3>1. B = A \cup {n + 1}
      BY <2>1, <2>2, <2>3, <2>4, <2>5
    <3> QED BY <2>5, <3>1
  <2>6. CASE ~(e.owner = owner /\ e.arg = arg)
    <3>1. B = A
      BY <2>1, <2>2, <2>3, <2>4, <2>6
    <3> QED BY <2>6, <3>1
  <2> QED BY <2>5, <2>6
<1>4. n + 1 \notin A
  OBVIOUS
<1>5. Entries(s, owner, arg) = Cardinality(A) /\ Entries(Append(s, e), owner, arg) = Cardinality(B)
  BY <1>1, <1>2 DEF Entries
<1>6. IsFiniteSet(A) /\ Cardinality(A) \in Nat
  BY <1>1, <1>5, EntriesFinite
<1> HIDE DEF A, B
<1>7. Cardinality(A \cup {n + 1}) = Cardinality(A) + 1
  BY <1>4, <1>6, FS_AddElement
<1> QED BY <1>3, <1>5, <1>6, <1>7

LEMMA EntriesOfNone ==
    ASSUME NEW S, NEW s \in Seq(S), NEW owner, NEW arg,
           \A e \in Elements(s) : e.owner # owner
    PROVE  Entries(s, owner, arg) = 0
<1>1. {i \in 1 .. Len(s) : s[i].owner = owner /\ s[i].arg = arg} = {}
  BY DEF Elements
<1> QED BY <1>1, FS_EmptySet DEF Entries

\* A member is found under its URI only.
LEMMA MemberFacts ==
    ASSUME TypeOK, Linked, NEW f \in Elements(files)
    PROVE  /\ f \in FileRecords /\ f.path \in Members
           /\ f.uri = Name(f.path) /\ PathOf[f.uri] = f.path
           /\ f.path \in Paths /\ f.path \in Readable
<1>1. f \in FileRecords
  BY DEF TypeOK, Elements
<1>2. f.path \in Members /\ f.path \in Readable /\ f = Member(f.path)
  BY DEF Members, Linked, Named
<1>3. f.path \in Paths
  BY <1>1 DEF FileRecords
<1>4. Member(f.path).uri = Name(f.path)
  BY DEF Member, File
<1> QED BY <1>1, <1>2, <1>3, <1>4, NameFacts

LEMMA OwnedSettled ==
    ASSUME TypeOK, Owned, NEW u, PathOf[u] \notin Members, NEW arg
    PROVE  Settled(u, arg) = 0
<1>1. /\ \A e \in Elements(resolved) : e.owner # u
      /\ \A e \in Elements(missing) : e.owner # u
  BY DEF Owned
<1>2. Entries(resolved, u, arg) = 0 /\ Entries(missing, u, arg) = 0
  BY <1>1, EntriesOfNone DEF TypeOK
<1> QED BY <1>2 DEF Settled

\* One directive moves one occurrence from its frame to the entries.
LEMMA DirectiveMoves ==
    ASSUME TypeOK, Linked, Accounted, Owned, Directive,
           NEW f \in Elements(files), NEW arg \in Args
    PROVE  Balanced(f, arg, Rest, Settled(f.uri, arg)')
<1> DEFINE o == Top.owner
           h == Head(Top.todo)
           n == Len(stack)
           d == IF o = f.uri /\ h = arg THEN 1 ELSE 0
<1>a. PICK old : old = Settled(f.uri, arg)
  OBVIOUS
<1>b. PICK new : new = Settled(f.uri, arg)'
  OBVIOUS
<1>1. /\ Entries(resolved, f.uri, arg) \in Nat /\ Entries(missing, f.uri, arg) \in Nat
  BY EntriesFinite DEF TypeOK
<1>2. new = old + d
  <2>1. CASE Found(o, h)
    <3>1. /\ resolved' = Append(resolved, [owner |-> o, arg |-> h, target |-> Target(o, h)])
          /\ missing' = missing
      BY <2>1 DEF Directive
    <3>2. Entries(resolved, f.uri, arg)' = Entries(resolved, f.uri, arg) + d
      <4>1. Entries(Append(resolved, [owner |-> o, arg |-> h, target |-> Target(o, h)]),
                    f.uri, arg)
              = Entries(resolved, f.uri, arg) + d
        BY EntriesAppend DEF TypeOK
      <4> HIDE DEF d
      <4> QED BY <3>1, <4>1 DEF Entries
    <3>3. Entries(missing, f.uri, arg)' = Entries(missing, f.uri, arg)
      BY <3>1 DEF Entries
    <3> HIDE DEF d
    <3>4. d \in Nat
      BY DEF d
    <3> QED BY <1>1, <1>a, <1>b, <3>2, <3>3, <3>4 DEF Settled
  <2>2. CASE ~Found(o, h)
    <3>1. /\ missing' = Append(missing, [owner |-> o, arg |-> h])
          /\ resolved' = resolved
      BY <2>2 DEF Directive
    <3>2. Entries(missing, f.uri, arg)' = Entries(missing, f.uri, arg) + d
      <4>1. Entries(Append(missing, [owner |-> o, arg |-> h]), f.uri, arg)
              = Entries(missing, f.uri, arg) + d
        BY EntriesAppend DEF TypeOK
      <4> HIDE DEF d
      <4> QED BY <3>1, <4>1 DEF Entries
    <3>3. Entries(resolved, f.uri, arg)' = Entries(resolved, f.uri, arg)
      BY <3>1 DEF Entries
    <3> HIDE DEF d
    <3>4. d \in Nat
      BY DEF d
    <3> QED BY <1>1, <1>a, <1>b, <3>2, <3>3, <3>4 DEF Settled
  <2> QED BY <2>1, <2>2
<1>3. old \in Nat /\ d \in Nat
  BY <1>1, <1>a DEF Settled
<1>4. Balanced(f, arg, stack, old)
  BY <1>a DEF Accounted
<1>5. /\ stack # <<>> /\ Top.todo # <<>>
      /\ n \in Nat /\ n \in 1 .. n /\ Top = stack[n]
      /\ Len(Rest) = n
      /\ \A k \in 1 .. n : k # n => Rest[k] = stack[k]
      /\ Rest[n].owner = o /\ Rest[n].todo = Tail(Top.todo)
  BY DirectiveFacts, TopFacts
<1>6. Top.todo \in Contents
  BY <1>5, TopFacts DEF Frames
<1>7. /\ Occurrences(Tail(Top.todo), arg) \in Nat
      /\ Occurrences(Top.todo, arg)
           = Occurrences(Tail(Top.todo), arg) + (IF h = arg THEN 1 ELSE 0)
  BY <1>5, <1>6, OccurrencesOfTail
<1>8. \A k \in 1 .. n : k # n => stack[k].owner # o
  BY <1>5 DEF Linked, Apart, ApartIn
<1>9. ASSUME o = f.uri PROVE Balanced(f, arg, Rest, new)
  <2>1. Occurrences(f.directives, arg) = old + Occurrences(Top.todo, arg)
    BY <1>4, <1>5, <1>9 DEF Balanced
  <2>2. Occurrences(f.directives, arg) = new + Occurrences(Tail(Top.todo), arg)
    BY <1>2, <1>3, <1>7, <1>9, <2>1
  <2> HIDE DEF d
  <2> QED BY <1>5, <1>8, <1>9, <2>2 DEF Balanced
<1>10. ASSUME o # f.uri PROVE Balanced(f, arg, Rest, new)
  <2>1. new = old
    BY <1>2, <1>3, <1>10
  <2>2. \A k \in 1 .. n : Rest[k].owner = stack[k].owner
    BY <1>5
  <2> HIDE DEF d
  <2> QED BY <1>4, <1>5, <1>10, <2>1, <2>2 DEF Balanced
<1> QED BY <1>b, <1>9, <1>10

\* A call of expand keeps the balance, and gives a new member a frame of all
\* its directives.
LEMMA ExpandBalanced ==
    ASSUME TypeOK, Linked,
           NEW u \in Uris, NEW depth \in Nat, NEW frames \in Seq(Frames),
           \A k \in 1 .. Len(frames) : PathOf[frames[k].owner] \in Members,
           \A f \in Elements(files), arg \in Args :
             Balanced(f, arg, frames, Settled(f.uri, arg)'),
           PathOf[u] \notin Members => \A arg \in Args : Settled(u, arg)' = 0,
           Expand(u, depth, frames)
    PROVE  Accounted'
<1>1. CASE stack' = frames /\ files' = files
  <2>1. \A f : f \in Elements(files)' => f \in Elements(files)
    BY <1>1 DEF Elements
  <2> QED BY <1>1, <2>1 DEF Accounted, Balanced, Settled
<1>2. CASE /\ PathOf[u] \in Paths /\ PathOf[u] \notin visited /\ Loads(u)
           /\ File(u) \in FileRecords
           /\ files' = Append(files, File(u))
           /\ \/ stack' = Append(frames, Frame(File(u), depth))
              \/ stack' = frames /\ File(u).directives = <<>>
  <2>f. PICK f : f = File(u)
    OBVIOUS
  <2>g. PICK g : g = Frame(f, depth)
    OBVIOUS
  <2>1. f.uri = u /\ f \in FileRecords /\ g.owner = u /\ g.todo = f.directives
    BY <1>2, <2>f, <2>g, FileTyped DEF Frame
  <2>2. Elements(files)' = Elements(files) \cup {f}
    BY <1>2, <2>f, MembersAppend DEF Elements
  <2>3. PathOf[u] \notin Members
    BY <1>2 DEF Linked, Visits
  <2>4. \A k \in 1 .. Len(frames) : frames[k].owner # u
    BY <2>3
  <2>5. \A m \in Elements(files) : m.uri # u
    BY <2>3, MemberFacts
  <2>6. \A arg \in Args : Settled(u, arg)' = 0
    BY <2>3
  <2>7. ASSUME NEW m \in Elements(files)', NEW arg \in Args
        PROVE  Balanced(m, arg, stack', Settled(m.uri, arg)')
    <3>n. PICK new : new = Settled(m.uri, arg)'
      OBVIOUS
    <3>1. Occurrences(f.directives, arg) \in Nat
      <4>1. f.directives \in Contents
        BY <2>1 DEF FileRecords
      <4> QED BY <4>1, OccurrencesOfTail, OccurrencesOfNone
    <3>2. CASE stack' = frames /\ f.directives = <<>>
      <4>1. CASE m \in Elements(files)
        BY <3>2, <4>1
      <4>2. CASE m = f
        <5>1. new = 0 /\ Occurrences(f.directives, arg) = 0
          BY <2>1, <2>6, <3>n, <3>2, <4>2, OccurrencesOfNone
        <5>2. Balanced(f, arg, frames, 0)
          BY <2>1, <2>4, <5>1 DEF Balanced
        <5> QED BY <3>2, <3>n, <4>2, <5>1, <5>2
      <4> QED BY <2>2, <4>1, <4>2
    <3>3. CASE stack' = Append(frames, g)
      <4>1. /\ Len(stack') = Len(frames) + 1
            /\ \A i \in 1 .. Len(frames) : stack'[i] = frames[i]
            /\ stack'[Len(frames) + 1] = g
            /\ Len(frames) \in Nat
        BY <3>3, AppendAny
      <4>2. CASE m \in Elements(files)
        <5>1. Balanced(m, arg, frames, new) /\ m.uri # u
          BY <2>5, <3>n, <4>2
        <5>2. \A k \in 1 .. Len(stack') : stack'[k].owner = m.uri => k \in 1 .. Len(frames)
          BY <2>1, <4>1, <5>1
        <5>3. \A k \in 1 .. Len(frames) : k \in 1 .. Len(stack')
          BY <4>1
        <5>4. Balanced(m, arg, stack', new)
          BY <4>1, <5>1, <5>2, <5>3 DEF Balanced
        <5> QED BY <3>n, <5>4
      <4>3. CASE m = f
        <5>1. new = 0
          BY <2>1, <2>6, <3>n, <4>3
        <5>2. \A k \in 1 .. Len(stack') : stack'[k].owner = u => stack'[k] = g
          BY <2>4, <4>1
        <5>3. Len(frames) + 1 \in 1 .. Len(stack')
          BY <4>1
        <5>4. Balanced(f, arg, stack', 0)
          BY <2>1, <3>1, <4>1, <5>2, <5>3 DEF Balanced
        <5> QED BY <3>n, <4>3, <5>1, <5>4
      <4> QED BY <2>2, <4>2, <4>3
    <3> QED BY <1>2, <2>f, <2>g, <3>2, <3>3
  <2> QED BY <2>7 DEF Accounted, Balanced, Settled
<1> QED BY <1>1, <1>2, ExpandOutcome

\* The entries written by a step are of members from before the step.
LEMMA EntriesOfMembers ==
    ASSUME TypeOK, Linked, Owned, [Next]_vars
    PROVE  /\ \A e \in Elements(resolved') \cup Elements(missing') :
                PathOf[e.owner] \in Members
           /\ \A u, arg : PathOf[u] \notin Members => Settled(u, arg)' = 0
<1>1. \A e \in Elements(resolved') \cup Elements(missing') : PathOf[e.owner] \in Members
  <2>1. CASE Directive
    <3>1. PathOf[Top.owner] \in Members
      BY <2>1, DirectiveFacts
    <3>2. CASE Found(Top.owner, Head(Top.todo))
      <4>1. PICK e : /\ e.owner = Top.owner
                     /\ resolved' = Append(resolved, e) /\ missing' = missing
        BY <2>1, <3>2 DEF Directive
      <4>2. Elements(resolved') = Elements(resolved) \cup {e}
        BY <4>1, ElementsAppend DEF TypeOK
      <4> QED BY <3>1, <4>1, <4>2 DEF Owned
    <3>3. CASE ~Found(Top.owner, Head(Top.todo))
      <4>1. PICK e : /\ e.owner = Top.owner
                     /\ missing' = Append(missing, e) /\ resolved' = resolved
        BY <2>1, <3>3 DEF Directive
      <4>2. Elements(missing') = Elements(missing) \cup {e}
        BY <4>1, ElementsAppend DEF TypeOK
      <4> QED BY <3>1, <4>1, <4>2 DEF Owned
    <3> QED BY <3>2, <3>3
  <2>2. CASE Start \/ Return \/ Done \/ Cancel \/ UNCHANGED vars
    <3>1. resolved' = resolved /\ missing' = missing
      BY <2>2 DEF Start, Return, Done, Cancel, vars, result
    <3> QED BY <3>1 DEF Owned
  <2> QED BY <2>1, <2>2 DEF Next
<1>2. ASSUME NEW u, NEW arg, PathOf[u] \notin Members PROVE Settled(u, arg)' = 0
  <2>1. /\ \A e \in Elements(resolved') : e.owner # u
        /\ \A e \in Elements(missing') : e.owner # u
    BY <1>1, <1>2
  <2>2. TypeOK'
    BY StepTypeOK
  <2>3. Entries(resolved', u, arg) = 0 /\ Entries(missing', u, arg) = 0
    BY <2>1, <2>2, EntriesOfNone DEF TypeOK
  <2> QED BY <2>3 DEF Settled, Entries
<1> QED BY <1>1, <1>2

LEMMA MembersGrow ==
    ASSUME TypeOK, Linked, [Next]_vars PROVE Members \subseteq Members'
<1>1. ASSUME NEW u \in Uris, NEW depth \in Nat, NEW frames \in Seq(Frames),
             Expand(u, depth, frames)
      PROVE  Members \subseteq Members'
  BY <1>1, ExpandOutcome, MembersSame, MembersAppend
<1>2. CASE Start
  <2>1. Expand(Root, 0, <<>>) /\ <<>> \in Seq(Frames)
    BY <1>2 DEF Start
  <2> QED BY <1>1, <2>1, QueryAssumption
<1>3. CASE Directive
  <2>1. CASE Found(Top.owner, Head(Top.todo))
    <3>1. Expand(Target(Top.owner, Head(Top.todo)), Top.depth + 1, Rest)
      BY <1>3, <2>1 DEF Directive
    <3>2. Rest \in Seq(Frames)
      BY <1>3, DirectiveFacts, TopFacts
    <3> QED BY <1>1, <1>3, <2>1, <3>1, <3>2, DirectiveFacts
  <2>2. CASE ~Found(Top.owner, Head(Top.todo))
    <3>1. files' = files
      BY <1>3, <2>2 DEF Directive
    <3> QED BY <3>1, MembersSame
  <2> QED BY <2>1, <2>2
<1>4. CASE Return \/ Done \/ Cancel \/ UNCHANGED vars
  <2>1. files' = files
    BY <1>4 DEF Return, Done, Cancel, vars, result
  <2> QED BY <2>1, MembersSame
<1> QED BY <1>2, <1>3, <1>4 DEF Next

LEMMA InitAccounted == Init => Accounted /\ Owned
<1> SUFFICES ASSUME Init PROVE Accounted /\ Owned
  OBVIOUS
<1>1. files = <<>> /\ resolved = <<>> /\ missing = <<>> /\ Elements(<<>>) = {}
  BY NoDirectives DEF Init
<1> QED BY <1>1 DEF Accounted, Owned

LEMMA StepAccounted ==
    ASSUME TypeOK, Linked, Accounted, Owned, [Next]_vars
    PROVE  Accounted' /\ Owned'
<1>1. Owned'
  BY EntriesOfMembers, MembersGrow DEF Owned
<1>2. CASE Start
  <2>1. /\ Expand(Root, 0, <<>>) /\ <<>> \in Seq(Frames) /\ Len(<<>>) = 0
        /\ files = <<>>
    BY <1>2 DEF Start, Linked, Phase
  <2>2. Elements(files) = {}
    BY <2>1, NoDirectives
  <2>3. \A arg \in Args : PathOf[Root] \notin Members => Settled(Root, arg)' = 0
    BY EntriesOfMembers
  <2>4. Accounted'
    <3>1. \A k \in 1 .. Len(<<>>) : PathOf[<<>>[k].owner] \in Members
      BY <2>1
    <3>2. \A f \in Elements(files), arg \in Args :
            Balanced(f, arg, <<>>, Settled(f.uri, arg)')
      BY <2>2
    <3>3. 0 \in Nat /\ Root \in Uris
      BY QueryAssumption
    <3> QED BY <2>1, <2>3, <3>1, <3>2, <3>3, ExpandBalanced
  <2> QED BY <1>1, <2>4
<1>3. CASE Directive
  <2>1. \A f \in Elements(files), arg \in Args :
          Balanced(f, arg, Rest, Settled(f.uri, arg)')
    BY <1>3, DirectiveMoves
  <2>2. CASE Found(Top.owner, Head(Top.todo))
    <3> DEFINE target == Target(Top.owner, Head(Top.todo))
    <3>1. Expand(target, Top.depth + 1, Rest)
      BY <1>3, <2>2 DEF Directive
    <3>2. Rest \in Seq(Frames) /\ Top.depth + 1 \in Nat /\ target \in Uris
      BY <1>3, <2>2, DirectiveFacts, TopFacts
    <3>3. \A k \in 1 .. Len(Rest) : PathOf[Rest[k].owner] \in Members
      BY <1>3, DirectiveFacts, RestSits DEF Sits
    <3>u. PICK u : u = target
      OBVIOUS
    <3>4. PathOf[u] \notin Members => \A arg \in Args : Settled(u, arg)' = 0
      BY EntriesOfMembers
    <3>5. Expand(u, Top.depth + 1, Rest) /\ u \in Uris
      BY <3>1, <3>2, <3>u
    <3> HIDE DEF target
    <3>6. Accounted'
      BY <2>1, <3>2, <3>3, <3>4, <3>5, ExpandBalanced
    <3> QED BY <1>1, <3>6
  <2>3. CASE ~Found(Top.owner, Head(Top.todo))
    <3>1. stack' = Rest /\ files' = files
      BY <1>3, <2>3 DEF Directive
    <3>2. Elements(files)' = Elements(files)
      BY <3>1, MembersSame DEF Elements
    <3>3. Accounted'
      BY <2>1, <3>1, <3>2 DEF Accounted, Balanced, Settled
    <3> QED BY <1>1, <3>3
  <2> QED BY <2>2, <2>3
<1>4. CASE Return
  <2>1. /\ resolved' = resolved /\ missing' = missing /\ files' = files
        /\ stack # <<>> /\ stack' = SubSeq(stack, 1, Len(stack) - 1) /\ Top.todo = <<>>
    BY <1>4 DEF Return, result
  <2>2. PICK n \in Nat : n = Len(stack) - 1 /\ n <= Len(stack)
    BY <2>1, TopFacts
  <2>3. /\ Len(stack') = n /\ Len(stack) = n + 1
        /\ \A k \in 1 .. n : stack'[k] = stack[k]
        /\ Top = stack[n + 1]
    <3>1. stack \in Seq(Frames) /\ stack' = SubSeq(stack, 1, n) /\ Len(stack) = n + 1
      BY <2>1, <2>2, TopFacts DEF TypeOK
    <3>2. Top = stack[n + 1]
      BY <2>1, <3>1, TopFacts
    <3> HIDE DEF TypeOK
    <3> QED BY <2>2, <3>1, <3>2
  <2>4. Elements(files)' = Elements(files)
    BY <2>1, MembersSame DEF Elements
  <2>5. ASSUME NEW f \in Elements(files), NEW arg \in Args
        PROVE  Balanced(f, arg, stack', Settled(f.uri, arg)')
    <3>1. PICK old : old = Settled(f.uri, arg)
      OBVIOUS
    <3>2. Settled(f.uri, arg)' = old
      BY <2>1, <3>1 DEF Settled, Entries
    <3>3. old \in Nat
      <4>1. Entries(resolved, f.uri, arg) \in Nat /\ Entries(missing, f.uri, arg) \in Nat
        BY EntriesFinite DEF TypeOK
      <4> QED BY <3>1, <4>1 DEF Settled
    <3>4. Balanced(f, arg, stack, old)
      BY <3>1 DEF Accounted
    <3>5. Occurrences(Top.todo, arg) = 0
      BY <2>1, OccurrencesOfNone
    <3>6. stack[n + 1].owner = f.uri => Occurrences(f.directives, arg) = old
      BY <2>3, <3>3, <3>4, <3>5 DEF Balanced
    <3>7. Balanced(f, arg, stack', old)
      BY <2>3, <3>4, <3>6 DEF Balanced
    <3> QED BY <3>2, <3>7
  <2> QED BY <1>1, <2>4, <2>5 DEF Accounted, Balanced, Settled
<1>5. CASE Done \/ Cancel \/ UNCHANGED vars
  <2>1. stack' = stack /\ files' = files /\ resolved' = resolved /\ missing' = missing
    BY <1>5 DEF Done, Cancel, vars, result
  <2>2. Accounted'
    <3>1. Elements(files)' = Elements(files)
      BY <2>1 DEF Elements
    <3>2. \A u, arg : Settled(u, arg)' = Settled(u, arg)
      BY <2>1 DEF Settled, Entries
    <3>3. ASSUME NEW f \in Elements(files), NEW arg \in Args
          PROVE  Balanced(f, arg, stack', Settled(f.uri, arg)')
      BY <2>1, <3>2 DEF Accounted
    <3> QED BY <3>1, <3>3 DEF Accounted, Balanced, Settled
  <2> QED BY <1>1, <2>2
<1> QED BY <1>2, <1>3, <1>4, <1>5 DEF Next

\* Every directive of every member ends as one entry of its owner, repeated
\* ones repeatedly, whatever limit or cancellation stops the expansion
\* (expandDirectives, resolver.go:115-153).
THEOREM DirectivesAccountedHolds == Spec => []DirectivesAccounted
<1> DEFINE I == TypeOK /\ Linked /\ Accounted /\ Owned
<1>1. Init => I
  BY InitLinked, InitAccounted
<1>2. I /\ [Next]_vars => I'
  BY StepTypeOK, StepLinked, StepAccounted
<1>3. I => DirectivesAccounted
  <2> SUFFICES ASSUME I, pc = "done", NEW f \in Elements(files), NEW arg \in Args
               PROVE  Occurrences(f.directives, arg) = Settled(f.uri, arg)
    BY DEF DirectivesAccounted, Settled
  <2>1. Len(stack) = 0
    BY DEF Linked, Phase
  <2> QED BY <2>1 DEF Accounted, Balanced
<1> HIDE DEF I
<1> QED BY <1>1, <1>2, <1>3, PTL DEF Spec

------------------------------------------------------------------------------
(* The closure is the reachable set *)

\* No member beyond what any closed set must hold.
Sound == \A S \in SUBSET Readable : Closed(S) => Members \subseteq S

\* The limits cannot bite.
Small == Cardinality(Reachable) <= MaxFiles /\ Cardinality(Reachable) <= MaxDepth + 1

\* Whatever a member includes is a member, or is still in the member's frame.
Pending(q, arg) ==
    \E k \in 1 .. Len(stack) : /\ PathOf[stack[k].owner] = q
                               /\ arg \in Elements(stack[k].todo)
Awaited(q, arg) ==
    Found(Name(q), arg) /\ PathOf[Target(Name(q), arg)] \in Readable
      => PathOf[Target(Name(q), arg)] \in Members \/ Pending(q, arg)
Whole ==
    pc # "start" /\ ~cancelled /\ Small =>
        /\ PathOf[Root] \in Readable => PathOf[Root] \in Members
        /\ \A q \in Members : \A arg \in Elements(Member(q).directives) : Awaited(q, arg)

LEMMA ReferenceStays ==
    ASSUME [Next]_vars
    PROVE  /\ \A o, arg : Found(o, arg)' = Found(o, arg) /\ Target(o, arg)' = Target(o, arg)
           /\ \A q : Elements(Member(q).directives)' = Elements(Member(q).directives)
           /\ \A S : Closed(S)' = Closed(S)
           /\ Reachable' = Reachable
<1>1. present' = present
  BY WorldStays DEF world
<1>2. \A o, arg : Hits(o, arg)' = Hits(o, arg)
  BY <1>1 DEF Hits
<1>3. \A o, arg : Found(o, arg)' = Found(o, arg) /\ Target(o, arg)' = Target(o, arg)
  BY <1>2 DEF Found, Target
<1>4. \A q : Elements(Member(q).directives)' = Elements(Member(q).directives)
  BY WorldStays DEF Elements
<1>5. ASSUME NEW q PROVE Includes(q)' = Includes(q)
  BY <1>3, <1>4 DEF Includes
<1>6. \A S : Closed(S)' = Closed(S)
  BY <1>5, WorldStays DEF Closed
<1>7. Reachable' = Reachable
  BY <1>6, WorldStays DEF Reachable
<1> QED BY <1>3, <1>4, <1>6, <1>7

LEMMA MembersReachable ==
    ASSUME TypeOK, Linked, Sound
    PROVE  /\ Members \subseteq Readable /\ Members \subseteq Reachable
           /\ IsFiniteSet(Reachable)
<1>1. Members \subseteq Readable
  BY MemberFacts DEF Members
<1>2. Members \subseteq Reachable
  BY <1>1 DEF Sound, Reachable
<1>3. Reachable \in SUBSET Paths
  BY DEF Reachable, Readable
<1> QED BY <1>1, <1>2, <1>3, DataAssumption, FS_Subset

\* What a reachable file includes and can be read is reachable.
LEMMA ReachableIncludes ==
    ASSUME NEW q \in Reachable, NEW arg \in Elements(Member(q).directives),
           Found(Name(q), arg), PathOf[Target(Name(q), arg)] \in Readable
    PROVE  /\ PathOf[Target(Name(q), arg)] \in Includes(q)
           /\ PathOf[Target(Name(q), arg)] \in Reachable
<1>1. PathOf[Target(Name(q), arg)] \in Includes(q)
  BY DEF Includes
<1> QED BY <1>1 DEF Reachable, Closed

\* There are as many members as files, and no more frames than members.
LEMMA MembersCounted ==
    ASSUME TypeOK, Linked, FilesOnce, IsFiniteSet(Members)
    PROVE  /\ Cardinality(Members) \in Nat
           /\ Len(files) <= Cardinality(Members)
           /\ Len(stack) <= Cardinality(Members)
<1>1. ASSUME NEW n \in Nat, NEW place \in Injection(1 .. n, Members)
      PROVE  n <= Cardinality(Members)
  <2>1. Cardinality(1 .. n) = n
    BY FS_Interval
  <2> QED BY <2>1, <1>1, FS_Injection
<1>2. Len(files) <= Cardinality(Members)
  <2>1. Len(files) \in Nat
    BY DEF TypeOK
  <2> DEFINE place == [i \in 1 .. Len(files) |-> files[i].path]
  <2>2. place \in [1 .. Len(files) -> Members]
    BY DEF Members, Elements
  <2>3. \A i, j \in 1 .. Len(files) : place[i] = place[j] => i = j
    BY DEF FilesOnce
  <2> HIDE DEF place
  <2>4. place \in Injection(1 .. Len(files), Members)
    BY <2>2, <2>3 DEF Injection, IsInjective
  <2> QED BY <1>1, <2>1, <2>4
<1>3. Len(stack) <= Cardinality(Members)
  <2>1. Len(stack) \in Nat
    BY DEF TypeOK
  <2> DEFINE place == [k \in 1 .. Len(stack) |-> PathOf[stack[k].owner]]
  <2>2. place \in [1 .. Len(stack) -> Members]
    BY DEF Linked, Framed, Sits
  <2>3. \A j, k \in 1 .. Len(stack) : place[j] = place[k] => j = k
    BY DEF Linked, Apart, ApartIn
  <2> HIDE DEF place
  <2>4. place \in Injection(1 .. Len(stack), Members)
    BY <2>2, <2>3 DEF Injection, IsInjective
  <2> QED BY <1>1, <2>1, <2>4
<1> QED BY <1>2, <1>3, FS_CardinalityType

\* When no limit can bite, a call of expand on a reachable file leaves it a
\* member: were it refused for a limit, every reachable file would be one.
LEMMA ExpandEnters ==
    ASSUME TypeOK, Linked, FilesOnce, Sound, Small, ~cancelled,
           NEW u \in Uris, NEW depth \in Nat, depth = Len(stack),
           NEW frames \in Seq(Frames),
           PathOf[u] \in Reachable,
           PathOf[u] \notin visited => u = Name(PathOf[u]),
           Expand(u, depth, frames)
    PROVE  PathOf[u] \in Members'
<1>1. /\ Members \subseteq Reachable /\ IsFiniteSet(Reachable) /\ IsFiniteSet(Members)
      /\ Cardinality(Reachable) \in Nat
  BY MembersReachable, FS_Subset, FS_CardinalityType
<1>2. /\ Cardinality(Members) \in Nat
      /\ Len(files) <= Cardinality(Members) /\ Len(stack) <= Cardinality(Members)
      /\ Cardinality(Members) <= Cardinality(Reachable)
      /\ Cardinality(Members) = Cardinality(Reachable) => Members = Reachable
  BY <1>1, MembersCounted, FS_Subset
<1>3. PathOf[u] \in Paths /\ PathOf[u] \in Readable
  BY DEF Reachable, Readable
<1>4. CASE Refused(u, depth)
  <2>1. files' = files
    BY <1>4 DEF Expand
  <2>2. Members' = Members
    BY <2>1, MembersSame
  <2>3. Len(files) \in Nat
    BY DEF TypeOK
  <2>4. CASE depth > MaxDepth \/ Len(files) >= MaxFiles
    <3>1. Cardinality(Members) = Cardinality(Reachable)
      BY <1>1, <1>2, <2>3, <2>4, LimitsAssumption DEF Small
    <3> QED BY <1>2, <2>2, <3>1
  <2>5. CASE PathOf[u] \in visited
    BY <2>2, <2>5 DEF Linked, Visits
  <2>6. CASE ~Loads(u)
    BY <1>3, <2>5, <2>6 DEF Readable
  <2>7. PathOf[u] # NoPath
    BY <1>3, DataAssumption
  <2> QED BY <1>4, <2>4, <2>5, <2>6, <2>7 DEF Refused
<1>5. CASE files' = Append(files, File(u))
  <2>1. File(u).path = PathOf[u]
    BY DEF File
  <2> QED BY <1>5, <2>1, MembersAppend
<1> QED BY <1>4, <1>5 DEF Expand

LEMMA ExpandMembers ==
    ASSUME TypeOK, NEW u \in Uris, NEW depth \in Nat, NEW frames \in Seq(Frames),
           Expand(u, depth, frames)
    PROVE  Members' \subseteq Members \cup {PathOf[u]}
<1>1. File(u).path = PathOf[u]
  BY DEF File
<1> QED BY <1>1, ExpandOutcome, MembersSame, MembersAppend

\* The directive at hand is one its owner includes by.
LEMMA DirectiveIncludes ==
    ASSUME TypeOK, Linked, Directive, Found(Top.owner, Head(Top.todo))
    PROVE  LET q == PathOf[Top.owner]
               p == PathOf[Target(Top.owner, Head(Top.todo))]
           IN  /\ q \in Members
               /\ Head(Top.todo) \in Elements(Member(q).directives)
               /\ Found(Name(q), Head(Top.todo))
               /\ p = PathOf[Target(Name(q), Head(Top.todo))]
               /\ p \in Includes(q)
<1> DEFINE q == PathOf[Top.owner]
           h == Head(Top.todo)
<1>1. q \in Members /\ Top.owner = Name(q) /\ h \in Elements(Member(q).directives)
  BY DirectiveFacts
<1> HIDE DEF q, h
<1>2. Found(Name(q), h)
  BY <1>1 DEF h
<1>3. PathOf[Target(Name(q), h)] \in Includes(q)
  BY <1>1, <1>2 DEF Includes
<1> QED BY <1>1, <1>2, <1>3 DEF q, h

LEMMA StepSound ==
    ASSUME TypeOK, Linked, Sound, [Next]_vars PROVE Sound'
<1>1. TypeOK' /\ Linked'
  BY StepTypeOK, StepLinked
<1>2. Members' \subseteq Readable
  <2>1. ASSUME NEW f \in Elements(files)' PROVE f.path \in Readable'
    BY <1>1, <2>1 DEF Linked, Named
  <2>2. ASSUME NEW p \in Members' PROVE \E f \in Elements(files)' : p = f.path
    BY DEF Members
  <2> QED BY <2>1, <2>2, WorldStays
<1>3. ASSUME NEW S \in SUBSET Readable, Closed(S) PROVE Members' \subseteq S
  <2>1. Members \subseteq S
    BY <1>3 DEF Sound
  <2>2. CASE Start
    <3>1. Expand(Root, 0, <<>>) /\ <<>> \in Seq(Frames)
      BY <2>2 DEF Start
    <3>2. Members' \subseteq Members \cup {PathOf[Root]}
      BY <3>1, ExpandMembers, QueryAssumption
    <3>3. PathOf[Root] \in Readable => PathOf[Root] \in S
      BY <1>3 DEF Closed
    <3> QED BY <1>2, <2>1, <3>2, <3>3
  <2>3. CASE Directive
    <3>1. CASE Found(Top.owner, Head(Top.todo))
      <4>1. Expand(Target(Top.owner, Head(Top.todo)), Top.depth + 1, Rest)
        BY <2>3, <3>1 DEF Directive
      <4>2. Rest \in Seq(Frames)
        BY <2>3, DirectiveFacts, TopFacts
      <4>3. Members' \subseteq
              Members \cup {PathOf[Target(Top.owner, Head(Top.todo))]}
        BY <2>3, <3>1, <4>1, <4>2, DirectiveFacts, ExpandMembers
      <4>4. /\ PathOf[Top.owner] \in Members
            /\ PathOf[Target(Top.owner, Head(Top.todo))] \in Includes(PathOf[Top.owner])
        BY <2>3, <3>1, DirectiveIncludes
      <4>5. Includes(PathOf[Top.owner]) \cap Readable \subseteq S
        BY <1>3, <2>1, <4>4 DEF Closed
      <4> QED BY <1>2, <2>1, <4>3, <4>4, <4>5
    <3>2. CASE ~Found(Top.owner, Head(Top.todo))
      <4>1. files' = files
        BY <2>3, <3>2 DEF Directive
      <4> QED BY <2>1, <4>1, MembersSame
    <3> QED BY <3>1, <3>2
  <2>4. CASE Return \/ Done \/ Cancel \/ UNCHANGED vars
    <3>1. files' = files
      BY <2>4 DEF Return, Done, Cancel, vars, result
    <3> QED BY <2>1, <3>1, MembersSame
  <2> QED BY <2>2, <2>3, <2>4 DEF Next
<1>4. ASSUME NEW S \in SUBSET Readable', Closed(S)' PROVE Members' \subseteq S
  BY <1>3, <1>4, WorldStays, ReferenceStays
<1> QED BY <1>4 DEF Sound

\* A pending directive stays pending while its frame keeps its place.
LEMMA PendingStays ==
    ASSUME NEW q, NEW arg, NEW frames, NEW k \in 1 .. Len(frames),
           PathOf[frames[k].owner] = q, arg \in Elements(frames[k].todo),
           k \in 1 .. Len(stack'), stack'[k] = frames[k]
    PROVE  Pending(q, arg)'
BY DEF Pending, Elements

\* A call of expand leaves nothing unaccounted that was pending in the frames
\* below it, and makes all of a new member's directives pending.
LEMMA ExpandPending ==
    ASSUME TypeOK, Linked, [Next]_vars,
           NEW u \in Uris, NEW depth \in Nat, NEW frames \in Seq(Frames),
           PathOf[u] \in Paths /\ PathOf[u] \notin visited => u = Name(PathOf[u]),
           Expand(u, depth, frames)
    PROVE  /\ \A k \in 1 .. Len(frames) : k \in 1 .. Len(stack') /\ stack'[k] = frames[k]
           /\ \A q \in Members' : q \notin Members =>
                \A arg \in Elements(Member(q).directives) : Pending(q, arg)'
<1>1. CASE stack' = frames /\ files' = files
  BY <1>1, MembersSame
<1>2. CASE /\ PathOf[u] \in Paths /\ PathOf[u] \notin visited /\ Loads(u)
           /\ files' = Append(files, File(u))
           /\ \/ stack' = Append(frames, Frame(File(u), depth))
              \/ stack' = frames /\ File(u).directives = <<>>
  <2>f. PICK f : f = File(u)
    OBVIOUS
  <2>g. PICK g : g = Frame(f, depth)
    OBVIOUS
  <2>1. /\ f.path = PathOf[u] /\ f = Member(PathOf[u])
        /\ g.owner = u /\ g.todo = f.directives
    BY <1>2, <2>f, <2>g DEF Member, File, Frame
  <2>2. Members' \subseteq Members \cup {PathOf[u]}
    BY ExpandMembers
  <2>3. CASE stack' = frames /\ f.directives = <<>>
    BY <2>1, <2>2, <2>3, NoDirectives
  <2>4. CASE stack' = Append(frames, g)
    <3>1. /\ Len(stack') = Len(frames) + 1
          /\ \A i \in 1 .. Len(frames) : stack'[i] = frames[i]
          /\ stack'[Len(frames) + 1] = g
          /\ Len(frames) \in Nat
      BY <2>4, AppendAny
    <3>2. Len(frames) + 1 \in 1 .. Len(stack')
      BY <3>1
    <3>3. ASSUME NEW arg \in Elements(f.directives) PROVE Pending(PathOf[u], arg)'
      BY <2>1, <3>1, <3>2 DEF Pending, Elements
    <3> QED BY <2>1, <2>2, <3>1, <3>3
  <2> QED BY <1>2, <2>f, <2>g, <2>3, <2>4
<1> QED BY <1>1, <1>2, ExpandOutcome

LEMMA StepWhole ==
    ASSUME TypeOK, Linked, IInv, Sound, Whole, [Next]_vars PROVE Whole'
<1> SUFFICES ASSUME pc' # "start", ~cancelled', Small
             PROVE  /\ PathOf[Root] \in Readable => PathOf[Root] \in Members'
                    /\ \A q \in Members' :
                         \A arg \in Elements(Member(q).directives) :
                           /\ Found(Name(q), arg)
                           /\ PathOf[Target(Name(q), arg)] \in Readable
                           => \/ PathOf[Target(Name(q), arg)] \in Members'
                              \/ Pending(q, arg)'
  <2>1. Small' = Small
    BY ReferenceStays DEF Small
  <2>2. Readable' = Readable
    BY WorldStays
  <2> HIDE DEF Small
  <2> QED BY <2>1, <2>2, ReferenceStays DEF Whole, Awaited
<1>1. ~cancelled
  BY DEF Next, Start, Directive, Return, Done, Cancel, vars
<1>2. FilesOnce
  BY DEF IInv
<1>3. Members \subseteq Members'
  BY MembersGrow
<1>4. ASSUME pc # "start"
      PROVE  /\ PathOf[Root] \in Readable => PathOf[Root] \in Members'
             /\ \A q \in Members : \A arg \in Elements(Member(q).directives) :
                  Awaited(q, arg)
  BY <1>1, <1>3, <1>4 DEF Whole
<1>5. CASE Start
  <2>1. /\ Expand(Root, 0, <<>>) /\ <<>> \in Seq(Frames) /\ Len(<<>>) = 0
        /\ files = <<>> /\ stack = <<>>
    BY <1>5 DEF Start, Linked, Phase
  <2>2. PathOf[Root] \in Readable => PathOf[Root] \in Reachable
    BY DEF Reachable, Closed
  <2>3. ASSUME PathOf[Root] \in Readable PROVE PathOf[Root] \in Members'
    <3>1. Root = Name(PathOf[Root]) /\ Root \in Uris /\ 0 \in Nat /\ 0 = Len(stack)
      BY <2>1, QueryAssumption DEF Name
    <3> QED BY <1>1, <1>2, <2>1, <2>2, <2>3, <3>1, ExpandEnters
  <2>4. Members = {}
    BY <2>1, NoDirectives DEF Members
  <2>5. \A q \in Members' : \A arg \in Elements(Member(q).directives) : Pending(q, arg)'
    <3>1. Root = Name(PathOf[Root]) /\ Root \in Uris /\ 0 \in Nat
      BY QueryAssumption DEF Name
    <3> QED BY <2>1, <2>4, <3>1, ExpandPending
  <2> QED BY <2>3, <2>5
<1>6. CASE Directive
  <2> DEFINE h == Head(Top.todo)
             n == Len(stack)
  <2>0. pc # "start"
    BY <1>6 DEF Directive
  <2>1. /\ stack # <<>> /\ Top.todo # <<>> /\ Rest \in Seq(Frames)
        /\ n \in Nat /\ Top = stack[n] /\ Len(Rest) = n
        /\ \A k \in 1 .. n : k # n => Rest[k] = stack[k]
        /\ Rest[n].owner = Top.owner /\ Rest[n].todo = Tail(Top.todo)
    BY <1>6, DirectiveFacts, TopFacts
  <2>2. Elements(Top.todo) = {h} \cup Elements(Tail(Top.todo))
    <3>1. Top.todo \in Contents
      BY <2>1, TopFacts DEF Frames
    <3> QED BY <2>1, <3>1, ContentsAreSeqs
  <2>3. ASSUME NEW q, NEW arg, Pending(q, arg), ~(q = PathOf[Top.owner] /\ arg = h)
        PROVE  \E k \in 1 .. Len(Rest) : /\ PathOf[Rest[k].owner] = q
                                         /\ arg \in Elements(Rest[k].todo)
    <3>1. PICK k \in 1 .. n : /\ PathOf[stack[k].owner] = q
                              /\ arg \in Elements(stack[k].todo)
      BY <2>3 DEF Pending
    <3>2. CASE k = n
      BY <2>1, <2>2, <2>3, <3>1, <3>2
    <3>3. CASE k # n
      BY <2>1, <3>1, <3>3
    <3> QED BY <3>2, <3>3
  <2>4. CASE Found(Top.owner, h)
    <3>t. PICK t : t = Target(Top.owner, h)
      OBVIOUS
    <3>1. Expand(t, Top.depth + 1, Rest)
      BY <1>6, <2>4, <3>t DEF Directive
    <3>2. /\ t \in Uris /\ PathOf[t] \in Paths /\ Top.depth + 1 \in Nat
          /\ PathOf[t] \notin visited => t = Name(PathOf[t])
      BY <1>6, <2>4, <3>t, DirectiveFacts
    <3>3. /\ PathOf[Top.owner] \in Members
          /\ h \in Elements(Member(PathOf[Top.owner]).directives)
          /\ Found(Name(PathOf[Top.owner]), h)
          /\ PathOf[t] = PathOf[Target(Name(PathOf[Top.owner]), h)]
      BY <1>6, <2>4, <3>t, DirectiveIncludes
    <3>4. Top.depth + 1 = Len(stack)
      BY <2>1, RestKeeps
    <3>5. ASSUME PathOf[t] \in Readable PROVE PathOf[t] \in Members'
      <4>1. PathOf[t] \in Reachable
        BY <3>3, <3>5, MembersReachable, ReachableIncludes
      <4> QED BY <1>1, <1>2, <2>1, <3>1, <3>2, <3>4, <4>1, ExpandEnters
    <3>6. /\ \A k \in 1 .. Len(Rest) : k \in 1 .. Len(stack') /\ stack'[k] = Rest[k]
          /\ \A q \in Members' : q \notin Members =>
               \A arg \in Elements(Member(q).directives) : Pending(q, arg)'
      BY <2>1, <3>1, <3>2, ExpandPending
    <3>7. ASSUME NEW q \in Members', NEW arg \in Elements(Member(q).directives),
                 Found(Name(q), arg), PathOf[Target(Name(q), arg)] \in Readable,
                 q \in Members
          PROVE  PathOf[Target(Name(q), arg)] \in Members' \/ Pending(q, arg)'
      <4>1. PathOf[Target(Name(q), arg)] \in Members \/ Pending(q, arg)
        BY <1>4, <2>0, <3>7 DEF Awaited
      <4>2. CASE PathOf[Target(Name(q), arg)] \in Members
        BY <1>3, <4>2
      <4>3. CASE q = PathOf[Top.owner] /\ arg = h
        BY <3>3, <3>5, <3>7, <4>3
      <4>4. CASE Pending(q, arg) /\ ~(q = PathOf[Top.owner] /\ arg = h)
        <5>1. PICK k \in 1 .. Len(Rest) : /\ PathOf[Rest[k].owner] = q
                                          /\ arg \in Elements(Rest[k].todo)
          BY <2>3, <4>4
        <5>2. PICK frames : frames = Rest
          OBVIOUS
        <5>3. Pending(q, arg)'
          BY <3>6, <5>1, <5>2, PendingStays
        <5> QED BY <5>3
      <4> QED BY <4>1, <4>2, <4>3, <4>4
    <3> QED BY <1>4, <2>0, <3>6, <3>7
  <2>5. CASE ~Found(Top.owner, h)
    <3>1. stack' = Rest /\ files' = files
      BY <1>6, <2>5 DEF Directive
    <3>2. Members' = Members
      BY <3>1, MembersSame
    <3>3. Top.owner = Name(PathOf[Top.owner])
      BY <1>6, DirectiveFacts
    <3>4. ASSUME NEW q \in Members, NEW arg \in Elements(Member(q).directives),
                 Found(Name(q), arg), PathOf[Target(Name(q), arg)] \in Readable
          PROVE  PathOf[Target(Name(q), arg)] \in Members \/ Pending(q, arg)'
      <4>1. PathOf[Target(Name(q), arg)] \in Members \/ Pending(q, arg)
        BY <1>4, <2>0, <3>4 DEF Awaited
      <4>2. ~(q = PathOf[Top.owner] /\ arg = h)
        BY <2>5, <3>3, <3>4
      <4>3. ASSUME Pending(q, arg) PROVE Pending(q, arg)'
        <5>1. PICK k \in 1 .. Len(Rest) : /\ PathOf[Rest[k].owner] = q
                                          /\ arg \in Elements(Rest[k].todo)
          BY <2>3, <4>2, <4>3
        <5>2. PICK frames : frames = Rest
          OBVIOUS
        <5> QED BY <3>1, <5>1, <5>2, PendingStays
      <4> QED BY <4>1, <4>3
    <3> QED BY <1>4, <2>0, <3>2, <3>4
  <2> QED BY <2>4, <2>5
<1>7. CASE Return
  <2>1. /\ files' = files /\ stack # <<>> /\ Top.todo = <<>> /\ pc # "start"
        /\ stack' = SubSeq(stack, 1, Len(stack) - 1)
    BY <1>7 DEF Return, result
  <2>2. PICK n \in Nat : n = Len(stack) - 1 /\ n <= Len(stack)
    BY <2>1, TopFacts
  <2>3. /\ Len(stack') = n /\ Len(stack) = n + 1
        /\ \A k \in 1 .. n : stack'[k] = stack[k]
        /\ Top = stack[n + 1]
    <3>1. stack \in Seq(Frames) /\ stack' = SubSeq(stack, 1, n) /\ Len(stack) = n + 1
      BY <2>1, <2>2, TopFacts DEF TypeOK
    <3>2. Top = stack[n + 1]
      BY <2>1, <3>1, TopFacts
    <3> HIDE DEF TypeOK
    <3> QED BY <2>2, <3>1, <3>2
  <2>4. Members' = Members
    BY <2>1, MembersSame
  <2>5. ASSUME NEW q, NEW arg, Pending(q, arg) PROVE Pending(q, arg)'
    <3>1. PICK k \in 1 .. n + 1 : /\ PathOf[stack[k].owner] = q
                                  /\ arg \in Elements(stack[k].todo)
      BY <2>3, <2>5 DEF Pending
    <3>2. k # n + 1
      BY <2>1, <2>3, <3>1, NoDirectives
    <3>3. PICK frames : frames = stack
      OBVIOUS
    <3>4. k \in 1 .. n /\ k \in 1 .. Len(frames)
      BY <2>3, <3>2, <3>3
    <3> QED BY <2>3, <3>1, <3>3, <3>4, PendingStays
  <2> QED BY <1>4, <2>1, <2>4, <2>5 DEF Awaited
<1>8. CASE Done \/ Cancel \/ UNCHANGED vars
  <2>1. files' = files /\ stack' = stack /\ pc # "start"
    BY <1>8 DEF Done, Cancel, vars, result
  <2>2. Members' = Members /\ \A q, arg : Pending(q, arg)' = Pending(q, arg)
    BY <2>1, MembersSame DEF Pending, Elements
  <2> QED BY <1>4, <2>1, <2>2 DEF Awaited
<1> QED BY <1>5, <1>6, <1>7, <1>8 DEF Next

\* When no limit can bite and nobody cancels, the closure is exactly what the
\* document can reach, cycles and diamonds included (expand, resolver.go:79-153).
THEOREM CompleteHolds == Spec => []Complete
<1> DEFINE I == TypeOK /\ Linked /\ IInv /\ Sound /\ Whole
<1>1. Init => I
  <2> SUFFICES ASSUME Init PROVE Sound /\ Whole
    BY InitLinked, InitIInv
  <2>1. files = <<>> /\ pc = "start" /\ Elements(<<>>) = {}
    BY NoDirectives DEF Init
  <2> QED BY <2>1 DEF Sound, Whole, Members
<1>2. I /\ [Next]_vars => I'
  BY StepTypeOK, StepLinked, StepIInv, StepSound, StepWhole
<1>3. I => Complete
  <2> SUFFICES ASSUME I, pc = "done", ~cancelled, Small PROVE Members = Reachable
    BY DEF Complete, Small
  <2>1. \A q, arg : ~Pending(q, arg)
    BY DEF Linked, Phase, Pending
  <2>2. Members \subseteq Readable /\ Members \subseteq Reachable
    BY MembersReachable
  <2>3. Closed(Members)
    <3>1. PathOf[Root] \in Readable => PathOf[Root] \in Members
      BY DEF Whole
    <3>2. ASSUME NEW q \in Members, NEW p \in Includes(q), p \in Readable
          PROVE  p \in Members
      <4>1. PICK arg \in Elements(Member(q).directives) :
              Found(Name(q), arg) /\ p = PathOf[Target(Name(q), arg)]
        BY DEF Includes
      <4> QED BY <2>1, <3>2, <4>1 DEF Whole, Awaited
    <3> QED BY <3>1, <3>2 DEF Closed
  <2>4. Reachable \subseteq Members
    BY <2>2, <2>3 DEF Reachable
  <2> QED BY <2>2, <2>4
<1> HIDE DEF I
<1> QED BY <1>1, <1>2, <1>3, PTL DEF Spec
==============================================================================
