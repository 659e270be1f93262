---------------------------- MODULE IncludeClosure ----------------------------
(***************************************************************************)
(* include.Resolver.Closure: the depth-first expansion of a document's     *)
(* #include, #include_drs and #includeXS directives, its resolution of an  *)
(* include argument against the owner's directory and the configured      *)
(* roots, and its limits.                                                  *)
(*                                                                         *)
(* The call stack of expand is the variable stack.  A file's text is its   *)
(* directives; files do not change during one closure (DiskCache has the   *)
(* changes), but a file that os.Stat finds may still fail to load.         *)
(***************************************************************************)
EXTENDS Integers, Sequences, FiniteSets

CONSTANTS Paths,      \* canonical paths
          Dirs,       \* directories
          Uris,       \* document URIs, in every spelling a client uses
          Args,       \* include arguments as written
          PathOf,     \* [Uris -> Paths]: canonicalPath, NoPath for other schemes
          UriOf,      \* [Paths -> Uris]: uri.File
          DirOf,      \* [Paths -> Dirs]: filepath.Dir
          Join,       \* [Dirs \X Args -> Paths]: filepath.Join
          Within,     \* the pairs <<dir, path>> of withinRoot
          Scripts,    \* the paths ending in .xs
          NoPath,
          Root,       \* the queried document
          Open,       \* the URIs open in the editor
          Roots,      \* the configured include roots, in priority order
          Unreadable, \* files that exist but cannot be read
          Cancels,    \* the request's context may be cancelled
          MaxDepth, MaxFiles,
          Creatable,  \* bound: the paths where there may be files
          MaxDirectives, \* bound: directives per file
          Rich        \* bound: the files on disk with more than one directive

ASSUME DataAssumption ==
    /\ PathOf \in [Uris -> Paths \cup {NoPath}]
    /\ UriOf \in [Paths -> Uris]
    /\ \A p \in Paths : PathOf[UriOf[p]] = p
    /\ DirOf \in [Paths -> Dirs]
    /\ Join \in [Dirs \X Args -> Paths]
    /\ Scripts \subseteq Paths
    /\ Creatable \subseteq Paths
    /\ Rich \subseteq Paths
    /\ NoPath \notin Paths
    /\ IsFiniteSet(Paths)
ASSUME QueryAssumption ==
    /\ Root \in Uris
    /\ Open \subseteq Uris
    /\ Roots \in Seq(Dirs)
    /\ Cancels \in BOOLEAN
ASSUME LimitsAssumption ==
    MaxDepth \in Nat /\ MaxFiles \in Nat /\ MaxDirectives \in Nat

VARIABLES present,   \* the regular files on disk
          onDisk,    \* the directives of the RMS files among them
          inEditor,  \* [Open -> directives]
          stack,     \* the frames of expandDirectives, innermost last
          files,     \* Closure.Rms and Closure.Xs together
          resolved,  \* Closure.Resolved
          missing,   \* Closure.Missing
          visited,
          cancelled, \* ctx.Err() != nil
          pc         \* "start", "run" or "done"

world == <<present, onDisk, inEditor>>
result == <<files, resolved, missing, visited>>
vars == <<world, result, stack, cancelled, pc>>

Contents == UNION {[1 .. n -> Args] : n \in 0 .. MaxDirectives}
Rms(f) == f.path \notin Scripts

\* load: the editor's text under this very URI, else the disk copy.
Loads(u) == u \in Open \/ (PathOf[u] \in present /\ PathOf[u] \notin Unreadable)
File(u) == [uri |-> u, path |-> PathOf[u],
            source |-> IF u \in Open THEN "editor" ELSE "disk",
            directives |-> IF PathOf[u] \in Scripts THEN <<>>
                           ELSE IF u \in Open THEN inEditor[u]
                           ELSE onDisk[PathOf[u]]]

\* resolveTarget: the candidates in order, and the first that is a regular
\* file inside the root document's directory or a configured root.
Candidates(owner, arg) ==
    <<Join[DirOf[PathOf[owner]], arg]>> \o
    [i \in 1 .. Len(Roots) |-> Join[Roots[i], arg]]

Allowed(p) == \/ <<DirOf[PathOf[Root]], p>> \in Within
              \/ \E i \in 1 .. Len(Roots) : <<Roots[i], p>> \in Within

Hits(owner, arg) ==
    {i \in 1 .. Len(Roots) + 1 : LET p == Candidates(owner, arg)[i]
                                 IN  p \in present /\ Allowed(p)}
Found(owner, arg) == Hits(owner, arg) # {}
First(hits) == CHOOSE i \in hits : \A j \in hits : i <= j
Target(owner, arg) == UriOf[Candidates(owner, arg)[First(Hits(owner, arg))]]

Init ==
    /\ present \in SUBSET Creatable
    /\ onDisk \in [present \ Scripts -> Contents]
    /\ \A p \in (present \ Scripts) \ Rich : Len(onDisk[p]) <= 1
    /\ inEditor \in [Open -> Contents]
    /\ stack = <<>>
    /\ files = <<>>
    /\ resolved = <<>>
    /\ missing = <<>>
    /\ visited = {}
    /\ cancelled = FALSE
    /\ pc = "start"

\* Mutant: no visited set.
RefusedUnvisited(u, depth) ==
    cancelled \/ depth > MaxDepth \/ Len(files) >= MaxFiles \/ PathOf[u] = NoPath \/ ~Loads(u)

\* expand: the guards, in the order of the code, then the entry and, for an
\* RMS file, the frame of its directives.
Refused(u, depth) ==
    \/ cancelled
    \/ depth > MaxDepth
    \/ Len(files) >= MaxFiles
    \/ PathOf[u] = NoPath
    \/ PathOf[u] \in visited
    \/ ~Loads(u)

\* Mutant: every directive resolves against the root document.
FrameOfRoot(f, depth) == [owner |-> Root, todo |-> f.directives, depth |-> depth]

Frame(f, depth) == [owner |-> f.uri, todo |-> f.directives, depth |-> depth]

Expand(u, depth, frames) ==
    IF Refused(u, depth)
    THEN /\ stack' = frames
         /\ UNCHANGED <<files, visited>>
    ELSE /\ visited' = visited \cup {PathOf[u]}
         /\ files' = Append(files, File(u))
         /\ stack' = IF Rms(File(u)) THEN Append(frames, Frame(File(u), depth))
                                     ELSE frames

Start ==
    /\ pc = "start"
    /\ pc' = "run"
    /\ Expand(Root, 0, <<>>)
    /\ UNCHANGED <<world, resolved, missing, cancelled>>

Top == stack[Len(stack)]
\* Mutant: repeated directives count once.
AdvanceDistinct(frame) ==
    [owner |-> frame.owner, depth |-> frame.depth,
     todo |-> SelectSeq(Tail(frame.todo), LAMBDA a : a # Head(frame.todo))]

Advance(frame) == [owner |-> frame.owner, todo |-> Tail(frame.todo),
                   depth |-> frame.depth]
Rest == [stack EXCEPT ![Len(stack)] = Advance(Top)]

\* One directive of the innermost file: missing, or resolved and expanded.
Directive ==
    /\ pc = "run"
    /\ stack # <<>>
    /\ Top.todo # <<>>
    /\ LET arg == Head(Top.todo)
           found == Found(Top.owner, arg)
           target == Target(Top.owner, arg)
       IN  IF found
           THEN /\ resolved' = Append(resolved, [owner |-> Top.owner, arg |-> arg,
                                                 target |-> target])
                /\ Expand(target, Top.depth + 1, Rest)
                /\ UNCHANGED missing
           ELSE /\ missing' = Append(missing, [owner |-> Top.owner, arg |-> arg])
                /\ stack' = Rest
                /\ UNCHANGED <<files, visited, resolved>>
    /\ UNCHANGED <<world, cancelled, pc>>

\* Mutant: the frame of a finished file stays.
ReturnStays ==
    /\ pc = "run"
    /\ stack # <<>>
    /\ Top.todo = <<>>
    /\ stack' = SubSeq(stack, 1, Len(stack))
    /\ UNCHANGED <<world, result, cancelled, pc>>

Return ==
    /\ pc = "run"
    /\ stack # <<>>
    /\ Top.todo = <<>>
    /\ stack' = SubSeq(stack, 1, Len(stack) - 1)
    /\ UNCHANGED <<world, result, cancelled, pc>>

Done ==
    /\ pc = "run"
    /\ stack = <<>>
    /\ pc' = "done"
    /\ UNCHANGED <<world, result, stack, cancelled>>

\* The client withdraws the request, or the connection closes.
Cancel ==
    /\ Cancels
    /\ pc # "done"
    /\ ~cancelled
    /\ cancelled' = TRUE
    /\ UNCHANGED <<world, result, stack, pc>>

Next == Start \/ Directive \/ Return \/ Done \/ Cancel

Spec == Init /\ [][Next]_vars
FairSpec == Spec /\ WF_vars(Start \/ Directive \/ Return \/ Done)

------------------------------------------------------------------------------
(* Properties *)

Elements(seq) == {seq[i] : i \in 1 .. Len(seq)}
FileRecords == [uri : Uris, path : Paths, source : {"editor", "disk"},
                directives : Contents]
Frames == [owner : Uris, todo : Contents, depth : 0 .. MaxDepth]

TypeOK ==
    /\ present \subseteq Paths
    /\ onDisk \in [present \ Scripts -> Contents]
    /\ inEditor \in [Open -> Contents]
    /\ stack \in Seq(Frames)
    /\ files \in Seq(FileRecords)
    /\ resolved \in Seq([owner : Uris, arg : Args, target : Uris])
    /\ missing \in Seq([owner : Uris, arg : Args])
    /\ visited \subseteq Paths
    /\ cancelled \in BOOLEAN
    /\ pc \in {"start", "run", "done"}

\* A file is a member once, however many directives, spellings and cycles lead
\* to it (expand, resolver.go:79-104).
FilesOnce ==
    \A i, j \in 1 .. Len(files) : files[i].path = files[j].path => i = j

\* Whatever the workspace includes, a closure holds at most MaxFiles files and
\* the recursion is at most MaxDepth deep (resolver.go:18-23).
WithinLimits == Len(files) <= MaxFiles /\ Len(stack) <= MaxDepth + 1

\* The reference definition: the least set of readable files that holds the
\* queried document and, with a file, what its directives find.
Name(p) == IF p = PathOf[Root] THEN Root ELSE UriOf[p]
Member(p) == File(Name(p))
Readable == {p \in Paths : Loads(Name(p))}
Includes(p) ==
    {PathOf[Target(Name(p), arg)] :
        arg \in {a \in Elements(Member(p).directives) : Found(Name(p), a)}}
Closed(S) ==
    /\ PathOf[Root] \in Readable => PathOf[Root] \in S
    /\ \A q \in S : Includes(q) \cap Readable \subseteq S
Reachable == {p \in Readable : \A S \in SUBSET Readable : Closed(S) => p \in S}
Members == {f.path : f \in Elements(files)}

\* When no limit can bite and nobody cancels, the closure is everything that
\* can be reached, cycles and diamonds included (expand, resolver.go:79-153).
Complete ==
    pc = "done" /\ ~cancelled =>
        LET all == Reachable
        IN  Cardinality(all) <= MaxFiles /\ Cardinality(all) <= MaxDepth + 1
              => Members = all

\* Every directive of every RMS member ends as one Resolved or one Missing
\* entry of its owner, repeated ones repeatedly, also when a limit or a
\* cancellation stopped the expansion (expandDirectives, resolver.go:115-153).
Occurrences(directives, arg) ==
    Cardinality({i \in 1 .. Len(directives) : directives[i] = arg})
Entries(seq, owner, arg) ==
    Cardinality({i \in 1 .. Len(seq) : seq[i].owner = owner /\ seq[i].arg = arg})
DirectivesAccounted ==
    pc = "done" => \A f \in Elements(files), arg \in Args :
        Occurrences(f.directives, arg)
          = Entries(resolved, f.uri, arg) + Entries(missing, f.uri, arg)

\* The expansion ends on every workspace.
Terminates == <>(pc = "done")

\* A file open in the editor is never read from disk.
EditorWins ==
    \A f \in Elements(files) :
        (\E u \in Open : PathOf[u] = f.path) => f.source = "editor"

==============================================================================
