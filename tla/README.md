# A TLA+ model of aoe2-lsp

This directory holds a formal model of the parts of aoe2-lsp whose correctness
depends on order, concurrency, failure, shared state or recovery: the language
server and the editors it talks to, its include resolver and file cache, its
navigation across files, the RMS and XS parsers and what the editor asks of
their trees, the XS formatter and analysis, the VS Code extension's server
delivery, the release-notes monitor and the corpus harness.
TLC checks the modules on small instances; TLAPS proves some of the properties
for every instance.

    tlc -config DiskCache.cfg MCDiskCache.tla     # one run
    tlapm DiskCacheProofs.tla                     # one proof module

Paths below are relative to the root of the repository.

## 1. The system

| Component | State | Operations | Interacts with |
|---|---|---|---|
| Document store, `internal/server/docstore.go` | URI -> text and version, under a lock | Put, Get, Remove, Text, URIs | every handler; the include resolver reads it as its `Source` |
| Notification handlers, `internal/server/server.go`, `serve.go` | severities (`settings`), watch capability | Initialized, DidOpen, DidChange, DidClose, DidChangeConfiguration, DidChangeWatchedFiles, publishDiagnostics, recoverNotification | the client (pull of the configuration, registration, pushed diagnostics), store, resolver |
| Request handlers, `server.go` | none | hover, completion, signature help, symbols, folding, tokens, actions, highlight, references, rename | one snapshot of the store each |
| Include closure and navigation, `internal/include` | search roots; one closure per call | Closure, SetRoots, Definition, References | store, file cache |
| Include file cache, `internal/include/resolver.go` | path -> (size, mtime, content), under a lock | loadDisk, Drop | the file system, whose writers know nothing of it; the client's watcher |
| Server delivery, `editors/vscode/src/install.ts` | `globalStorage/servers/`, shared by all windows | resolveServer, installFromRelease, pruneServers | GitHub, PATH, the other windows |
| VS Code client, `editors/vscode/src/extension.ts` | the client, the status bar | activate, deactivate | server delivery, the server |
| Release-notes monitor, `internal/news`, `cmd/newscheck`, `.github/workflows/kb-monitor.yml` | the committed anchor | Check, create the issue, save, commit and push | the news feed, GitHub issues |
| Corpus harness, `internal/corpus` | one server process, its pipes and budgets per file | startSession, drive, fail, close | a server process that may do anything |
| RMS parser, `internal/rms/parse.go`, `ast.go` | open scopes, the block and its owner, the last command, the inline XS region, comments | blankComments, the line walk, expressions with recovery; the lookups ArgAt, EnclosingRanges, OutlineSymbols | the handlers, resolver, formatter and analysis, which read its tree |
| XS parser, `internal/xs/parse.go`, `ast.go` | none (one parse) | the scanner, Parse with recovery; the lookups CallAt, Definition, References, RenameSites, VisibleAt, EnclosingRanges | the same, and the inline blocks of the RMS parser |
| Analysis, `internal/analysis`; completion, `internal/complete` | none | AnalyzeXs, TypeEnv, TokensXs, VisibleAt | trees, closures and the knowledge base |
| Formatters, `internal/format` | none | XS, RMS | a tree and the bytes it was parsed from |
| Hints, highlighting, knowledge base | none (tables built once) | pure functions of a text | the handlers, the generators |

What is hard in it:

* files are written by programs that tell the server late, once, or never; the
  cache knows a size and a time only, and takes them before it reads;
* a batch of diagnostics is computed from a text, several includes, search
  roots and severities read at different moments, and is pushed later still;
* what arrives as configuration depends on the client: pulled, pushed bare,
  pushed under its name, never pushed, not decodable;
* a panic, a failed push or a failed pull leaves a notification half done;
* includes form cycles and diamonds, under limits, cancellation and several
  spellings of one file;
* windows of the editor install, clear, prune and start the same binary with
  awaits between every two steps, and die in between;
* the feed moves while it is paged, and a job may die between its issue and its
  saved anchor;
* a script is parsed while it is typed: closers without openers, blocks across
  sections, comments across regions, and one "last command" that outlives what
  it belonged to;
* XS is parsed token by token while it is typed, unfinished calls and headers
  included, and names are looked up through scopes that the lookups, the analyzer
  and the formatter each know in their own way;
* one position has a byte column, a UTF-16 column and, in an inline block, a
  place in two files;
* a rename edits files by names, across maps that include one another's scripts;
* a server under test panics, hangs, exits or goes silent, and its stderr, its
  exit and the end of its connection reach the harness in any order.

What makes each component correct:

* *store and diagnostics*: the store holds what the editor has; what is shown
  is a lagging copy of the document that never goes back and catches up;
  settings and file changes reach every open document;
* *closure*: the reachable files, each once, within the limits, every directive
  accounted for;
* *navigation*: from every use to its declaration and back, and a rename that
  changes the meaning of no other name;
* *positions*: conversion both ways without loss;
* *cache*: no hit is a stale file, no load goes back behind its own beginning,
  no entry survives a reported write;
* *RMS parser*: every line and token ends up in the tree, an XS block, a comment
  or a report, once; attributes stay with their command; well nested files are
  not blamed and others are; lookups find the innermost statement;
* *XS parser and lookups*: what the text says by its parentheses and braces,
  also while it is typed; a broken statement costs no other declaration;
* *analysis*: no report without a reason, colours that agree with the reports;
* *formatter*: the page has the tree of its text and is its own page;
* *delivery*: what is named is there, a warm cache survives failures, every
  activation ends;
* *monitor*: no patch skipped, every one reported in the end;
* *harness*: a verdict says what the server did, a healthy one is never blamed,
  every session ends.

## 2. The modules

Every definition that stands for code is listed with its source lines in the
`map` of `PROJECT.json`; definitions preceded by a comment "Mutant" are
plausible bugs, kept to show that each property can fail, and are used by no
specification.

### DiskCache (`loadDisk`, `Drop`)

`disk` is the file system, `cache` the `Resolver.cache` map, `pc` and `job` the
local state of each call of `loadDisk`, `pending` the writes the watcher has
not reported. A load is four steps, `Stat`, `Lookup`, `Read`, `Store`, and
`Write` may come between any two. Content is a revision number, the (size,
mtime) fingerprint a stamp. A behaviour runs in one of two `Worlds`: in one every write changes the
fingerprint (`Distinguishing`) and handlers overlap; in the other a write may
repeat any earlier fingerprint and the connection runs one handler at a time
(`Serial`), which is how `serve.go` installs its handler. `answer` is a history
variable: what the last load returned and the revision there was when it began.

### DiagView and LspServer (editor, store, handlers)

`LspServer` has the editor (`editor`, `config`, `shown`), the file system
(`disk`, `unread` by the watcher), the two directions of the connection, and the
server: `docs` (DocStore), `settings`, `roots` (of the resolver) and one record
per running handler. `EditorOpen` ... `Configure` are what a user does,
`ReportWrites` and `ClientReceive` what the client does; `Receive` takes the
next notification, and a handler then goes through its places: `PutText`,
`RemoveDoc`/`PublishClear`, `PullSettings`, `StoreSettings`, `StoreRoots`,
`RegisterWatchers`, `Republish`, and per document `GetText`, `LoadInclude`,
`PublishDiagnostics` or `Panic`. Severities and roots are stored in two steps,
as in `applySettings`; includes are loaded one at a time, each under the roots
of that moment, and the severities are those at the push. A text is the number
of the edit that made it, a batch is what it was computed from, so "fresh" can
be stated without modelling the analysis. The file cache is taken as current
(DiskCache) and the include graph as given (IncludeClosure). `diverged` is history:
the documents whose text in the editor or on disk the server was not told of.

The constant `Client` says how the section arrives: `generic` pushes the bare
section, `vscode` is the client of `extension.ts`, which pushes nothing because
it sets no `synchronize.configurationSection`, `neovim` pushes the table of the
README with the section under its name.

`DiagView` is the abstract specification: per document the event it is at
(`now`) and the event its diagnostics stand for (`stands`), which only moves
forward and never past `now`. `LspServer` implements it under
`now <- editor[d].at`, `stands <- shown[d].at`.

### IncludeClosure (`Closure`, `expand`, `resolveTarget`)

The recursion of `expand` is the variable `stack`, one frame per open file with
the directives still to do. `Refused` is the guard of `expand` in the order of
the code, `Candidates`/`Hits`/`Target` is `resolveTarget`; `Directive` handles
one directive whole: missing, or resolved and expanded. `Cancel` may come at
any step. `Init` ranges over every workspace within the bounds.
`Reachable` is the reference definition the result is compared with: the least
set of files that holds the root and what its members include.

### Navigation and Workspace (`Definition`, `References`, `RenameSites`)

`Navigation` has the operators of the resolver over parsed documents, and of the
handlers that shift an inline block's columns into its file: `closure` is the
list `expand` returns, `roots` the search roots of references and renames
(the document and the open ones whose closure has it), `Searched` the documents
they read, `Definition`, `References` and `RenameSites` the cases of the code
for RMS and XS documents. `Workspace` is the state: documents that grow piece by
piece, each parsed anew by `XsParse`, and the property `NavigationAgrees`.

### Positions (`toProtocolPos`, `fromProtocolPos`, `shiftPos`, `unshiftPos`)

The document is a sequence of characters of the widths the code tells apart;
a behaviour types one character at a time. `bytes`, `units` and `newlines` say what
a character takes, `taken` what the first k characters of a text take together:
offsets, columns and line numbers are such sums. The code loops over the runes of
a line (`byteToUTF16`, `utf16ToByte`) where the module has the last boundary the
loop passes (`before`). The properties count anew, with `placeOf`: the line breaks
in a prefix, the part of it after the last one, its length.

### RmsWalk, RmsComments, RmsExpr (`Parse`)

The parser is three scans, and each has a module. Their input grows by one line
or token per step, so every prefix of every small file is checked.

`RmsWalk` is `run`: per class of line one action (`closeSection`,
`includeDirective`, `structural`, `openBrace`, `attributeLine`, ...), named as
the code's handlers. `sects`, `nodes` and `scopes` are the tree, `owner` and
`braceScopes` the open attribute block, `lastCmd` the command that may take
attributes, `inXs`, `xsStart`, `xsArg` the inline XS region. `closeAll` is the
end of the file. A line is the class the handlers tell apart, a position a line
number. `elseif` is `else`, and a command stands for all of its kind. Scopes are
settled by `finalizeScope` one after the other; the module has what that adds up
to: innermost first, a scope covers its children and those of the scopes closed
with it (`Households`), outermost first its own children only (`Family`).

`RmsComments` is `blankComments` beside the part of the walk that depends on
it, line by line (`rawLines`): the scan has its own idea of the regions
(`inRegion`), the walk another (`walkInXs`), and `mergeComments` joins the extents
of the scan with the `#`-lines the walk met. Lines are short sequences of the
lexemes that open and close something; `ScanStates` is the state of the scan
before each lexeme of a line, the last one the state the next line begins in, and
an extent is a pair of places.

`RmsExpr` is `expressions`, `parseExpr`, `parsePrimary` and `parseCall` over the
tokens of one line; a result is an expression or the token that was consumed
in its place. `keeps` is history: the tokens an expression stands for.

`RmsLookup` extends the walk by what the editor asks of its tree: the statement
and the argument at a position, and the ranges around it. `RmsOutline` adds the
outline, which is recursive over the tree and has a module of its own, so that
the others can be proved about.

`MCRms` runs one of the three scans per behaviour; they share no state.

### XsScanner, XsParser, XsLookup, XsAnalysis, XsFormat, XsFile

`XsScanner` is the scanner over classes of bytes, with line, column and offset of
every token. `XsParser` is the parser: every production is an operator from the
state of a parse (tokens, position, reports, and the occurrences, calls and
strings collected on the way) to the next state and a result, with the recovery
of each (`syncTop`, `syncStmt`, the tokens that `parsePrimary` consumes). A token
is its text, token i begins at column 2i. `XsLookup` has the lookups of `ast.go`,
`XsAnalysis` undefined symbols, arity, types, semantic tokens and completion over
the same tree, and `XsFormat` the lines the formatter prints. `XsFile` is the
state: a file typed token by token and parsed after each, and the properties,
most of which compare an answer with a reading of the same text by its braces,
parentheses and words alone.

`MCXs` runs the scanner, a file, a workspace or a text of `Positions` per
behaviour; these modules share no state.

### Installer (`resolveServer`, `installFromRelease`, `pruneServers`)

`dirs`, `binary` and `temps` are `globalStorage/servers/`, shared; each window
has its step `pc` and its locals `win`. Every await that touches the shared
directory is an action: the release check, the cache lookup, the temp directory,
download, checksum, tar, `stat`, `rm`, `mkdir`, `rename`, `chmod`, one action
per pruned entry, the catch and the finally. A window may die in any of them,
and a download may be damaged. What may fail by itself is a request, an archive,
the checksum, tar, `mkdtemp`, the search of the extracted tree, `rm`, `mkdir`,
`rename` and `chmod` of an install, and the removal of a tag by the prune that
follows a download. After a cache hit that removal fails only on a file in use,
under `Locking`. Not modelled: a `stat` that fails on a file that is there, and
failures of the listing for the prune and of removing temp directories. `crowded` and `died` are history:
which windows shared their resolution with another, which runs were cut off.

### NewsMonitor (`Check`, `scanFeed`, the workflow)

`time` is the feed, `anchor` the committed state file, `issues` the issues
created, `job` the locals of one run. The posts of a page, and those a scan has
seen and accepted, are sets: the code reads them in the order of their dates,
and no decision of it depends on another order. `ScanPage` reads one page and decides as
`scanFeed` and `Check` do: end of the feed, anchor reached, cap, or next page.
`CreateIssue` and `CommitState` are the workflow's steps, `Fail` ends the job
before any of them. `Publish` may come at any moment, between two pages of a scan
too, and a post may share the date of the one before it. Two history variables
tell what this does to a job: `job.grown`, that the feed grew between two of its
pages, and `overlooked`, the posts such a job's anchor passed without an issue.
`GivenUp` is these and the later posts of one date: what the code lets go, and the
properties except.

### CorpusSession (`runFile`)

The server process (`process`, `code`, `broken`, `written`) does what it likes;
the harness sees it through pipes that lag (`conn`, `drained`) and through
`cmd.Wait`. What the server writes to stderr is a sequence of pieces, of which one
holds the word "panic" or does not; `Capture` is `cappedBuffer.Write`, which takes
every piece and keeps those before `StderrCap`, so that `captured` is a beginning
of `written`. `Call` ... `SendExit`, `Verdict` are `drive`, `Fail` the
classification in `fail`, `Kill`/`Close` the teardown in `close`. The session's
budget (`Expire`) and the grace for an exit (`GraceOver`) end by the clock, at any
moment they run: the harness does not know whether the server is at fault, and
`fault` is history that only the properties read.

## 3. The runs

| Run | Instance | Shows |
|---|---|---|
| DiskCache | 2 files (1 watched), 2 loaders, 2 writes per file, both worlds | `NoFalseHit`: an entry whose fingerprint matches holds the present content, because the fingerprint is taken before the content. `LoadNotOlderThanStart`: no load answers with less than was there when it began. `DropHonoured`: after a reported write nothing older is left, even under equal fingerprints |
| LspSerial | a map script and its library, 3 edits, up to 3 messages under way each way, 2 configurations of which the first does not decode, at most one failure | the refinement of `DiagView` whatever fails (`RefinesDiagView`); without a failure `CatchesUp`, and `CurrentAtRest`: at rest the editor shows diagnostics of the text it has, of the saved text of its includes, under the settings it has |
| LspVscode | the VS Code client | `SettingsApplied` is violated, see the findings |
| IncludeTree | six possible files in three directories, one of them a configured root and one out of bounds; one file unreadable; two directives in the root, one in the others; depth 2, 3 files, cancellation | the closure is `Complete` unless a limit bites, holds each file once (`FilesOnce`), accounts for each directive (`DirectivesAccounted`), and ends |
| IncludeSpelling | an aliased open document | `EditorWins` is violated, see the findings |
| News | pages of 2, a cap of 2 pages, 5 posts of which 4 are patches, at any moment and with equal dates, 2 failures | `NothingSkipped`: no patch behind the anchor is without an issue, but for what `GivenUp` names. `ScanExact`, for a scan the feed did not grow under. `EventuallyReported`, unless the posts have outgrown the cap |
| InstallWindows | 2 windows, 3 activations, 2 releases, the older cached; failures and deaths | `ActivationEnds` under any interleaving; `AloneStartFinds`, `WarmSurvives` for a window that resolves alone on whatever was left behind |
| InstallRace | 2 windows, empty storage | `StartFinds` is violated |
| RmsParser | five vocabularies for the walk: scope words (files of 6 lines), commands and blocks (5), inline regions (5), sections, scopes, blocks and regions across one another (5), all words (3); raw files of 3 lines of 2 lexemes and of 2 lines of 3; values of 6 tokens | `LinesKept`: each statement is in one place. `AttributesFollowTheirCommand`. `CleanIffWellNested`: no report if and only if the grammar of nested groups derives the file. `ArgAtExact`: the lookup of signature help is exact. `OutlineExact`: the outline has every statement in order. `SelectionGrows`: the ranges around a position grow, but for scopes the end of the file closed. `TerminatorSeen`: no comment hides the line that ends a region, though the scan and the walk each keep their own idea of the regions. `CommentsCoverOnce`: the extents are disjoint and complete. `ValuesExact`: the recovery drops nothing unreported, and clean values group as written |
| XsParser | 15 families of files, each a beginning and a vocabulary of which up to 4 to 7 tokens are typed (calls, parameters, blocks, branches, loops, cases, rules, declarations, types, operators, lists, broken statements); three families of sources of up to 6 bytes; two maps and two scripts of up to 3 pieces; texts of up to 4 characters | `CallAtExact`, `ChainsGrow`, `DefinitionExact`, `OffersWhatResolves`: the lookups are those of the text. `ErrorsContained`: a broken statement without brackets costs no other declaration. `ReportsJustified`, `TokensAgree`: the analysis. `FormatFaithful`: the page of a clean file has its tree and tokens, and is its own page. `ScanFaithful`: positions of tokens are those of the bytes. `NavigationAgrees`: definitions, references and renames of four documents agree. `ColumnsExact`, `BlocksAgree`: positions in bytes, in UTF-16 units, and in a block |
| XsFormatting | rule sections with colons and blocks, operands in groups | `TreeKept` is violated |
| CorpusSession | a cycle with two requests, three pieces of stderr over a buffer of two, budgets that end at any moment | `OkMeansClean`: what the verdict ok promises, up to the cap of the buffer. `HealthyIsOk`: a server without a fault is ok, or timeout when a budget was over, and nothing worse. `SessionEnds` |

Why the bounds are enough. Two loaders and two windows are all
that interleave in any of the races here, and two writes are the least that
make one stale entry newer than another. Two documents give an includer and an
include, which may each be open, closed, edited or written. Three edits reach
open, change, close and a reopening; three messages let an include be opened,
its includer be opened and the include be changed before the server has
registered its watchers. Three script directories with a root, two
inner scripts and three XS files give self-includes, cycles of two, diamonds,
chains longer than the depth and more files than the limit, and a name found
in two places. Five posts over pages of two exceed the cap and leave a partial
page, and one of them may come while a scan reads. A buffer of two pieces is full
before the third, so a panic may come before, at or after its end. Six scope
words hold a group in a group and a closer too many, five
lines a block, its command, an attribute and two closers; the recovery keeps one
last command, one block and one region, so a fault needs few lines to show.
Two lines suffice for a comment to cross a region's first line, three for it to
cross both ends; six tokens hold a call in a group, and two operators with their
operands. A family of XS files begins where one production is open and offers the
words of that production and of what may follow: six tokens nest a block in a
block, a call in a call, an else under two ifs. Only texts that can still become
clean are followed (`MayBecomeClean`, `misplaced`), except in the family of
broken statements. Three pieces declare a name, use it in a second document and
hide or redeclare it in a third. Where an instance would never meet a case (a limit out of reach, no
failure) the mutants show it: each property is violated when a definition of
the code is changed in one plausible way.

Each module with several actors states its type invariant, and the type
invariants are theorems (section 5), so no run repeats them. `LspServer` is
checked with one handler at a time, as `serve.go` installs its handler; its type
invariant is proved for any number at once.

Fairness. `LspServer`: weak fairness of each handler (goroutines run), of
delivery and of the watcher; none for the user, so the system may rest.
`IncludeClosure`: of the recursion, not of the cancellation. `Installer`: of
each window's continuations, since its requests carry timeouts; none for the
user. `NewsMonitor`: the cron starts jobs and a job takes its steps; failures
are bounded, not fair. `CorpusSession`: the harness, its pipes and its timers
run, each at its own pace, and a server that is neither hung nor dead answers; nothing makes a
server misbehave or recover.

Deadlock checking is off where the modelled system stops by itself: a session
ends, a closure is computed, the bounded edits or activations are used up.

## 4. The findings

* `LspVscode`: README.md says that settings changes re-publish diagnostics
  without a restart; the VS Code client of this repository sends no
  `workspace/didChangeConfiguration`, and the server registers for file
  watchers only.
* `IncludeSpelling`: the resolver promises that editor state wins; it looks it
  up by the URI it builds itself, so a document opened under another spelling
  of the same file is read from disk.
* `InstallRace`: between `stat` and `rm` of the destination another window may
  publish and return the binary that is then removed.
* `XsFormatting`: the parser makes the block of `condition: { ... }` the body of
  the section, the printer takes a colon to mean that the statements are
  siblings, and the page has lost them. The same run meets `(-a)++`, `(-a).x`
  and `(-a)[0]`, which are printed without their parentheses.

Met while modelling, described by the modules, with no run of their own.

*Include closure, cache and server.* An include target that passes `os.Stat` and
cannot be read is listed as resolved and is no member, while `Missing` is
documented to list every directive whose target could not be loaded. A file
first reached too deep is dropped from the closure though a shorter path may
follow (`resolver.go:104`). `Definition` on a directive found through a
configured root finds nothing. The settings table of Neovim decodes to the
defaults (`Client = "neovim"`). Targets in files that are not open keep byte
columns (`targetRange`). `nameAt` slices the raw text with the offsets of a text
whose CR LF are LF, so names after the first line of a CR LF map are wrong
(`resolver.go:823`). The tokens of an inline block follow those of its map,
where the encoder takes them sorted (`server.go:1492-1530`), and they get no
externals, while the diagnostics get the closure.

A write is reported once the server has registered its watchers, in
`Initialized`; it asks for no `didSave` (`server.go:313-317`). An include opened
before, or saved in that moment, leaves its open includers with the text they
were published with until the next reported write. The proof of `CurrentAtRest`
met this case where the queues of an earlier instance were too short for it;
`diverged` now says of which documents the server has nothing to hear.

*RMS parser.* `syncConstructs` settles the scopes the end of the file closes from
the outermost in, so an outer range may end before its children, while
`navigation_test.go:210-211` requires children inside their parent. A value of
the zero range follows a group without an operand, as in `- (`. A plain command
after a braced create block is taken as its attribute, and the rest of a line
after `{` is dropped. `ArgAt` of an attribute inside a conditional branch finds
the branch. An inline block at the end of a file without a newline excludes the
last position. A `{` after `endif` reopens the block of the last command.

*XS parser and lookups.* `parsePrimary` consumes the token that offends it, so
`return }` or `a . }` costs the declarations that follow, while
`parse.go:11-13` says that the parser resynchronizes (`ErrorsContained` covers
the reports without brackets). The range of a function ends at its last
statement, so parameters of a function without statements are not found and
completion after the last statement offers no locals; locals of rules and events
are never offered. A variable with a value is coloured twice; a constant of the
knowledge base that is called is reported as undefined and coloured as known; a
call of what is no name is reported as the undefined symbol "".

*XS formatter.* `for (; a;)` is printed `for (a;;)`; a typed clause with a step
and no condition prints the step as its condition; `extern int f() = 1;` loses
its value; `event { f(); }` without parentheses takes them from its body; `1 .a`
becomes `1.a`.

*Monitor and delivery.* A post published between two page fetches ends the scan
early, and the anchor passes the posts below (`overlooked`); of two posts of one
time the later, once the anchor stands there, is not newer than the anchor
(`Later`); both are `GivenUp`, and without it TLC finds `NothingSkipped` violated.
A failed push repeats an issue. The empty tag directory
stays after a lost race. On win32 the prune after a cache hit fails on the
binary another window runs, which escapes to the handler of failures and makes
the window fall back to the bare command though a binary is cached (`WarmSurvives`
under `Locking = TRUE`).

*Corpus harness.* The buffer of stderr keeps 64 KiB. A panic logged after them is
not seen, and a server that recovers it and exits with 0 is classified as ok,
while `internal/corpus/CODEMANIFEST:43` and `internal/corpus/.usages/running.md:33`
say that a panic in stderr makes the verdict panic; `OkMeansClean` promises it
below the cap only. A server with a panic in its stderr that does not exit is
classified as a timeout, and so is one that does nothing wrong but is slower than
its budget. `hasPanic` looks for the word: a log line that holds it for another
reason, a file name say, is read as a panic; a "log" piece is one without it.

## 5. What is proved

TLAPS checks these for every value of the constants that meets the ASSUMEs of
the modules. The assumptions are about types and bounds of the constants, no
more; `Worlds` is any set of pairs of Booleans.

| Module | Theorem | Argument |
|---|---|---|
| DiskCacheProofs | `TypeCorrect` | TypeOK is inductive; the other proofs of the module rest on it |
| | `NoFalseHitHolds`, `LoadNotOlderThanStartHolds` | NoFalseHit is not inductive: a store must know what its job carries. `StampInv` orders them: stamp <= content <= file, for entries and for loads in flight, and a load's stamp is the revision it began at |
| | `DropHonouredHolds` | `DropInv` adds that only one loader is busy, and that a job about to store carries the present content of its path unless a report is pending |
| LspServerProofs | `TypeCorrect` | for any `Slots`: `Typed` adds that messages about documents name one, and that a handler at a place has what the place needs |
| | `RefinesDiagViewHolds` | for a serial connection (`Slots = {h}`). Only `ClientReceive` and the user's events are steps of `DiagView`, all else stutters; `InOrder` orders the events of one document along their way: shown, in the queue to the client, in the store or the handler, in the queue to the server, in the editor |
| | `CurrentAtRestHolds` | for `Slots = {h}` and `Client = "generic"`. `CurrentAtRest` speaks of rest only, so `Coherent` says of every moment what is still to come. The states of a document stand at stations: the store, the handler, the messages of the queue. The last is the editor's (`LastIsEditor`), none is refused for its version (`Accepted`), and those that no later one replaces before the next report have the text on disk (`Faithful`). `Moves` takes stations back over a step of the server, and `MovesKeep` carries all this over at once. `Served`: the newest batch sent for a document fits what the server has, unless the handler will still publish it (`Due`); `Configured`: the last configuration under way is the client's |
| IncludeClosureProofs | `TypeCorrect` | the frames are those of members, and what they still have to do are directives of theirs (`Linked`) |
| | `FilesOnceHolds`, `WithinLimitsHolds` | `IInv`: `visited` covers the members, and a frame's depth is its place in the stack. The lemma `ExpandKeeps` says what one call of `expand` does, and the actions cite it |
| | `DirectivesAccountedHolds` | `Accounted`: for each member and argument, the directives are the entries made and those its frame has still to do, counted; entries have members as owners (`Owned`) |
| | `CompleteHolds` | `Sound`: the members are in every closed set. `Whole`: they are closed, up to what is still in a frame, when neither limit can bite. That the depth does not bite takes that frames of one stack are different members (`Apart`), so there are at most as many as reachable files |
| NewsMonitorProofs | `TypeCorrect` | |
| | `ScanExactHolds` | for any feed and dates. `Scanned`: unless the feed has grown since its second page, the posts a scan has seen are those of the pages so far, and those accepted are exactly the seen ones newer than the anchor |
| | `NothingSkippedHolds` | for any feed and dates, posts during a scan included. The anchor moves to the newest post of a scan, and what is older was accepted by it, or by the job that moved the anchor before, or was overlooked by a job the feed grew under, or is the later of one date (`Covered`) |
| InstallerProofs | `TypeCorrect` | |
| | `AloneStartFindsHolds` | `Sound`: per step, what a window alone knows of the directories; `Crowds`: of two resolutions under way both count as crowded |
| | `WarmSurvivesHolds` | without a command on PATH, a configured one and file locking (`NothingElse`). `Warm`: the list a degrading window walks down holds every binary |
| RmsWalkProofs | `TypeCorrect` | `LineEffect` reduces the eleven actions to what a line may do; settled ranges are bounded by those of the nodes (`ScopeSettled`) |
| | `LinesKeptHolds` | `Dated`, `Regional`: nodes and blocks end before the open region and before the next line; `Placed`: every line read that says something is in one place, or in the open region alone |
| | `AttributesFollowTheirCommandHolds` | `Latest`: after the owner of the block, and after the last command, there is no header and no other command in the file |
| | `ArgAtExactHolds` | `TreeEffect` reduces the actions again, to parents and scopes. `TreeInv`: scopes are open from the outside in (`Rooted`), parents come before their children and starts grow (`Preorder`, `Unique`), and the nodes after an open scope are inside it (`Nested`). The owner found by starts is then the last statement of each list on the way down (`OwnerInLast`, `OwnerAtLast`) |
| | `SelectionGrowsHolds` | `EndsInv`: the open scopes cover what they hold, an owner is open, and at the end of a file without errors no scope is left (`Stacked`, `Covers`); `SectsInv` says the same of sections. Then each range is in the next one (`Encloses`, `InParent`, `InSection`), and `ChainGrows` puts them together |
| | `CleanIffWellNestedHolds` | `NestInv` speaks of every file `ls` the lines read may still become. Without a report so far, the open scopes are `Levels` of the grammar: each has the set of places from which it and the scopes around it derive the rest of `ls`, a `percent_chance` shares the level below, and `ls` is well nested if and only if the next line is in the topmost level. With a report, no such `ls` is well nested. One unfolding of the grammar per word (`LevelOpen`, `LevelBranch`, `LevelClose`, `LevelEnd`) gives `LevelStep`; `KeptHolder` says that the parser's search for the group of a closer finds it if and only if the grammar does |
| TextProofs | `CommentsInvHolds` | `ScanKeeps`: an induction over the lexemes of a line, from the state before it to the state after it. `CommentsInv`: scan and walk agree about the region (`OneRegion`), extents lie in order (`Laid`) and with the comment still open hold exactly the places not shown (`Covered`, `BlockPlaced`, `Hashed`) |
| | `TerminatorSeenHolds` | from `OneRegion`: the scan leaves a comment where the walk leaves the region |
| | `CommentsCoverOnceHolds` | `mergeComments` cuts extents at `#`-lines: what is cut is covered again (`CutFacts`, `HashCovered`), and at most one extent crosses the beginning of a `#`-line (`CrossingOne`) |
| | `ColumnsExactHolds` | sums over prefixes grow with the prefix (`TakenGrows`), and those of a part of a text are differences of those of the text (`TakenAlike`). A line is the places with as many line breaks before them, and begins at the first of these (`LineIs`, `BeginIs`), so its columns in bytes and in units are both such differences and both grow: the last boundary not past one column is the boundary of the other (`Converted`, `SameColumns`, `CursorFound`) |
| | `BlocksAgreeHolds` | a place of a block is a difference of two places of its file, in the line, the offset and, on the first line, the column (`PlaceInPart`); an offset is that of one boundary only, so the text between two is found again (`SliceExact`, `NamesRead`) |
| CorpusSessionProofs | `TypeCorrect` | |
| | `OkMeansCleanHolds`, `HealthyIsOkHolds` | `Kept`: the buffer holds the beginning of what was drained, up to the cap. Nothing is left in the pipe once the process was waited for, so the buffer has every panic before the cap (`BufferSeesAll`), and a process whose verdict is ok writes no more (`Settled`). A server without a fault has answered every call so far, unless the budget is over (`Healthy`), and wrote no panic to keep (`QuietBuffer`) |

Two theorems have a hypothesis under which the code keeps its promise, and TLC
finds the violation without it: `~Locking` in `NothingElse`, and
`Client = "generic"` (with `"vscode"` it is the run LspVscode). Three properties
say themselves what they leave out because the code gives it up: `NothingSkipped`
and `EventuallyReported` by `GivenUp`, `OkMeansClean` by `StderrCap`.
`DropHonoured` is about a serial connection (`Serial`), where no load is under way
when a report is handled; with overlapping handlers a load could store what it
read before the write after the Drop that reports it.
`Slots = {h}` is what `serve.go` installs. `CurrentAtRest` itself speaks of
behaviours in which nothing has failed; what failures do to the batches shown is
the refinement of `DiagView`.

The induction theorems of the library take an operator as a parameter, which the
provers cannot instantiate. Where a definition is recursive over the indices of a
sequence (`ScanStates`, `Derives`, `taken`, the ways up and down the tree) the proofs use
the least or the greatest index at which a claim fails instead (`MaxExists`,
`MinExists`, `UpTo`): so they show that the recursive function exists
(`GrammarExists`, `DescentExists`, `AroundExists`), and what it computes.

Only model-checked:

* liveness (`CatchesUp`, `Terminates`, `EventuallyReported`, `ActivationEnds`,
  `SessionEnds`), which needs fairness and ENABLED, and with it the liveness
  part of the refinement of `DiagView`;
* the recursive parsers and what is asked of their trees (`XsParser` ...
  `XsFormat`, `RmsExpr`, `XsScanner`, `Navigation`): their operators are
  mutually recursive over tokens and trees, not over an index, and so are the
  readings they are compared with;
* `OutlineExact`, for the same reason: the outline is a recursive operator.

## 6. The plan

1. Proofs: `ValuesExact`, with the recursion over the tokens of a value turned
   into one over their indices.
2. The RMS formatter over classes of lines, composed with RmsWalk: idempotence,
   and that the lines keep their places.
3. The RMS half of the analysis, and missing and duplicate include diagnostics
   as functions of a closure, composed with LspServer.
4. The three-way diff of the knowledge base.
5. Overlapping handlers in `applySettings` (severities of one section with the
   roots of another), should the connection ever serve several at once.

## 7. What is not modelled, and why

* Texts as such: wording of messages, layout, tables of the knowledge base. What
  a line of an RMS file is (`splitArgsBlock`, `tokenize`) is given to RmsWalk as
  its class; the XS parser reads tokens, and its scanner is a module of its own
  whose tokens are not fed to it.
* The RMS formatter and the comments of the XS formatter: alignment and the
  placing of comments are layout in most of their lines.
* Hover, the text of signatures, code actions, hints: projections of one tree
  and the tables. Line ends of a lone CR.
* HTTP, tar, YAML, flags, logging and the status bar: pure I/O or pure views; a
  request is a step that succeeds, fails, or comes damaged.
* The generators (`cmd/kbgen`, `cmd/tmgen`), the TextMate grammar, and the CI and
  release workflows: linear batch work on committed inputs.
* The race between `exit` and the end of the connection inside jsonrpc2, which
  is a second Close of a library object.
