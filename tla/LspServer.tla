------------------------------ MODULE LspServer ------------------------------
(***************************************************************************)
(* The language server and the editor it serves: the notifications that    *)
(* change what the server knows (didOpen, didChange, didClose,             *)
(* didChangeConfiguration, didChangeWatchedFiles, initialized), the        *)
(* handlers that run them, and the diagnostics pushed back.                *)
(*                                                                         *)
(* A text is abstracted to the number of the edit that produced it, a      *)
(* configuration section to its revision, a diagnostics batch to the       *)
(* inputs it was computed from: the document's text, the text and search   *)
(* roots each include was loaded with, the severity settings.  The file    *)
(* cache is read as always current, which DiskCache establishes; the       *)
(* include graph is fixed here and computed in IncludeClosure.             *)
(***************************************************************************)
EXTENDS Integers, Sequences

CONSTANTS Docs,      \* URIs of the workspace
          Includes,  \* the other members of each document's include closure
          Openable,  \* the documents the user opens in the editor
          Slots,     \* handlers that may run at once: one on a serial connection
          Client,    \* which client: see PushesChanges
          Malformed, \* revisions of the configuration that do not decode
          Panicky,   \* documents whose analysis may panic
          MaxFaults, \* bound: panics, and pushes, pulls, registrations that fail
          MaxClock,  \* bound: edits, opens, closes and writes by others
          MaxConfig, \* bound: revisions of the client's configuration
          MaxQueue,  \* bound: messages in one direction
          MaxOpens   \* bound: times each document is opened

ASSUME DocsAssumption ==
    /\ Includes \in [Docs -> SUBSET Docs]
    /\ \A d \in Docs : d \notin Includes[d]
    /\ Openable \subseteq Docs
    /\ Panicky \subseteq Docs
ASSUME ClientAssumption == Client \in {"generic", "vscode", "neovim"}
ASSUME FaultsAssumption == MaxFaults \in Nat /\ Malformed \subseteq Nat
ASSUME BoundsAssumption ==
    MaxClock \in Nat /\ MaxConfig \in Nat \ {0} /\ MaxQueue \in Nat /\ MaxOpens \in Nat

VARIABLES editor,    \* what the editor has open: [open, at, text, version]
          opens,     \* how often each document was opened
          disk,      \* the text of each file
          watching,  \* the client watches the files
          unread,    \* files written and not yet reported by the watcher
          config,    \* revision of the client's "aoe2lsp" section
          diverged,  \* history: documents edited or written since a save, or a
                     \* write while closed, made one text of them for the
                     \* server to hear of
          shown,     \* the last batch the editor received per document
          clock,     \* number of the last edit
          faults,    \* history: panics and failed requests so far
          toServer,  \* notifications in flight
          toClient,  \* diagnostics in flight
          docs,      \* DocStore
          settings,  \* Server.settings: revision applied, 0 the defaults
          roots,     \* Resolver.roots: revision they come from
          run        \* the handlers

user == <<editor, opens, disk, watching, unread, config, clock, diverged>>
client == <<user, faults>>
server == <<docs, settings, roots>>
vars == <<client, shown, toServer, toClient, faults, server, run>>

------------------------------------------------------------------------------
(* Data *)

Times == 0 .. MaxClock
Configs == 0 .. MaxConfig

\* A document as the editor or the DocStore holds it.  at numbers the event
\* (open, change or close) that made it so.
DocStates == [open : BOOLEAN, at : Times, text : Times, version : Times]
Absent == [open |-> FALSE, at |-> 0, text |-> 0, version |-> 0]

NoDoc == "none"
Kinds == {"initialized", "open", "change", "close", "config", "watched"}
Messages == [kind : Kinds, doc : Docs \cup {NoDoc}, state : DocStates, cfg : Configs]
Message(kind, d, state, cfg) == [kind |-> kind, doc |-> d, state |-> state, cfg |-> cfg]

\* One published batch; a batch of no diagnostics for a closed document has
\* no inputs (clear).  env gives what each include was loaded as.
Loads == [text : Times, roots : Configs]
Unloaded == [text |-> -1, roots |-> 0]
Batches == [doc : Docs, clear : BOOLEAN, at : Times,
            env : [Docs -> Loads \cup {Unloaded}], settings : Configs]
NoEnv == [d \in Docs |-> Unloaded]

NothingShown == [clear |-> TRUE, at |-> 0, env |-> NoEnv, settings |-> 0]

\* A handler: the message it runs, where it is, the documents left to
\* republish, and the batch it computes for one of them.
Places == {"idle", "apply", "pull", "roots", "register", "uris", "next", "load", "clear"}
NoMessage == Message("initialized", NoDoc, Absent, 0)
IdleHandler ==
    [pc |-> "idle", msg |-> NoMessage, todo |-> {}, doc |-> NoDoc, at |-> 0,
     env |-> NoEnv]

\* How the clients deliver the section (lifecycle.md, Settings; extension.ts).
\* All of them answer the pull.  The VS Code client pushes nothing: neither
\* synchronize.configurationSection nor a registration asks it to.  Neovim
\* pushes the whole settings table, the section wrapped under its name.
PushesChanges == Client \in {"generic", "neovim"}
PushesAtStart == Client = "neovim"
Wrapped == Client = "neovim"

\* Neovim does not register watchers by default.
Watches == Client # "neovim"

------------------------------------------------------------------------------
Init ==
    /\ editor = [d \in Docs |-> Absent]
    /\ opens = [d \in Docs |-> 0]
    /\ disk = [d \in Docs |-> 0]
    /\ watching = FALSE
    /\ unread = {}
    /\ config = 1
    /\ clock = 0
    /\ faults = 0
    /\ diverged = {}
    /\ shown = [d \in Docs |-> NothingShown]
    /\ toServer = IF PushesAtStart
                  THEN <<NoMessage, Message("config", NoDoc, Absent, 1)>>
                  ELSE <<NoMessage>>
    /\ toClient = <<>>
    /\ docs = [d \in Docs |-> Absent]
    /\ settings = 0
    /\ roots = 0
    /\ run = [s \in Slots |-> IdleHandler]

------------------------------------------------------------------------------
(* The editor and the file system *)

CanSend == Len(toServer) < MaxQueue
Send(m) == CanSend /\ toServer' = Append(toServer, m)
Tick == clock < MaxClock /\ clock' = clock + 1
Fault == faults < MaxFaults /\ faults' = faults + 1

\* The user opens the file: the editor shows its text on disk.
EditorOpen(d) ==
    /\ ~editor[d].open
    /\ opens[d] < MaxOpens
    /\ Tick
    /\ LET state == [open |-> TRUE, at |-> clock + 1, text |-> disk[d], version |-> 1]
       IN  /\ editor' = [editor EXCEPT ![d] = state]
           /\ Send(Message("open", d, state, 0))
    /\ opens' = [opens EXCEPT ![d] = @ + 1]
    /\ UNCHANGED <<disk, watching, unread, config, diverged, shown, toClient, faults, server, run>>

EditorChange(d) ==
    /\ editor[d].open
    /\ Tick
    /\ LET state == [open |-> TRUE, at |-> clock + 1, text |-> clock + 1,
                     version |-> editor[d].version + 1]
       IN  /\ editor' = [editor EXCEPT ![d] = state]
           /\ Send(Message("change", d, state, 0))
    /\ diverged' = diverged \cup {d}
    /\ UNCHANGED <<opens, disk, watching, unread, config, shown, toClient, faults, server, run>>

\* Closing drops unsaved edits.
EditorClose(d) ==
    /\ editor[d].open
    /\ Tick
    /\ LET state == [Absent EXCEPT !.at = clock + 1]
       IN  /\ editor' = [editor EXCEPT ![d] = state]
           /\ Send(Message("close", d, state, 0))
    /\ UNCHANGED <<opens, disk, watching, unread, config, diverged, shown, toClient, faults, server, run>>

EditorSave(d) ==
    /\ editor[d].open
    /\ editor[d].text # disk[d]
    /\ disk' = [disk EXCEPT ![d] = editor[d].text]
    /\ unread' = IF watching THEN unread \cup {d} ELSE unread
    /\ diverged' = IF watching THEN diverged \ {d} ELSE diverged
    /\ UNCHANGED <<editor, opens, watching, config, clock, shown, toServer, toClient, faults, server, run>>

\* Another program rewrites the file.
DiskWrite(d) ==
    /\ Tick
    /\ disk' = [disk EXCEPT ![d] = clock + 1]
    /\ unread' = IF watching THEN unread \cup {d} ELSE unread
    /\ diverged' = IF editor[d].open \/ (~watching /\ opens[d] > 0)
                    THEN diverged \cup {d} ELSE diverged \ {d}
    /\ UNCHANGED <<editor, opens, watching, config, shown, toServer, toClient, faults, server, run>>

\* The client's watcher reports the written files, in one notification.
ReportWrites ==
    /\ unread # {}
    /\ Send(Message("watched", NoDoc, Absent, 0))
    /\ unread' = {}
    /\ UNCHANGED <<editor, opens, disk, watching, config, clock, diverged, shown, toClient, faults, server, run>>

\* The user edits the settings.
Configure ==
    /\ config < MaxConfig
    /\ config' = config + 1
    /\ IF PushesChanges THEN Send(Message("config", NoDoc, Absent, config + 1))
                        ELSE UNCHANGED toServer
    /\ UNCHANGED <<editor, opens, disk, watching, unread, clock, diverged, shown, toClient, faults, server, run>>

\* The editor replaces what it shows for the document.
ClientReceive ==
    /\ toClient # <<>>
    /\ LET b == Head(toClient)
       IN  shown' = [shown EXCEPT ![b.doc] =
                       [clear |-> b.clear, at |-> b.at, env |-> b.env,
                        settings |-> b.settings]]
    /\ toClient' = Tail(toClient)
    /\ UNCHANGED <<client, toServer, server, run>>

------------------------------------------------------------------------------
(* The handlers *)

At(s, place) == run[s].pc = place
Goto(s, place) == run' = [run EXCEPT ![s].pc = place]
Finish(s) == run' = [run EXCEPT ![s] = IdleHandler]

\* Mutant: reported writes republish nothing.
EntryIgnoresWrites(kind) == CASE kind = "initialized" -> "pull"
                              [] kind = "watched" -> "next"
                              [] OTHER -> "apply"

\* Where each handler starts.  DidChangeWatchedFiles drops cache entries,
\* which only DiskCache sees, and republishes.
Entry(kind) == CASE kind = "initialized" -> "pull"
                 [] kind = "watched" -> "uris"
                 [] OTHER -> "apply"

\* The connection hands the next notification to a free handler.
Receive(s) ==
    /\ At(s, "idle")
    /\ toServer # <<>>
    /\ run' = [run EXCEPT ![s] = [IdleHandler EXCEPT
                                    !.pc = Entry(Head(toServer).kind),
                                    !.msg = Head(toServer)]]
    /\ toServer' = Tail(toServer)
    /\ UNCHANGED <<client, shown, toClient, server>>

\* DocStore.Put: a version smaller than the stored one is ignored.
Put(d, state) ==
    docs' = IF docs[d].open /\ state.version < docs[d].version
            THEN docs ELSE [docs EXCEPT ![d] = state]

\* Mutant: the text is stored and not analysed.
PutTextSilent(s) ==
    /\ At(s, "apply")
    /\ run[s].msg.kind \in {"open", "change"}
    /\ Put(run[s].msg.doc, run[s].msg.state)
    /\ Goto(s, "next")
    /\ UNCHANGED <<client, shown, toServer, toClient, settings, roots>>

\* DidOpen, and DidChange under Full sync: the text replaces the stored one.
PutText(s) ==
    /\ At(s, "apply")
    /\ run[s].msg.kind \in {"open", "change"}
    /\ Put(run[s].msg.doc, run[s].msg.state)
    /\ run' = [run EXCEPT ![s].pc = "next", ![s].todo = {run[s].msg.doc}]
    /\ UNCHANGED <<client, shown, toServer, toClient, settings, roots>>

\* DidClose: DocStore.Remove, then a batch of no diagnostics.
RemoveDoc(s) ==
    /\ At(s, "apply")
    /\ run[s].msg.kind = "close"
    /\ docs' = [docs EXCEPT ![run[s].msg.doc] = Absent]
    /\ Goto(s, "clear")
    /\ UNCHANGED <<client, shown, toServer, toClient, settings, roots>>

\* Mutant: a batch overtakes the ones in flight.
PushFirst(batch) ==
    /\ Len(toClient) < MaxQueue
    /\ \/ toClient' = <<batch>> \o toClient /\ UNCHANGED faults
       \/ Fault /\ UNCHANGED toClient

\* client.PublishDiagnostics; a failed push is logged and forgotten.
Push(batch) ==
    /\ Len(toClient) < MaxQueue
    /\ \/ toClient' = Append(toClient, batch) /\ UNCHANGED faults
       \/ Fault /\ UNCHANGED toClient

PublishClear(s) ==
    /\ At(s, "clear")
    /\ Push([doc |-> run[s].msg.doc, clear |-> TRUE, at |-> run[s].msg.state.at,
             env |-> NoEnv, settings |-> 0])
    /\ Finish(s)
    /\ UNCHANGED <<user, shown, toServer, server>>

\* pullSettings: the client answers with the section it has then; a failed
\* pull keeps what was applied.
PullSettings(s) ==
    /\ At(s, "pull")
    /\ \/ /\ run' = [run EXCEPT ![s].pc = "apply", ![s].msg.cfg = config]
          /\ UNCHANGED faults
       \/ Fault /\ Goto(s, "register")
    /\ UNCHANGED <<user, shown, toServer, toClient, server>>

\* applySettings decodes the payload as the section itself: under its name it
\* has neither field, which is the defaults.
Decode(msg) == IF msg.kind = "config" /\ Wrapped THEN 0 ELSE msg.cfg

\* A payload that does not decode changes nothing.
Rejected(msg) == Decode(msg) \in Malformed

AfterApply(kind) == IF kind = "initialized" THEN "register" ELSE "uris"

StoreSettings(s) ==
    /\ At(s, "apply")
    /\ run[s].msg.kind \in {"initialized", "config"}
    /\ IF Rejected(run[s].msg)
       THEN Goto(s, AfterApply(run[s].msg.kind)) /\ UNCHANGED settings
       ELSE Goto(s, "roots") /\ settings' = Decode(run[s].msg)
    /\ UNCHANGED <<client, shown, toServer, toClient, docs, roots>>

StoreRoots(s) ==
    /\ At(s, "roots")
    /\ roots' = Decode(run[s].msg)
    /\ Goto(s, AfterApply(run[s].msg.kind))
    /\ UNCHANGED <<client, shown, toServer, toClient, docs, settings>>

\* registerWatchers: from here on the client reports writes.
RegisterWatchers(s) ==
    /\ At(s, "register")
    /\ \/ watching' = Watches /\ UNCHANGED faults
       \/ Fault /\ watching' = FALSE
    /\ Goto(s, "uris")
    /\ UNCHANGED <<editor, opens, disk, unread, config, clock, diverged, shown,
                   toServer, toClient, server>>

\* republishAll: the documents open now.
Republish(s) ==
    /\ At(s, "uris")
    /\ run' = [run EXCEPT ![s].pc = "next",
                          ![s].todo = {d \in Docs : docs[d].open}]
    /\ UNCHANGED <<client, shown, toServer, toClient, server>>

\* publishDiagnostics takes the text; a document closed since is skipped.
\* URIs are sorted; as names are not fixed here, any order is possible.
GetText(s, d) ==
    /\ At(s, "next")
    /\ d \in run[s].todo
    /\ run' = [run EXCEPT ![s] =
                 IF docs[d].open
                 THEN [@ EXCEPT !.pc = "load", !.todo = run[s].todo \ {d}, !.doc = d,
                                !.at = docs[d].at, !.env = NoEnv]
                 ELSE [@ EXCEPT !.todo = run[s].todo \ {d}]]
    /\ UNCHANGED <<client, shown, toServer, toClient, server>>

\* The closure resolves one directive under the roots of now and loads its
\* target: the editor's text when open, else the file.
LoadInclude(s, i) ==
    /\ At(s, "load")
    /\ i \in Includes[run[s].doc]
    /\ run[s].env[i] = Unloaded
    /\ run' = [run EXCEPT ![s].env[i] =
                 [text |-> IF docs[i].open THEN docs[i].text ELSE disk[i],
                  roots |-> roots]]
    /\ UNCHANGED <<client, shown, toServer, toClient, server>>

Loaded(s) == At(s, "load") /\ \A i \in Includes[run[s].doc] : run[s].env[i] # Unloaded

\* The analysis is pushed with the severities of now.
PublishDiagnostics(s) ==
    /\ Loaded(s)
    /\ Push([doc |-> run[s].doc, clear |-> FALSE, at |-> run[s].at,
             env |-> run[s].env, settings |-> settings])
    /\ Goto(s, "next")
    /\ UNCHANGED <<user, shown, toServer, server>>

\* recoverNotification: a panic in the analysis drops the rest of the
\* notification, what was stored stays.
Panic(s) ==
    /\ Loaded(s)
    /\ run[s].doc \in Panicky
    /\ Fault
    /\ Finish(s)
    /\ UNCHANGED <<user, shown, toServer, toClient, server>>

Return(s) ==
    /\ At(s, "next")
    /\ run[s].todo = {}
    /\ Finish(s)
    /\ UNCHANGED <<client, shown, toServer, toClient, server>>

Handle(s) ==
    \/ Receive(s) \/ PutText(s) \/ RemoveDoc(s) \/ PublishClear(s)
    \/ PullSettings(s) \/ StoreSettings(s) \/ StoreRoots(s)
    \/ RegisterWatchers(s) \/ Republish(s)
    \/ \E d \in Docs : GetText(s, d) \/ LoadInclude(s, d)
    \/ PublishDiagnostics(s) \/ Panic(s) \/ Return(s)

Edit == \/ \E d \in Openable : \/ EditorOpen(d) \/ EditorChange(d)
                               \/ EditorClose(d) \/ EditorSave(d)
        \/ \E d \in Docs : DiskWrite(d)
        \/ Configure

Next == Edit \/ ReportWrites \/ ClientReceive \/ \E s \in Slots : Handle(s)

\* Handlers run to their end, the connection delivers, and the client reports
\* the writes its watcher sees; nobody has to edit.
Fairness == /\ \A s \in Slots : WF_vars(Handle(s))
            /\ WF_vars(ClientReceive)
            /\ WF_vars(ReportWrites)

Spec == Init /\ [][Next]_vars
FairSpec == Spec /\ Fairness

------------------------------------------------------------------------------
(* Properties *)

Handlers == [pc : Places, msg : Messages, todo : SUBSET Docs,
             doc : Docs \cup {NoDoc}, at : Times,
             env : [Docs -> Loads \cup {Unloaded}]]

TypeOK ==
    /\ editor \in [Docs -> DocStates]
    /\ opens \in [Docs -> 0 .. MaxOpens]
    /\ disk \in [Docs -> Times]
    /\ watching \in BOOLEAN
    /\ unread \subseteq Docs
    /\ config \in Configs
    /\ clock \in Times
    /\ faults \in 0 .. MaxFaults
    /\ diverged \subseteq Docs
    /\ shown \in [Docs -> [clear : BOOLEAN, at : Times,
                           env : [Docs -> Loads \cup {Unloaded}],
                           settings : Configs]]
    /\ toServer \in Seq(Messages)
    /\ toClient \in Seq(Batches)
    /\ docs \in [Docs -> DocStates]
    /\ settings \in Configs
    /\ roots \in Configs
    /\ run \in [Slots -> Handlers]

\* Nothing is under way.
Quiescent ==
    /\ toServer = <<>> /\ toClient = <<>>
    /\ \A s \in Slots : At(s, "idle")
    /\ unread = {}

\* At rest, and nothing failed.
Undisturbed == Quiescent /\ faults = 0

\* At rest the diagnostics shown for an open document were computed from the
\* text the editor has, and a closed document shows none (publishDiagnostics,
\* server.go:1812-1825; DidClose, server.go:437-449).
ShownMatchesEditor ==
    Undisturbed => \A d \in Docs :
        /\ shown[d].at = editor[d].at
        /\ shown[d].clear = ~editor[d].open

\* At rest the configuration the user last wrote is the one applied, to the
\* severities and to the search roots of every batch shown: a settings change
\* takes effect without a restart (DidChangeConfiguration, server.go:257-267).
SettingsApplied ==
    Undisturbed /\ config \notin Malformed =>
        /\ settings = config
        /\ roots = config
        /\ \A d \in Docs : ~shown[d].clear =>
              /\ shown[d].settings = config
              /\ \A i \in Includes[d] : shown[d].env[i].roots = config

\* At rest an open document was analysed with the present text of each of its
\* includes: the editor's when open, else the file's.  An edit or close of the
\* include itself republishes nothing else, so this holds from the include's
\* next save, or write while closed, that the watcher reports
\* (DidChangeWatchedFiles, server.go:231-253).  Until registerWatchers nothing
\* is reported and the server asks for no didSave (server.go:313-317): of that
\* time only what happened to files never opened is sure to be seen.
IncludesFresh ==
    Undisturbed => \A d \in Docs : ~shown[d].clear =>
        \A i \in Includes[d] \ diverged :
            shown[d].env[i].text = IF editor[i].open THEN editor[i].text ELSE disk[i]

\* At rest every batch shown is current: nothing more is to come, so what a
\* notification failed to republish would stay wrong on the screen (text,
\* settings and roots, includes).
CurrentAtRest == ShownMatchesEditor /\ SettingsApplied /\ IncludesFresh

\* The shown diagnostics as the abstract specification sees them.
View == INSTANCE DiagView WITH
            now <- [d \in Docs |-> editor[d].at],
            stands <- [d \in Docs |-> shown[d].at]

\* The diagnostics shown are a lagging copy of the document that never goes
\* back to an earlier text nor back from cleared to shown (DiagView).
RefinesDiagView == View!Spec

\* They catch up: every handler ends, and unless something fails the last edit
\* of every document reaches the screen (DiagView).
CatchesUp == [](faults = 0) => View!CatchesUp
==============================================================================
