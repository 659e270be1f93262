--------------------------- MODULE LspServerProofs ---------------------------
(***************************************************************************)
(* The server, the connection and the editor, for every client, document,  *)
(* include and number of edits.  Types hold for any handlers at once; that *)
(* DiagView is implemented needs that there is one.                        *)
(*                                                                         *)
(* The step of DiagView is one action: the client shows a batch.  That it  *)
(* never goes back needs the events of a document to be ordered all along  *)
(* their way: what is shown, what waits in the queue to the client, what   *)
(* the store has or a handler is about to store, what waits in the queue   *)
(* to the server, what the editor has.                                     *)
(***************************************************************************)
EXTENDS LspServer, SequenceTheorems, TLAPS

\* A message about a document names one; a handler that clears or loads works
\* for one.
Carries(m) == m.kind \in {"open", "change", "close"}
Carried == {m \in Messages : Carries(m) => m.doc \in Docs}
Working == {r \in Handlers :
              /\ Carries(r.msg) => r.msg.doc \in Docs
              /\ r.pc = "clear" => Carries(r.msg)
              /\ r.pc = "load" => r.doc \in Docs
              /\ r.pc = "pull" => r.msg.kind = "initialized"}
Elsewhere == Places \ {"clear", "load", "pull"}
Envs == [Docs -> Loads \cup {Unloaded}]
Shown == [clear : BOOLEAN, at : Times, env : Envs, settings : Configs]

Typed == /\ TypeOK
         /\ toServer \in Seq(Carried)
         /\ run \in [Slots -> Working]
         /\ \A d \in Docs : editor[d].version <= clock

\* The values the actions make.
LEMMA Values ==
    /\ 0 \in Times /\ 0 \in Configs /\ 1 \in Configs
    /\ Absent \in DocStates /\ NoEnv \in Envs
    /\ NothingShown \in Shown
    /\ \A n \in Times : [Absent EXCEPT !.at = n] \in DocStates
    /\ \A n, t, v \in Times : [open |-> TRUE, at |-> n, text |-> t, version |-> v] \in DocStates
<1> USE BoundsAssumption DEF Times, Configs, Absent, NoEnv, Envs, NothingShown
<1>1. DocStates = [open : BOOLEAN, at : Times, text : Times, version : Times]
  BY DEF DocStates
<1>2. 0 \in Times /\ 0 \in Configs /\ 1 \in Configs
  OBVIOUS
<1>3. Absent \in DocStates /\ \A n \in Times : [Absent EXCEPT !.at = n] \in DocStates
  BY <1>1, <1>2
<1>4. NoEnv \in Envs
  OBVIOUS
<1>5. NothingShown \in Shown
  BY <1>2, <1>4 DEF Shown
<1>6. \A n, t, v \in Times : [open |-> TRUE, at |-> n, text |-> t, version |-> v] \in DocStates
  BY <1>1
<1> QED BY <1>2, <1>3, <1>4, <1>5, <1>6

LEMMA MessageTyped ==
    ASSUME NEW kind \in Kinds, NEW state \in DocStates, NEW cfg \in Configs
    PROVE  /\ \A d \in Docs : Message(kind, d, state, cfg) \in Carried
           /\ kind \in {"initialized", "config", "watched"} =>
                Message(kind, NoDoc, state, cfg) \in Carried
BY DEF Message, Messages, Carried, Carries

LEMMA IdleTyped ==
    /\ NoMessage \in Carried /\ IdleHandler \in Working
    /\ \A m \in Carried : [IdleHandler EXCEPT !.pc = Entry(m.kind), !.msg = m] \in Working
<1>1. NoMessage \in Carried
  BY Values, MessageTyped DEF NoMessage, Kinds
<1>2. NoMessage.kind = "initialized"
  BY DEF NoMessage, Message
<1>3. IdleHandler \in Working
  BY <1>1, <1>2, Values DEF IdleHandler, Working, Handlers, Places, Carried, Envs, Carries
<1>4. ASSUME NEW m \in Carried PROVE [IdleHandler EXCEPT !.pc = Entry(m.kind), !.msg = m] \in Working
  <2>1. Entry(m.kind) \in {"pull", "uris", "apply"} /\ (Entry(m.kind) = "pull" => m.kind = "initialized")
    BY DEF Entry
  <2> QED BY <2>1, Values DEF IdleHandler, Working, Handlers, Places, Carried, Envs
<1> QED BY <1>1, <1>3, <1>4

\* Writing the state of one document.
LEMMA SetDoc ==
    ASSUME NEW f \in [Docs -> DocStates], NEW d \in Docs, NEW state \in DocStates
    PROVE  /\ [f EXCEPT ![d] = state] \in [Docs -> DocStates]
           /\ [f EXCEPT ![d] = state][d] = state
           /\ \A e \in Docs \ {d} : [f EXCEPT ![d] = state][e] = f[e]
OBVIOUS

\* A message more for the server.
LEMMA SendTyped ==
    ASSUME Typed, NEW m \in Carried, toServer' = Append(toServer, m)
    PROVE  toServer' \in Seq(Carried) /\ toServer' \in Seq(Messages)
BY DEF Typed, Carried

\* What the user, the other programs and the client's watcher do.
LEMMA UserTyped ==
    ASSUME Typed, Edit \/ ReportWrites
    PROVE  Typed'
<1> USE BoundsAssumption
<1>1. /\ editor \in [Docs -> DocStates] /\ disk \in [Docs -> Times] /\ clock \in Times
      /\ opens \in [Docs -> 0 .. MaxOpens] /\ Openable \subseteq Docs
      /\ \A d \in Docs : editor[d].version \in Times /\ editor[d].version <= clock
      /\ config \in Configs
  BY DocsAssumption DEF Typed, TypeOK, DocStates
<1>2. Tick => clock + 1 \in Times /\ clock' = clock + 1 /\ clock + 1 > clock
  BY <1>1 DEF Tick, Times
<1>3. ASSUME NEW d \in Docs, NEW state \in DocStates, NEW kind \in {"open", "change", "close"},
             Tick, editor' = [editor EXCEPT ![d] = state], state.version <= clock + 1,
             Send(Message(kind, d, state, 0)), opens' \in [Docs -> 0 .. MaxOpens], diverged' \subseteq Docs,
             UNCHANGED <<disk, watching, unread, config, shown, toClient, faults, server, run>>
      PROVE  Typed'
  <2>1. Message(kind, d, state, 0) \in Carried
    BY Values, MessageTyped DEF Kinds
  <2>2. toServer' \in Seq(Carried) /\ toServer' \in Seq(Messages)
    BY <1>3, <2>1, SendTyped DEF Send
  <2>3. /\ editor' \in [Docs -> DocStates] /\ clock' \in Times
        /\ \A e \in Docs : editor'[e].version <= clock'
    BY <1>1, <1>2, <1>3, SetDoc DEF Times
  <2> QED BY <1>3, <2>2, <2>3 DEF Typed, TypeOK, server
<1>4. ASSUME NEW d \in Openable, EditorOpen(d) PROVE Typed'
  <2> DEFINE state == [open |-> TRUE, at |-> clock + 1, text |-> disk[d], version |-> 1]
  <2>1. d \in Docs /\ disk[d] \in Times /\ 1 \in Times /\ 1 <= clock + 1
    BY <1>1, <1>2, <1>4 DEF EditorOpen, Times
  <2>2. state \in DocStates /\ state.version <= clock + 1
    BY <1>2, <1>4, <2>1, Values DEF EditorOpen
  <2>3. opens' \in [Docs -> 0 .. MaxOpens] /\ diverged' \subseteq Docs
    BY <1>1, <1>4, <2>1 DEF EditorOpen, Typed, TypeOK
  <2> QED BY <1>3, <1>4, <2>1, <2>2, <2>3 DEF EditorOpen
<1>5. ASSUME NEW d \in Openable, EditorChange(d) PROVE Typed'
  <2> DEFINE state == [open |-> TRUE, at |-> clock + 1, text |-> clock + 1,
                       version |-> editor[d].version + 1]
  <2>1. d \in Docs /\ editor[d].version + 1 \in Times /\ editor[d].version + 1 <= clock + 1
    BY <1>1, <1>2, <1>5 DEF EditorChange, Times
  <2>2. state \in DocStates /\ state.version <= clock + 1
    BY <1>2, <1>5, <2>1, Values DEF EditorChange
  <2>3. opens' \in [Docs -> 0 .. MaxOpens] /\ diverged' \subseteq Docs
    BY <1>5, <2>1 DEF EditorChange, Typed, TypeOK
  <2> QED BY <1>3, <1>5, <2>1, <2>2, <2>3 DEF EditorChange
<1>6. ASSUME NEW d \in Openable, EditorClose(d) PROVE Typed'
  <2> DEFINE state == [Absent EXCEPT !.at = clock + 1]
  <2>1. d \in Docs /\ state \in DocStates /\ state.version <= clock + 1
    BY <1>1, <1>2, <1>6, Values DEF EditorClose, Absent, Times
  <2>2. opens' \in [Docs -> 0 .. MaxOpens] /\ diverged' \subseteq Docs
    BY <1>6, <2>1 DEF EditorClose, Typed, TypeOK
  <2> QED BY <1>3, <1>6, <2>1, <2>2 DEF EditorClose
<1>7. ASSUME NEW d \in Openable, EditorSave(d) PROVE Typed'
  <2>1. disk' \in [Docs -> Times] /\ unread' \subseteq Docs /\ diverged' \subseteq Docs
    BY <1>1, <1>7 DEF EditorSave, Typed, TypeOK, DocStates
  <2> QED BY <1>7, <2>1 DEF EditorSave, Typed, TypeOK, server
<1>8. ASSUME NEW d \in Docs, DiskWrite(d) PROVE Typed'
  <2>1. disk' \in [Docs -> Times] /\ unread' \subseteq Docs /\ diverged' \subseteq Docs
    BY <1>1, <1>2, <1>8 DEF DiskWrite, Typed, TypeOK
  <2>2. clock' \in Times /\ \A e \in Docs : editor[e].version <= clock'
    BY <1>1, <1>2, <1>8 DEF DiskWrite, Times
  <2> QED BY <1>8, <2>1, <2>2 DEF DiskWrite, Typed, TypeOK, server
<1>9. CASE Configure
  <2>1. config' \in Configs
    BY <1>1, <1>9 DEF Configure, Configs
  <2>2. toServer' \in Seq(Carried) /\ toServer' \in Seq(Messages)
    <3>1. Message("config", NoDoc, Absent, config + 1) \in Carried
      BY <1>9, <2>1, Values, MessageTyped DEF Configure, Kinds
    <3>2. CASE PushesChanges
      BY <1>9, <3>1, <3>2, SendTyped DEF Configure, Send
    <3>3. CASE ~PushesChanges
      BY <1>9, <3>3 DEF Configure, Typed, TypeOK
    <3> QED BY <3>2, <3>3
  <2> QED BY <1>9, <2>1, <2>2 DEF Configure, Typed, TypeOK, server
<1>10. CASE ReportWrites
  <2>1. Message("watched", NoDoc, Absent, 0) \in Carried
    BY Values, MessageTyped DEF Kinds
  <2>2. toServer' \in Seq(Carried) /\ toServer' \in Seq(Messages)
    BY <1>10, <2>1, SendTyped DEF ReportWrites, Send
  <2> QED BY <1>10, <2>2 DEF ReportWrites, Typed, TypeOK, server
<1> QED BY <1>4, <1>5, <1>6, <1>7, <1>8, <1>9, <1>10 DEF Edit

\* Writing one handler.
LEMMA SetHandler ==
    ASSUME Typed, NEW s \in Slots, NEW r \in Working, run' = [run EXCEPT ![s] = r]
    PROVE  /\ run' \in [Slots -> Working] /\ run' \in [Slots -> Handlers]
           /\ run'[s] = r
           /\ \A t \in Slots \ {s} : run'[t] = run[t]
BY DEF Typed, Working

\* The fields the actions write.
LEMMA SetField ==
    ASSUME NEW r \in Working
    PROVE  /\ \A p \in Elsewhere : [r EXCEPT !.pc = p] \in Working
           /\ Carries(r.msg) => [r EXCEPT !.pc = "clear"] \in Working
           /\ \A p \in Elsewhere, T \in SUBSET Docs :
                 [r EXCEPT !.pc = p, !.todo = T] \in Working
           /\ \A T \in SUBSET Docs : [r EXCEPT !.todo = T] \in Working
           /\ \A T \in SUBSET Docs, d \in Docs, n \in Times :
                 [r EXCEPT !.pc = "load", !.todo = T, !.doc = d, !.at = n, !.env = NoEnv] \in Working
           /\ \A d \in Docs, l \in Loads : [r EXCEPT !.env[d] = l] \in Working
           /\ \A c \in Configs : [r EXCEPT !.pc = "apply", !.msg.cfg = c] \in Working
<1> USE DEF Working, Handlers, Elsewhere
<1>1. /\ \A p \in Elsewhere : [r EXCEPT !.pc = p] \in Working
      /\ Carries(r.msg) => [r EXCEPT !.pc = "clear"] \in Working
      /\ \A p \in Elsewhere, T \in SUBSET Docs :
            [r EXCEPT !.pc = p, !.todo = T] \in Working
      /\ \A T \in SUBSET Docs : [r EXCEPT !.todo = T] \in Working
  BY DEF Places, Elsewhere
<1>2. ASSUME NEW T \in SUBSET Docs, NEW d \in Docs, NEW n \in Times
      PROVE  [r EXCEPT !.pc = "load", !.todo = T, !.doc = d, !.at = n, !.env = NoEnv] \in Working
  BY Values DEF Places, Envs
<1>3. ASSUME NEW d \in Docs, NEW l \in Loads PROVE [r EXCEPT !.env[d] = l] \in Working
  <2>1. [r.env EXCEPT ![d] = l] \in Envs
    BY DEF Envs
  <2> QED BY <2>1 DEF Envs
<1>4. ASSUME NEW c \in Configs PROVE [r EXCEPT !.pc = "apply", !.msg.cfg = c] \in Working
  <2>1. r.msg \in Messages /\ [r.msg EXCEPT !.cfg = c] \in Messages
    BY DEF Messages
  <2>2. Carries([r.msg EXCEPT !.cfg = c]) = Carries(r.msg) /\ [r.msg EXCEPT !.cfg = c].doc = r.msg.doc
    BY <2>1 DEF Carries, Messages
  <2> QED BY <2>1, <2>2 DEF Places, Elsewhere
<1> QED BY <1>1, <1>2, <1>3, <1>4

LEMMA PushTyped ==
    ASSUME Typed, NEW b \in Batches, Push(b)
    PROVE  toClient' \in Seq(Batches) /\ faults' \in 0 .. MaxFaults
<1>1. toClient \in Seq(Batches) /\ faults \in 0 .. MaxFaults
  BY DEF Typed, TypeOK
<1>2. CASE toClient' = Append(toClient, b) /\ UNCHANGED faults
  BY <1>1, <1>2
<1>3. CASE Fault /\ UNCHANGED toClient
  BY <1>1, <1>3, FaultsAssumption DEF Fault
<1> QED BY <1>2, <1>3 DEF Push

\* What the handlers and the connection do.
LEMMA HandlerTyped ==
    ASSUME Typed, NEW s \in Slots, Handle(s)
    PROVE  Typed'
<1>1. /\ run[s] \in Working /\ run[s] \in Handlers /\ run[s].msg \in Messages
      /\ (Carries(run[s].msg) => run[s].msg.doc \in Docs)
      /\ run[s].todo \in SUBSET Docs /\ run[s].at \in Times /\ run[s].env \in Envs
      /\ docs \in [Docs -> DocStates] /\ disk \in [Docs -> Times] /\ roots \in Configs
  BY DEF Typed, TypeOK, Working, Handlers, Envs
<1>2. /\ run[s].msg.state \in DocStates /\ run[s].msg.cfg \in Configs
      /\ \A state \in DocStates : state.at \in Times /\ state.text \in Times
  BY <1>1 DEF Messages, DocStates
<1>3. ASSUME NEW r \in Working, run' = [run EXCEPT ![s] = r], docs' \in [Docs -> DocStates],
             UNCHANGED <<client, shown, toServer, toClient, settings, roots>>
      PROVE  Typed'
  BY <1>3, SetHandler DEF Typed, TypeOK, client, user
<1>4. CASE Receive(s)
  <2>1. toServer \in Seq(Carried) /\ toServer # <<>>
    BY <1>4 DEF Receive, Typed
  <2>2. Head(toServer) \in Carried /\ toServer' \in Seq(Carried)
    BY <1>4, <2>1, HeadTailProperties DEF Receive
  <2>3. toServer' \in Seq(Messages)
    BY <2>2 DEF Carried
  <2>4. run' \in [Slots -> Working] /\ run' \in [Slots -> Handlers]
    BY <1>4, <2>2, IdleTyped, SetHandler DEF Receive
  <2> QED BY <1>4, <2>2, <2>3, <2>4 DEF Receive, Typed, TypeOK, client, user, server
<1>5. CASE PutText(s)
  <2>1. run[s].msg.doc \in Docs
    BY <1>1, <1>5 DEF PutText, Carries
  <2>2. docs' \in [Docs -> DocStates]
    BY <1>1, <1>2, <1>5, <2>1 DEF PutText, Put
  <2>3. /\ run' = [run EXCEPT ![s] = [run[s] EXCEPT !.pc = "next", !.todo = {run[s].msg.doc}]]
        /\ UNCHANGED <<client, shown, toServer, toClient, settings, roots>>
    BY <1>1, <1>5 DEF PutText, Typed
  <2>4. {run[s].msg.doc} \in SUBSET Docs /\ "next" \in Elsewhere
    BY <2>1 DEF Places, Elsewhere
  <2> QED BY <1>1, <1>3, <2>2, <2>3, <2>4, SetField
<1>6. CASE RemoveDoc(s)
  <2>1. run[s].msg.doc \in Docs /\ Carries(run[s].msg)
    BY <1>1, <1>6 DEF RemoveDoc, Carries
  <2>2. docs' \in [Docs -> DocStates]
    BY <1>1, <1>6, <2>1, Values DEF RemoveDoc
  <2> QED BY <1>1, <1>3, <1>6, <2>1, <2>2, SetField DEF RemoveDoc, Goto
<1>7. CASE PublishClear(s)
  <2> DEFINE b == [doc |-> run[s].msg.doc, clear |-> TRUE, at |-> run[s].msg.state.at,
                   env |-> NoEnv, settings |-> 0]
  <2>1. run[s].msg.doc \in Docs
    BY <1>1, <1>7 DEF PublishClear, Working, At
  <2>2. b \in Batches
    BY <1>2, <2>1, Values DEF Batches, Envs
  <2>3. toClient' \in Seq(Batches) /\ faults' \in 0 .. MaxFaults
    BY <1>7, <2>2, PushTyped DEF PublishClear
  <2>4. run' \in [Slots -> Working] /\ run' \in [Slots -> Handlers]
    BY <1>7, IdleTyped, SetHandler DEF PublishClear, Finish
  <2> QED BY <1>7, <2>3, <2>4 DEF PublishClear, Typed, TypeOK, user, server
<1>8. CASE PullSettings(s)
  <2>1. config \in Configs
    BY DEF Typed, TypeOK
  <2>2. run' \in [Slots -> Working] /\ run' \in [Slots -> Handlers]
    <3>1. CASE run' = [run EXCEPT ![s].pc = "apply", ![s].msg.cfg = config]
      <4>1. run' = [run EXCEPT ![s] = [run[s] EXCEPT !.pc = "apply", !.msg.cfg = config]]
        BY <1>1, <3>1 DEF Typed
      <4> QED BY <1>1, <2>1, <4>1, SetField, SetHandler
    <3>2. CASE Goto(s, "register")
      BY <1>1, <3>2, SetField, SetHandler DEF Goto, Places, Elsewhere
    <3> QED BY <1>8, <3>1, <3>2 DEF PullSettings
  <2>3. faults' \in 0 .. MaxFaults
    BY <1>8, FaultsAssumption DEF PullSettings, Fault, Typed, TypeOK
  <2> QED BY <1>8, <2>2, <2>3 DEF PullSettings, Typed, TypeOK, user, server
<1>9. Decode(run[s].msg) \in Configs
  BY <1>2, Values DEF Decode
<1>10. AfterApply(run[s].msg.kind) \in Elsewhere
  BY DEF AfterApply, Places, Elsewhere
<1>11. CASE StoreSettings(s)
  <2>1. settings' \in Configs
    BY <1>9, <1>11 DEF StoreSettings, Typed, TypeOK
  <2>2. run' \in [Slots -> Working] /\ run' \in [Slots -> Handlers]
    BY <1>1, <1>10, <1>11, SetField, SetHandler DEF StoreSettings, Goto, Places, Elsewhere
  <2> QED BY <1>11, <2>1, <2>2 DEF StoreSettings, Typed, TypeOK, client, user
<1>12. CASE StoreRoots(s)
  <2>1. run' \in [Slots -> Working] /\ run' \in [Slots -> Handlers]
    BY <1>1, <1>10, <1>12, SetField, SetHandler DEF StoreRoots, Goto
  <2> QED BY <1>9, <1>12, <2>1 DEF StoreRoots, Typed, TypeOK, client, user
<1>13. CASE RegisterWatchers(s)
  <2>1. watching' \in BOOLEAN
    BY <1>13, Zenon DEF RegisterWatchers, Watches
  <2>2. run' \in [Slots -> Working] /\ run' \in [Slots -> Handlers]
    BY <1>1, <1>13, SetField, SetHandler DEF RegisterWatchers, Goto, Places, Elsewhere
  <2>3. faults' \in 0 .. MaxFaults
    BY <1>13, FaultsAssumption DEF RegisterWatchers, Fault, Typed, TypeOK
  <2> QED BY <1>13, <2>1, <2>2, <2>3 DEF RegisterWatchers, Typed, TypeOK, server
<1>14. CASE Republish(s)
  <2> DEFINE T == {d \in Docs : docs[d].open}
  <2>1. /\ run' = [run EXCEPT ![s] = [run[s] EXCEPT !.pc = "next", !.todo = T]]
        /\ UNCHANGED <<client, shown, toServer, toClient, server>>
    BY <1>1, <1>14 DEF Republish, Typed
  <2>2. T \in SUBSET Docs /\ "next" \in Elsewhere
    BY DEF Places, Elsewhere
  <2> QED BY <1>1, <1>3, <2>1, <2>2, SetField DEF server
<1>15. ASSUME NEW d \in Docs, GetText(s, d) PROVE Typed'
  <2>1. docs[d].at \in Times /\ run[s].todo \ {d} \in SUBSET Docs
    BY <1>1, <1>2
  <2>2. CASE docs[d].open
    <3>1. /\ run' = [run EXCEPT ![s] = [run[s] EXCEPT !.pc = "load", !.todo = run[s].todo \ {d},
                                             !.doc = d, !.at = docs[d].at, !.env = NoEnv]]
          /\ UNCHANGED <<client, shown, toServer, toClient, server>>
      BY <1>1, <1>15, <2>2 DEF GetText, Typed
    <3> QED BY <1>1, <1>3, <2>1, <3>1, SetField DEF server
  <2>3. CASE ~docs[d].open
    <3>1. /\ run' = [run EXCEPT ![s] = [run[s] EXCEPT !.todo = run[s].todo \ {d}]]
          /\ UNCHANGED <<client, shown, toServer, toClient, server>>
      BY <1>1, <1>15, <2>3 DEF GetText, Typed
    <3> QED BY <1>1, <1>3, <2>1, <3>1, SetField DEF server
  <2> QED BY <2>2, <2>3
<1>16. ASSUME NEW i \in Docs, LoadInclude(s, i) PROVE Typed'
  <2> DEFINE l == [text |-> IF docs[i].open THEN docs[i].text ELSE disk[i], roots |-> roots]
  <2>1. l \in Loads
    BY <1>1, <1>2 DEF Loads
  <2> HIDE DEF l
  <2>2. [run[s] EXCEPT !.env[i] = l] \in Working
    BY <1>1, <2>1, SetField
  <2>3. run' = [run EXCEPT ![s] = [run[s] EXCEPT !.env[i] = l]]
    BY <1>1, <1>16 DEF LoadInclude, l
  <2> QED BY <1>1, <1>3, <1>16, <2>2, <2>3 DEF LoadInclude, server
<1>17. CASE PublishDiagnostics(s)
  <2> DEFINE b == [doc |-> run[s].doc, clear |-> FALSE, at |-> run[s].at,
                   env |-> run[s].env, settings |-> settings]
  <2>1. run[s].doc \in Docs /\ settings \in Configs
    BY <1>1, <1>17 DEF PublishDiagnostics, Loaded, At, Working, Typed, TypeOK
  <2>2. b \in Batches
    BY <1>1, <2>1 DEF Batches, Envs
  <2>3. toClient' \in Seq(Batches) /\ faults' \in 0 .. MaxFaults
    BY <1>17, <2>2, PushTyped DEF PublishDiagnostics
  <2>4. run' \in [Slots -> Working] /\ run' \in [Slots -> Handlers]
    BY <1>1, <1>17, SetField, SetHandler DEF PublishDiagnostics, Goto, Places, Elsewhere
  <2> QED BY <1>17, <2>3, <2>4 DEF PublishDiagnostics, Typed, TypeOK, user, server
<1>18. CASE Panic(s)
  <2>1. run' \in [Slots -> Working] /\ run' \in [Slots -> Handlers]
    BY <1>18, IdleTyped, SetHandler DEF Panic, Finish
  <2>2. faults' \in 0 .. MaxFaults
    BY <1>18, FaultsAssumption DEF Panic, Fault, Typed, TypeOK
  <2> QED BY <1>18, <2>1, <2>2 DEF Panic, Typed, TypeOK, user, server
<1>19. CASE Return(s)
  BY <1>1, <1>3, <1>19, IdleTyped DEF Return, Finish, server
<1> QED BY <1>4, <1>5, <1>6, <1>7, <1>8, <1>11, <1>12, <1>13, <1>14, <1>15, <1>16, <1>17, <1>18, <1>19
        DEF Handle

LEMMA StepTyped == Typed /\ [Next]_vars => Typed'
<1>1. ASSUME Typed, ClientReceive PROVE Typed'
  <2>1. Head(toClient) \in Batches /\ toClient' \in Seq(Batches)
    BY <1>1, HeadTailProperties DEF ClientReceive, Typed, TypeOK
  <2>2. shown' \in [Docs -> Shown]
    BY <1>1, <2>1 DEF ClientReceive, Typed, TypeOK, Batches, Shown, Envs
  <2> QED BY <1>1, <2>1, <2>2 DEF ClientReceive, Typed, TypeOK, client, user, server, Shown, Envs
<1>2. ASSUME Typed, UNCHANGED vars PROVE Typed'
  BY <1>2 DEF vars, Typed, TypeOK, client, user, server
<1> QED BY <1>1, <1>2, UserTyped, HandlerTyped DEF Next

LEMMA InitTyped == Init => Typed
<1> SUFFICES ASSUME Init PROVE Typed
  OBVIOUS
<1> USE BoundsAssumption, FaultsAssumption
<1>1. toServer \in Seq(Carried) /\ toServer \in Seq(Messages)
  <2>1. NoMessage \in Carried /\ Message("config", NoDoc, Absent, 1) \in Carried
    BY IdleTyped, MessageTyped, Values DEF Kinds
  <2>2. toServer \in Seq(Carried)
    BY <2>1 DEF Init
  <2> QED BY <2>2 DEF Carried
<1>2. run \in [Slots -> Working] /\ run \in [Slots -> Handlers]
  BY IdleTyped DEF Init, Working
<1>3. /\ editor \in [Docs -> DocStates] /\ docs \in [Docs -> DocStates]
      /\ \A d \in Docs : editor[d].version <= clock
  BY Values DEF Init, Absent
<1>4. shown \in [Docs -> Shown]
  BY Values DEF Init
<1>5. watching \in BOOLEAN
  BY Zenon DEF Init
<1>6. /\ opens \in [Docs -> 0 .. MaxOpens] /\ disk \in [Docs -> Times] /\ clock \in Times
      /\ unread \subseteq Docs /\ diverged \subseteq Docs /\ faults \in 0 .. MaxFaults
      /\ config \in Configs /\ settings \in Configs /\ roots \in Configs
      /\ toClient \in Seq(Batches)
  BY Values DEF Init
<1> QED BY <1>1, <1>2, <1>3, <1>4, <1>5, <1>6 DEF Typed, TypeOK, Shown, Envs

LEMMA TypedHolds == Spec => []Typed
BY InitTyped, StepTyped, PTL DEF Spec

\* The editor, the server, its handlers and the messages between them keep
\* their types, on a serial connection or not (server.go, docstore.go).
THEOREM TypeCorrect == Spec => []TypeOK
<1>1. Typed => TypeOK
  BY DEF Typed
<1> QED BY <1>1, TypedHolds, PTL

------------------------------------------------------------------------------

\* On a serial connection one handler runs at a time.
Serial(h) == Slots = {h}

\* What the client was sent for d is not newer than n.
Past(d, n) ==
    /\ shown[d].at <= n
    /\ \A i \in 1 .. Len(toClient) : toClient[i].doc = d => toClient[i].at <= n

\* Nor is what the server holds of d and has not yet sent.
Held(h, d, n) ==
    /\ docs[d].open => docs[d].at <= n
    /\ run[h].pc = "clear" /\ run[h].msg.doc = d => run[h].msg.state.at <= n

\* The events of d the server has still to take.
About(m, d, n) == Carries(m) /\ m.doc = d /\ m.state.at = n
InHand(h, d, n) == run[h].pc = "apply" /\ About(run[h].msg, d, n)
OnTheWay(d, n) == \E i \in 1 .. Len(toServer) : About(toServer[i], d, n)
Coming(h, d, n) == n = editor[d].at \/ InHand(h, d, n) \/ OnTheWay(d, n)

\* Everything moves from the editor to the screen in order.
ClientOrder ==
    /\ \A i, j \in 1 .. Len(toClient) :
          i < j /\ toClient[i].doc = toClient[j].doc => toClient[i].at <= toClient[j].at
    /\ \A i \in 1 .. Len(toClient) : shown[toClient[i].doc].at <= toClient[i].at
ServerOrder(h) ==
    \A d \in Docs :
      /\ docs[d].open => Past(d, docs[d].at)
      /\ run[h].pc = "clear" /\ run[h].msg.doc = d =>
           ~docs[d].open /\ Past(d, run[h].msg.state.at)
      /\ run[h].pc = "load" /\ run[h].doc = d => docs[d].open /\ run[h].at = docs[d].at
QueueOrder(h) ==
    \A d \in Docs, n \in Times :
      /\ \A i \in 1 .. Len(toServer), m \in Times :
            About(toServer[i], d, n)
              => /\ \A j \in 1 .. Len(toServer) : i < j /\ About(toServer[j], d, m) => n <= m
                 /\ InHand(h, d, m) => m <= n
      /\ Coming(h, d, n) => Past(d, n) /\ Held(h, d, n) /\ n <= editor[d].at
      /\ editor[d].at <= clock

InOrder(h) == ClientOrder /\ ServerOrder(h) /\ QueueOrder(h)

LEMMA OrderTypes ==
    ASSUME Typed, NEW h, Serial(h)
    PROVE  /\ h \in Slots /\ run[h] \in Working /\ run[h] \in Handlers
           /\ run[h].msg \in Messages /\ run[h].msg.state.at \in Times /\ run[h].at \in Times
           /\ \A d \in Docs : /\ editor[d].at \in Times /\ docs[d].at \in Times
                              /\ shown[d].at \in Times
           /\ clock \in Times /\ Times \subseteq Int
           /\ Len(toServer) \in Nat /\ Len(toClient) \in Nat
           /\ \A i \in 1 .. Len(toServer) : toServer[i] \in Carried /\ toServer[i].state.at \in Times
           /\ \A i \in 1 .. Len(toClient) : toClient[i].doc \in Docs /\ toClient[i].at \in Times
<1>1. h \in Slots /\ run[h] \in Working /\ run[h] \in Handlers
  BY DEF Serial, Typed, TypeOK
<1>2. run[h].msg \in Messages /\ run[h].at \in Times
  BY <1>1 DEF Handlers
<1>3. \A m \in Messages : m.state.at \in Times
  BY DEF Messages, DocStates
<1>4. \A d \in Docs : editor[d].at \in Times /\ docs[d].at \in Times /\ shown[d].at \in Times
  BY DEF Typed, TypeOK, DocStates
<1>5. clock \in Times /\ Times \subseteq Int
  BY DEF Typed, TypeOK, Times
<1>6. toServer \in Seq(Carried) /\ toClient \in Seq(Batches)
  BY DEF Typed, TypeOK
<1>7. \A i \in 1 .. Len(toServer) : toServer[i] \in Carried /\ toServer[i].state.at \in Times
  BY <1>3, <1>6, ElementOfSeq DEF Carried
<1>8. \A b \in Batches : b.doc \in Docs /\ b.at \in Times
  BY DEF Batches
<1>9. \A i \in 1 .. Len(toClient) : toClient[i].doc \in Docs /\ toClient[i].at \in Times
  BY <1>6, <1>8, ElementOfSeq
<1> QED BY <1>1, <1>2, <1>3, <1>4, <1>5, <1>6, <1>7, <1>9, LenProperties

\* The places of a sequence with one element more, and with the first one gone.
LEMMA AppendPlaces ==
    ASSUME NEW S, NEW q \in Seq(S), NEW m \in S
    PROVE  /\ Len(Append(q, m)) = Len(q) + 1
           /\ Append(q, m)[Len(q) + 1] = m
           /\ \A i \in 1 .. Len(q) : Append(q, m)[i] = q[i]
OBVIOUS

LEMMA TailPlaces ==
    ASSUME NEW S, NEW q \in Seq(S), q # <<>>
    PROVE  /\ Len(Tail(q)) = Len(q) - 1 /\ Len(q) \in Nat /\ Len(q) >= 1
           /\ Head(q) = q[1]
           /\ \A i \in 1 .. Len(Tail(q)) : Tail(q)[i] = q[i + 1]
OBVIOUS

\* The user's event: newer than all there is of the document.
LEMMA EventOrder ==
    ASSUME Typed, Typed', NEW h, Serial(h), InOrder(h), NEW d \in Docs, NEW m \in Carried,
           About(m, d, clock + 1), clock + 1 \in Times,
           editor'[d].at = clock + 1, \A e \in Docs \ {d} : editor'[e].at = editor[e].at,
           clock' = clock + 1, toServer' = Append(toServer, m),
           UNCHANGED <<shown, toClient, docs, run>>
    PROVE  InOrder(h)'
<1> USE OrderTypes
<1>1. /\ Len(toServer') = Len(toServer) + 1 /\ toServer'[Len(toServer) + 1] = m
      /\ \A i \in 1 .. Len(toServer) : toServer'[i] = toServer[i]
  BY AppendPlaces DEF Typed
<1>2. ClientOrder' /\ ServerOrder(h)'
  BY DEF InOrder, ClientOrder, ServerOrder, Past
<1>3. \A e \in Docs, n \in Times :
        /\ Past(e, n)' <=> Past(e, n)
        /\ Held(h, e, n)' <=> Held(h, e, n)
        /\ InHand(h, e, n)' <=> InHand(h, e, n)
        /\ About(m, e, n) <=> e = d /\ n = clock + 1
  BY DEF Past, Held, InHand, About
<1>4. \A e \in Docs, n \in Times : OnTheWay(e, n)' => OnTheWay(e, n) \/ About(m, e, n)
  BY <1>1 DEF OnTheWay
<1>5. \A e \in Docs, n \in Times : Coming(h, e, n)' => Coming(h, e, n) \/ (e = d /\ n = clock + 1)
  BY <1>3, <1>4 DEF Coming
<1>6. \A e \in Docs : editor'[e].at <= clock' /\ editor[e].at <= editor'[e].at
  BY DEF InOrder, QueueOrder
<1>7. ASSUME NEW e \in Docs, NEW n \in Times, Coming(h, e, n)'
      PROVE  Past(e, n)' /\ Held(h, e, n)' /\ n <= editor'[e].at
  <2>1. CASE Coming(h, e, n)
    BY <1>3, <1>6, <2>1 DEF InOrder, QueueOrder
  <2>2. CASE e = d /\ n = clock + 1
    <3>1. Past(d, editor[d].at) /\ Held(h, d, editor[d].at) /\ editor[d].at <= clock
      BY DEF InOrder, QueueOrder, Coming
    <3>2. Past(d, clock + 1) /\ Held(h, d, clock + 1)
      BY <3>1 DEF Past, Held
    <3> QED BY <1>3, <2>2, <3>2
  <2> QED BY <1>5, <1>7, <2>1, <2>2
<1>8. ASSUME NEW e \in Docs, NEW n \in Times, NEW k \in Times, NEW i \in 1 .. Len(toServer'),
             About(toServer'[i], e, n)
      PROVE  /\ \A j \in 1 .. Len(toServer') : i < j /\ About(toServer'[j], e, k) => n <= k
             /\ InHand(h, e, k)' => k <= n
  <2>1. CASE i = Len(toServer) + 1
    <3>1. e = d /\ n = clock + 1
      BY <1>1, <1>3, <1>8, <2>1
    <3>2. InHand(h, e, k) => k <= clock + 1
      BY <3>1 DEF InOrder, QueueOrder, Coming
    <3> QED BY <1>1, <1>3, <2>1, <3>1, <3>2
  <2>2. CASE i \in 1 .. Len(toServer)
    <3>1. About(toServer[i], e, n) /\ n <= clock + 1
      <4>1. About(toServer[i], e, n)
        BY <1>1, <1>8, <2>2
      <4>2. Coming(h, e, n)
        BY <2>2, <4>1 DEF Coming, OnTheWay
      <4>3. n <= editor[e].at /\ editor[e].at <= clock
        BY <4>2 DEF InOrder, QueueOrder
      <4>4. editor[e].at \in Int /\ clock \in Int /\ n \in Int
        OBVIOUS
      <4> QED BY <4>1, <4>3, <4>4
    <3>2. \A j \in 1 .. Len(toServer) : i < j /\ About(toServer'[j], e, k) => n <= k
      BY <1>1, <2>2, <3>1 DEF InOrder, QueueOrder
    <3>3. About(toServer'[Len(toServer) + 1], e, k) => n <= k
      BY <1>1, <1>3, <3>1
    <3>4. InHand(h, e, k)' => k <= n
      BY <1>3, <2>2, <3>1 DEF InOrder, QueueOrder
    <3>5. \A j \in 1 .. Len(toServer') : j \in 1 .. Len(toServer) \/ j = Len(toServer) + 1
      BY <1>1
    <3> QED BY <3>2, <3>3, <3>4, <3>5
  <2> QED BY <1>1, <2>1, <2>2
<1> QED BY <1>2, <1>6, <1>7, <1>8 DEF InOrder, QueueOrder

\* Everything else the user, the other programs and the watcher do.
LEMMA OtherOrder ==
    ASSUME Typed, Typed', NEW h, Serial(h), InOrder(h),
           \A e \in Docs : editor'[e].at = editor[e].at, clock' >= clock,
           \/ toServer' = toServer
           \/ \E m \in Carried : ~Carries(m) /\ toServer' = Append(toServer, m),
           UNCHANGED <<shown, toClient, docs, run>>
    PROVE  InOrder(h)'
<1> USE OrderTypes
<1>1. ClientOrder' /\ ServerOrder(h)'
  BY DEF InOrder, ClientOrder, ServerOrder, Past
<1>2. \A e \in Docs, n \in Times :
        (Past(e, n)' <=> Past(e, n)) /\ (Held(h, e, n)' <=> Held(h, e, n)) /\ (InHand(h, e, n)' <=> InHand(h, e, n))
  BY DEF Past, Held, InHand, About
<1>3. \A i \in 1 .. Len(toServer'), e \in Docs, n \in Times :
        About(toServer'[i], e, n) => i \in 1 .. Len(toServer) /\ About(toServer[i], e, n)
  <2>1. CASE toServer' = toServer
    BY <2>1
  <2>2. ASSUME NEW m \in Carried, ~Carries(m), toServer' = Append(toServer, m)
        PROVE  \A i \in 1 .. Len(toServer'), e \in Docs, n \in Times :
                 About(toServer'[i], e, n) => i \in 1 .. Len(toServer) /\ About(toServer[i], e, n)
    <3>1. /\ Len(toServer') = Len(toServer) + 1 /\ toServer'[Len(toServer) + 1] = m
          /\ \A i \in 1 .. Len(toServer) : toServer'[i] = toServer[i]
      BY <2>2, AppendPlaces DEF Typed
    <3>2. \A i \in 1 .. Len(toServer') : i \in 1 .. Len(toServer) \/ i = Len(toServer) + 1
      BY <3>1
    <3> QED BY <2>2, <3>1, <3>2 DEF About
  <2> QED BY <2>1, <2>2
<1>4. \A e \in Docs, n \in Times : Coming(h, e, n)' => Coming(h, e, n)
  BY <1>2, <1>3 DEF Coming, OnTheWay
<1>5. \A e \in Docs : editor'[e].at <= clock'
  <2>1. clock' \in Times
    BY DEF Typed, TypeOK
  <2> QED BY <2>1 DEF InOrder, QueueOrder
<1>6. \A e \in Docs, n \in Times : Coming(h, e, n)' => Past(e, n)' /\ Held(h, e, n)' /\ n <= editor'[e].at
  BY <1>2, <1>4 DEF InOrder, QueueOrder
<1>7. \A e \in Docs, n \in Times, i \in 1 .. Len(toServer'), m \in Times :
        About(toServer'[i], e, n)
          => /\ \A k \in 1 .. Len(toServer') : i < k /\ About(toServer'[k], e, m) => n <= m
             /\ InHand(h, e, m)' => m <= n
  BY <1>2, <1>3 DEF InOrder, QueueOrder
<1> QED BY <1>1, <1>5, <1>6, <1>7 DEF InOrder, QueueOrder

\* The handler's steps between taking a message and storing it, and between
\* storing and publishing.
LEMMA InnerOrder ==
    ASSUME Typed, NEW h, Serial(h), InOrder(h), run'[h] \in Handlers,
           run'[h].pc = "apply" => ~Carries(run'[h].msg),
           run'[h].pc # "clear",
           run'[h].pc = "load" => docs[run'[h].doc].open /\ run'[h].at = docs[run'[h].doc].at,
           UNCHANGED <<editor, clock, shown, toServer, toClient, docs>>
    PROVE  InOrder(h)'
<1> USE OrderTypes
<1>1. ClientOrder' /\ ServerOrder(h)'
  BY DEF InOrder, ClientOrder, ServerOrder, Past
<1>2. \A e \in Docs, n \in Times :
        /\ (Past(e, n)' <=> Past(e, n)) /\ (Held(h, e, n) => Held(h, e, n)')
        /\ ~InHand(h, e, n)' /\ (OnTheWay(e, n)' <=> OnTheWay(e, n))
  BY DEF Past, Held, InHand, About, OnTheWay
<1>3. \A e \in Docs, n \in Times : Coming(h, e, n)' => Coming(h, e, n)
  BY <1>2 DEF Coming
<1> QED BY <1>1, <1>2, <1>3 DEF InOrder, QueueOrder

\* The connection hands over the oldest message.
LEMMA ReceiveOrder ==
    ASSUME Typed, Typed', NEW h, Serial(h), InOrder(h), Receive(h)
    PROVE  InOrder(h)'
<1> USE OrderTypes
<1>1. /\ Len(toServer') = Len(toServer) - 1 /\ Len(toServer) >= 1 /\ Head(toServer) = toServer[1]
      /\ \A i \in 1 .. Len(toServer') : toServer'[i] = toServer[i + 1]
  BY TailPlaces DEF Receive, Typed
<1>2. /\ run'[h].msg = toServer[1] /\ run'[h].pc = Entry(toServer[1].kind)
      /\ UNCHANGED <<editor, clock, shown, toClient, docs>> /\ run[h].pc = "idle"
  BY <1>1 DEF Receive, At, Typed, IdleHandler, client, user, server
<1>3. run'[h].pc \notin {"clear", "load"}
  BY <1>2 DEF Entry
<1>4. ClientOrder' /\ ServerOrder(h)'
  BY <1>2, <1>3 DEF InOrder, ClientOrder, ServerOrder, Past
<1>5. \A e \in Docs, n \in Times :
        /\ (Past(e, n)' <=> Past(e, n)) /\ (Held(h, e, n) => Held(h, e, n)')
        /\ InHand(h, e, n)' => About(toServer[1], e, n)
  BY <1>2, <1>3 DEF Past, Held, InHand
<1>6. \A i \in 1 .. Len(toServer') : i + 1 \in 1 .. Len(toServer)
  BY <1>1
<1>7. \A e \in Docs, n \in Times : Coming(h, e, n)' => Coming(h, e, n)
  <2>1. 1 \in 1 .. Len(toServer)
    BY <1>1
  <2> QED BY <1>1, <1>2, <1>5, <1>6, <2>1 DEF Coming, OnTheWay
<1>8. ASSUME NEW e \in Docs, NEW n \in Times, NEW i \in 1 .. Len(toServer'), NEW m \in Times,
             About(toServer'[i], e, n)
      PROVE  /\ \A k \in 1 .. Len(toServer') : i < k /\ About(toServer'[k], e, m) => n <= m
             /\ InHand(h, e, m)' => m <= n
  <2>1. About(toServer[i + 1], e, n) /\ i + 1 \in 1 .. Len(toServer) /\ 1 < i + 1
    BY <1>1, <1>6, <1>8
  <2>2. ASSUME NEW k \in 1 .. Len(toServer'), i < k, About(toServer'[k], e, m) PROVE n <= m
    <3>1. k + 1 \in 1 .. Len(toServer) /\ i + 1 < k + 1 /\ About(toServer[k + 1], e, m)
      BY <1>1, <1>6, <2>2
    <3> QED BY <2>1, <3>1 DEF InOrder, QueueOrder
  <2>3. About(toServer[1], e, m) => m <= n
    BY <1>1, <2>1 DEF InOrder, QueueOrder
  <2> QED BY <1>5, <2>2, <2>3
<1> QED BY <1>2, <1>4, <1>5, <1>7, <1>8 DEF InOrder, QueueOrder

\* The handler stores a text.
LEMMA PutOrder ==
    ASSUME Typed, Typed', NEW h, Serial(h), InOrder(h), PutText(h)
    PROVE  InOrder(h)'
<1> USE OrderTypes
<1> DEFINE d == run[h].msg.doc
           at == run[h].msg.state.at
<1>1. d \in Docs /\ at \in Times /\ InHand(h, d, at)
  BY DEF PutText, Working, Carries, InHand, About, At
<1>2. /\ run'[h].pc = "next" /\ UNCHANGED <<editor, clock, shown, toServer, toClient>>
  BY DEF PutText, Typed, client, user
<1>3. /\ \A e \in Docs \ {d} : docs'[e] = docs[e]
      /\ docs'[d] = docs[d] \/ docs'[d].at = at
  BY <1>1 DEF PutText, Put, Typed, TypeOK
<1> HIDE DEF d, at
<1>4. Past(d, at) /\ Held(h, d, at)
  BY <1>1 DEF InOrder, QueueOrder, Coming
<1>5. ClientOrder' /\ ServerOrder(h)'
  BY <1>2, <1>3, <1>4 DEF InOrder, ClientOrder, ServerOrder, Past
<1>6. \A e \in Docs, n \in Times :
        (Past(e, n)' <=> Past(e, n)) /\ ~InHand(h, e, n)' /\ (OnTheWay(e, n)' <=> OnTheWay(e, n))
  BY <1>2 DEF Past, InHand, OnTheWay
<1>7. ASSUME NEW e \in Docs, NEW n \in Times, Coming(h, e, n)' PROVE Coming(h, e, n) /\ Held(h, e, n)'
  <2>1. Coming(h, e, n) /\ (n = editor[e].at \/ OnTheWay(e, n))
    BY <1>2, <1>6, <1>7 DEF Coming
  <2>2. Held(h, e, n)
    BY <2>1 DEF InOrder, QueueOrder
  <2>3. e = d => at <= n
    BY <1>1, <2>1 DEF InOrder, QueueOrder, Coming, OnTheWay
  <2> QED BY <1>1, <1>2, <1>3, <2>1, <2>2, <2>3 DEF Held
<1> QED BY <1>2, <1>5, <1>6, <1>7 DEF InOrder, QueueOrder

\* The handler drops a closed document.
LEMMA RemoveOrder ==
    ASSUME Typed, Typed', NEW h, Serial(h), InOrder(h), RemoveDoc(h)
    PROVE  InOrder(h)'
<1> USE OrderTypes
<1> DEFINE d == run[h].msg.doc
           at == run[h].msg.state.at
<1>1. d \in Docs /\ at \in Times /\ InHand(h, d, at)
  BY DEF RemoveDoc, Working, Carries, InHand, About, At
<1>2. /\ run'[h].pc = "clear" /\ run'[h].msg = run[h].msg
      /\ UNCHANGED <<editor, clock, shown, toServer, toClient>>
  BY DEF RemoveDoc, Goto, Typed, client, user
<1>3. /\ \A e \in Docs \ {d} : docs'[e] = docs[e]
      /\ ~docs'[d].open
  BY <1>1 DEF RemoveDoc, Absent, Typed, TypeOK
<1>4. Past(d, at)
  BY <1>1 DEF InOrder, QueueOrder, Coming
<1>5. ClientOrder' /\ ServerOrder(h)'
  BY <1>2, <1>3, <1>4 DEF InOrder, ClientOrder, ServerOrder, Past
<1>6. \A e \in Docs, n \in Times :
        (Past(e, n)' <=> Past(e, n)) /\ ~InHand(h, e, n)' /\ (OnTheWay(e, n)' <=> OnTheWay(e, n))
  BY <1>2 DEF Past, InHand, OnTheWay
<1>7. ASSUME NEW e \in Docs, NEW n \in Times, Coming(h, e, n)' PROVE Coming(h, e, n) /\ Held(h, e, n)'
  <2>1. Coming(h, e, n) /\ (n = editor[e].at \/ OnTheWay(e, n))
    BY <1>2, <1>6, <1>7 DEF Coming
  <2>2. Held(h, e, n)
    BY <2>1 DEF InOrder, QueueOrder
  <2>3. e = d => at <= n
    BY <1>1, <2>1 DEF InOrder, QueueOrder, Coming, OnTheWay
  <2> QED BY <1>1, <1>2, <1>3, <2>1, <2>2, <2>3 DEF Held
<1> QED BY <1>2, <1>5, <1>6, <1>7 DEF InOrder, QueueOrder

\* The handler pushes what it held, or fails to.
LEMMA PushOrder ==
    ASSUME Typed, Typed', NEW h, Serial(h), InOrder(h), NEW b \in Batches, Push(b),
           Past(b.doc, b.at), docs[b.doc].open => b.at <= docs[b.doc].at,
           \A n \in Times : Coming(h, b.doc, n) => b.at <= n,
           run'[h].pc \notin {"apply", "clear", "load"},
           UNCHANGED <<editor, clock, shown, toServer, docs>>
    PROVE  InOrder(h)'
<1> USE OrderTypes
<1>1. b.doc \in Docs /\ b.at \in Times /\ toClient \in Seq(Batches)
  BY DEF Batches, Typed, TypeOK
<1>2. ASSUME NEW e \in Docs, NEW n \in Times, Past(e, n), e = b.doc => b.at <= n
      PROVE  Past(e, n)'
  <2>1. CASE toClient' = toClient
    BY <1>2, <2>1 DEF Past
  <2>2. CASE toClient' = Append(toClient, b)
    BY <1>1, <1>2, <2>2, AppendPlaces DEF Past
  <2> QED BY <2>1, <2>2 DEF Push
<1>3. ClientOrder'
  <2>1. CASE toClient' = toClient
    BY <2>1 DEF InOrder, ClientOrder
  <2>2. CASE toClient' = Append(toClient, b)
    <3>1. /\ Len(toClient') = Len(toClient) + 1 /\ toClient'[Len(toClient) + 1] = b
          /\ \A i \in 1 .. Len(toClient) : toClient'[i] = toClient[i]
      BY <1>1, <2>2, AppendPlaces
    <3>2. \A i \in 1 .. Len(toClient') : i \in 1 .. Len(toClient) \/ i = Len(toClient) + 1
      BY <3>1
    <3>3. \A i \in 1 .. Len(toClient) : toClient[i].doc = b.doc => toClient[i].at <= b.at
      BY DEF Past
    <3>4. shown[b.doc].at <= b.at
      BY DEF Past
    <3>5. ASSUME NEW i \in 1 .. Len(toClient'), NEW k \in 1 .. Len(toClient'), i < k,
                 toClient'[i].doc = toClient'[k].doc
          PROVE  toClient'[i].at <= toClient'[k].at
      <4>1. i \in 1 .. Len(toClient)
        BY <3>1, <3>5
      <4>2. CASE k \in 1 .. Len(toClient)
        BY <3>1, <3>5, <4>1, <4>2 DEF InOrder, ClientOrder
      <4>3. CASE k = Len(toClient) + 1
        BY <3>1, <3>3, <3>5, <4>1, <4>3
      <4> QED BY <3>2, <4>2, <4>3
    <3> QED BY <3>1, <3>2, <3>4, <3>5 DEF InOrder, ClientOrder
  <2> QED BY <2>1, <2>2 DEF Push
<1>4. ServerOrder(h)'
  BY <1>1, <1>2 DEF InOrder, ServerOrder
<1>5. \A e \in Docs, n \in Times :
        (Held(h, e, n) => Held(h, e, n)') /\ ~InHand(h, e, n)' /\ (Coming(h, e, n)' => Coming(h, e, n))
  BY DEF Held, InHand, Coming, OnTheWay
<1>6. \A e \in Docs, n \in Times : Coming(h, e, n)' => Past(e, n)' /\ Held(h, e, n)' /\ n <= editor'[e].at
  BY <1>2, <1>5 DEF InOrder, QueueOrder
<1> QED BY <1>3, <1>4, <1>5, <1>6 DEF InOrder, QueueOrder

\* The editor shows the oldest batch in flight.
LEMMA ShowOrder ==
    ASSUME Typed, NEW h, Serial(h), InOrder(h), ClientReceive
    PROVE  /\ InOrder(h)'
           /\ \E d \in Docs : /\ shown[d].at <= shown'[d].at /\ shown'[d].at <= editor[d].at
                              /\ shown'[d].at \in Times
                              /\ \A e \in Docs \ {d} : shown'[e] = shown[e]
<1> USE OrderTypes
<1> DEFINE b == toClient[1]
<1>1. /\ Len(toClient') = Len(toClient) - 1 /\ Len(toClient) >= 1 /\ Head(toClient) = b
      /\ \A i \in 1 .. Len(toClient') : toClient'[i] = toClient[i + 1]
  BY TailPlaces DEF ClientReceive, Typed, TypeOK
<1>2. 1 \in 1 .. Len(toClient) /\ b.doc \in Docs /\ b.at \in Times
  BY <1>1
<1>3. /\ shown'[b.doc].at = b.at /\ \A e \in Docs \ {b.doc} : shown'[e] = shown[e]
      /\ UNCHANGED <<editor, clock, toServer, docs, run>>
  BY <1>1, <1>2 DEF ClientReceive, Typed, TypeOK, client, user, server
<1>4. \A i \in 1 .. Len(toClient') : i + 1 \in 1 .. Len(toClient) /\ 1 < i + 1
  BY <1>1
<1>5. ASSUME NEW e \in Docs, NEW n \in Times, Past(e, n) PROVE Past(e, n)'
  BY <1>1, <1>2, <1>3, <1>4, <1>5 DEF Past
<1>6. ClientOrder'
  <2>1. ASSUME NEW i \in 1 .. Len(toClient'), NEW k \in 1 .. Len(toClient'), i < k,
               toClient'[i].doc = toClient'[k].doc
        PROVE  toClient'[i].at <= toClient'[k].at
    <3>1. i + 1 < k + 1 /\ i + 1 \in 1 .. Len(toClient) /\ k + 1 \in 1 .. Len(toClient)
      BY <1>4, <2>1
    <3>2. toClient'[i] = toClient[i + 1] /\ toClient'[k] = toClient[k + 1]
      BY <1>1
    <3> QED BY <2>1, <3>1, <3>2 DEF InOrder, ClientOrder
  <2>2. ASSUME NEW i \in 1 .. Len(toClient')
        PROVE  shown'[toClient'[i].doc].at <= toClient'[i].at
    <3>1. toClient'[i] = toClient[i + 1] /\ i + 1 \in 1 .. Len(toClient) /\ 1 < i + 1
      BY <1>1, <1>4
    <3>2. CASE toClient[i + 1].doc = b.doc
      BY <1>2, <1>3, <3>1, <3>2 DEF InOrder, ClientOrder
    <3>3. CASE toClient[i + 1].doc # b.doc
      BY <1>3, <3>1, <3>3 DEF InOrder, ClientOrder
    <3> QED BY <3>2, <3>3
  <2> QED BY <2>1, <2>2 DEF ClientOrder
<1>7. ServerOrder(h)'
  BY <1>3, <1>5 DEF InOrder, ServerOrder
<1>8. \A e \in Docs, n \in Times :
        /\ (Held(h, e, n)' <=> Held(h, e, n)) /\ (InHand(h, e, n)' <=> InHand(h, e, n))
        /\ (Coming(h, e, n)' <=> Coming(h, e, n))
  BY <1>3 DEF Held, InHand, Coming, OnTheWay
<1>9. QueueOrder(h)'
  BY <1>3, <1>5, <1>8 DEF InOrder, QueueOrder
<1>10. shown[b.doc].at <= b.at /\ b.at <= editor[b.doc].at
  <2>1. Coming(h, b.doc, editor[b.doc].at)
    BY DEF Coming
  <2> QED BY <1>2, <2>1 DEF InOrder, ClientOrder, QueueOrder, Past
<1> QED BY <1>2, <1>3, <1>6, <1>7, <1>9, <1>10 DEF InOrder

LEMMA HandlerOrder ==
    ASSUME Typed, Typed', NEW h, Serial(h), InOrder(h), Handle(h)
    PROVE  InOrder(h)' /\ UNCHANGED <<shown, editor>>
<1> USE OrderTypes
<1>1. UNCHANGED <<shown, editor, clock>>
  BY DEF Handle, Receive, PutText, RemoveDoc, PublishClear, PullSettings, StoreSettings, StoreRoots,
         RegisterWatchers, Republish, GetText, LoadInclude, PublishDiagnostics, Panic, Return, client, user
<1>2. run'[h] \in Handlers
  BY DEF Serial, Typed, TypeOK
<1>3. CASE Receive(h) \/ PutText(h) \/ RemoveDoc(h)
  BY <1>1, <1>3, ReceiveOrder, PutOrder, RemoveOrder
<1>4. CASE PublishClear(h)
  <2> DEFINE b == [doc |-> run[h].msg.doc, clear |-> TRUE, at |-> run[h].msg.state.at,
                   env |-> NoEnv, settings |-> 0]
  <2>1. b.doc \in Docs /\ run[h].pc = "clear" /\ b \in Batches
    <3>1. run[h].msg.doc \in Docs /\ run[h].pc = "clear"
      BY <1>4 DEF PublishClear, At, Working
    <3> QED BY <3>1, Values DEF Batches, Envs
  <2>2. Past(b.doc, b.at) /\ ~docs[b.doc].open
    BY <2>1 DEF InOrder, ServerOrder
  <2>3. \A n \in Times : Coming(h, b.doc, n) => b.at <= n
    BY <2>1 DEF InOrder, QueueOrder, Held
  <2>4. run'[h].pc = "idle" /\ UNCHANGED <<toServer, docs>> /\ Push(b)
    BY <1>4 DEF PublishClear, Finish, IdleHandler, Typed, server
  <2> HIDE DEF b
  <2> QED BY <1>1, <2>1, <2>2, <2>3, <2>4, PushOrder
<1>5. CASE PublishDiagnostics(h)
  <2> DEFINE b == [doc |-> run[h].doc, clear |-> FALSE, at |-> run[h].at,
                   env |-> run[h].env, settings |-> settings]
  <2>1. b.doc \in Docs /\ run[h].pc = "load" /\ b \in Batches
    <3>1. run[h].doc \in Docs /\ run[h].pc = "load" /\ run[h].env \in Envs /\ settings \in Configs
      BY <1>5 DEF PublishDiagnostics, Loaded, At, Working, Handlers, Envs, Typed, TypeOK
    <3> QED BY <3>1 DEF Batches, Envs
  <2>2. docs[b.doc].open /\ b.at = docs[b.doc].at /\ Past(b.doc, b.at)
    BY <2>1 DEF InOrder, ServerOrder
  <2>3. \A n \in Times : Coming(h, b.doc, n) => b.at <= n
    BY <2>1, <2>2 DEF InOrder, QueueOrder, Held
  <2>4. run'[h].pc = "next" /\ UNCHANGED <<toServer, docs>> /\ Push(b)
    BY <1>5 DEF PublishDiagnostics, Goto, Typed, server
  <2> HIDE DEF b
  <2> QED BY <1>1, <2>1, <2>2, <2>3, <2>4, PushOrder
<1>6. CASE PullSettings(h)
  <2>1. ~Carries(run[h].msg) /\ UNCHANGED <<toServer, toClient, docs>>
    BY <1>6 DEF PullSettings, Working, Carries, At, server
  <2>2. /\ run'[h].msg.kind = run[h].msg.kind
        /\ run'[h].pc \in {"apply", "register"}
    <3>1. CASE run' = [run EXCEPT ![h].pc = "apply", ![h].msg.cfg = config]
      <4>1. run'[h] = [run[h] EXCEPT !.pc = "apply", !.msg.cfg = config]
        BY <3>1 DEF Typed
      <4> QED BY <4>1 DEF Handlers, Messages
    <3>2. CASE Goto(h, "register")
      BY <3>2 DEF Goto, Typed, Handlers
    <3> QED BY <1>6, <3>1, <3>2 DEF PullSettings
  <2> QED BY <1>1, <1>2, <2>1, <2>2, InnerOrder DEF Carries
<1>7. CASE StoreSettings(h) \/ StoreRoots(h) \/ RegisterWatchers(h) \/ Republish(h) \/ Panic(h) \/ Return(h)
  <2>1. UNCHANGED <<toServer, toClient, docs>>
    BY <1>7 DEF StoreSettings, StoreRoots, RegisterWatchers, Republish, Panic, Return, server
  <2>2. AfterApply(run[h].msg.kind) \in {"register", "uris"}
    BY DEF AfterApply
  <2>3. StoreSettings(h) \/ StoreRoots(h) => run'[h].pc \notin {"apply", "clear", "load"}
    BY <2>2 DEF StoreSettings, StoreRoots, Goto, Typed, Handlers
  <2>4. RegisterWatchers(h) \/ Republish(h) => run'[h].pc \notin {"apply", "clear", "load"}
    BY DEF RegisterWatchers, Republish, Goto, Typed, Handlers
  <2>5. Panic(h) \/ Return(h) => run'[h].pc \notin {"apply", "clear", "load"}
    BY DEF Panic, Return, Finish, IdleHandler, Typed
  <2>6. run'[h].pc \notin {"apply", "clear", "load"}
    BY <1>7, <2>3, <2>4, <2>5
  <2> QED BY <1>1, <1>2, <2>1, <2>6, InnerOrder
<1>8. ASSUME NEW d \in Docs, GetText(h, d) PROVE InOrder(h)'
  <2>1. /\ \/ /\ run'[h].pc = "load" /\ docs[d].open
              /\ run'[h].doc = d /\ run'[h].at = docs[d].at
           \/ run'[h].pc = "next"
        /\ UNCHANGED <<toServer, toClient, docs>>
    BY <1>8 DEF GetText, At, Typed, server
  <2> QED BY <1>1, <1>2, <2>1, InnerOrder
<1>9. ASSUME NEW i \in Docs, LoadInclude(h, i) PROVE InOrder(h)'
  <2>1. /\ run'[h].pc = "load" /\ run[h].pc = "load"
        /\ run'[h].doc = run[h].doc /\ run'[h].at = run[h].at
        /\ UNCHANGED <<toServer, toClient, docs>>
    BY <1>9 DEF LoadInclude, At, Typed, Working, Handlers, server
  <2>2. run[h].doc \in Docs
    BY <2>1 DEF Working
  <2>3. docs[run[h].doc].open /\ run[h].at = docs[run[h].doc].at
    BY <2>1, <2>2 DEF InOrder, ServerOrder
  <2> QED BY <1>1, <1>2, <2>1, <2>3, InnerOrder
<1> QED BY <1>1, <1>3, <1>4, <1>5, <1>6, <1>7, <1>8, <1>9 DEF Handle

\* The user's steps: events of one document, or nothing the diagnostics follow.
LEMMA UserOrder ==
    ASSUME Typed, Typed', NEW h, Serial(h), InOrder(h), Edit \/ ReportWrites
    PROVE  /\ InOrder(h)' /\ shown' = shown
           /\ \/ \A e \in Docs : editor'[e].at = editor[e].at
              \/ \E d \in Docs : /\ editor'[d].at > editor[d].at /\ editor'[d].at \in Times
                                 /\ \A e \in Docs \ {d} : editor'[e].at = editor[e].at
<1> USE OrderTypes
<1>1. clock + 1 > clock /\ Openable \subseteq Docs /\ (Tick => clock + 1 \in Times)
  BY DocsAssumption, BoundsAssumption DEF Tick, Times
<1>2. ASSUME NEW d \in Docs, NEW state \in DocStates, NEW kind \in {"open", "change", "close"},
             state.at = clock + 1, Tick, Send(Message(kind, d, state, 0)),
             editor' = [editor EXCEPT ![d] = state], UNCHANGED <<shown, toClient, docs, run>>
      PROVE  /\ InOrder(h)' /\ shown' = shown
             /\ editor'[d].at > editor[d].at /\ editor'[d].at \in Times
             /\ \A e \in Docs \ {d} : editor'[e].at = editor[e].at
  <2> DEFINE m == Message(kind, d, state, 0)
  <2>1. m \in Carried /\ About(m, d, clock + 1)
    BY <1>2, Values, MessageTyped DEF Kinds, About, Carries, Message
  <2>2. editor[d].at <= clock
    BY DEF InOrder, QueueOrder
  <2>3. /\ editor'[d].at = clock + 1 /\ \A e \in Docs \ {d} : editor'[e].at = editor[e].at
        /\ clock' = clock + 1 /\ toServer' = Append(toServer, m)
    BY <1>2 DEF Typed, TypeOK, Tick, Send
  <2> HIDE DEF m
  <2> QED BY <1>1, <1>2, <2>1, <2>2, <2>3, EventOrder
<1>3. ASSUME NEW d \in Docs, EditorOpen(d) \/ EditorChange(d) \/ EditorClose(d)
      PROVE  \E state \in DocStates, kind \in {"open", "change", "close"} :
               /\ state.at = clock + 1 /\ Tick /\ Send(Message(kind, d, state, 0))
               /\ editor' = [editor EXCEPT ![d] = state] /\ UNCHANGED <<shown, toClient, docs, run>>
  <2>1. disk[d] \in Times /\ 1 \in Times /\ (Tick => clock + 1 \in Times)
    <3>1. disk[d] \in Times /\ Tick
      BY <1>3 DEF Typed, TypeOK, EditorOpen, EditorChange, EditorClose
    <3>2. 1 \in Times
      BY <3>1, BoundsAssumption DEF Tick, Times
    <3> QED BY <1>1, <3>1, <3>2
  <2>2. editor'[d] \in DocStates
    BY DEF Typed, TypeOK
  <2>3. CASE EditorOpen(d)
    <3>1. [open |-> TRUE, at |-> clock + 1, text |-> disk[d], version |-> 1] \in DocStates
      BY <2>1, <2>3, Values DEF EditorOpen
    <3> QED BY <2>3, <3>1 DEF EditorOpen, server
  <2>4. CASE EditorChange(d)
    <3>1. [open |-> TRUE, at |-> clock + 1, text |-> clock + 1, version |-> editor[d].version + 1] \in DocStates
      BY <2>2, <2>4 DEF EditorChange, Typed, TypeOK
    <3> QED BY <2>4, <3>1 DEF EditorChange, server
  <2>5. CASE EditorClose(d)
    <3>1. [Absent EXCEPT !.at = clock + 1] \in DocStates
      BY <2>1, <2>5, Values DEF EditorClose
    <3>2. [Absent EXCEPT !.at = clock + 1].at = clock + 1
      BY DEF Absent
    <3> QED BY <2>5, <3>1, <3>2 DEF EditorClose, server
  <2> QED BY <1>3, <2>3, <2>4, <2>5
<1>4. ASSUME NEW d \in Openable, EditorOpen(d) \/ EditorChange(d) \/ EditorClose(d)
      PROVE  /\ InOrder(h)' /\ shown' = shown
             /\ editor'[d].at > editor[d].at /\ editor'[d].at \in Times
             /\ \A e \in Docs \ {d} : editor'[e].at = editor[e].at
  BY <1>1, <1>2, <1>3, <1>4
<1>5. ASSUME NEW d \in Docs, EditorSave(d) \/ DiskWrite(d)
      PROVE  InOrder(h)' /\ shown' = shown /\ editor' = editor
  <2>1. /\ UNCHANGED <<editor, shown, toServer, toClient, docs, run>>
        /\ clock' = clock \/ clock' = clock + 1
    BY <1>5 DEF EditorSave, DiskWrite, Tick, server
  <2> QED BY <1>1, <2>1, OtherOrder
<1>6. ASSUME Configure \/ ReportWrites PROVE InOrder(h)' /\ shown' = shown /\ editor' = editor
  <2>1. UNCHANGED <<editor, clock, shown, toClient, docs, run>>
    BY <1>6 DEF Configure, ReportWrites, server
  <2>2. \/ toServer' = toServer
        \/ \E m \in Carried : ~Carries(m) /\ toServer' = Append(toServer, m)
    <3>1. Configure => config + 1 \in Configs
      BY BoundsAssumption DEF Configure, Configs, Typed, TypeOK
    <3>2. Configure => Message("config", NoDoc, Absent, config + 1) \in Carried
      BY <3>1, Values, MessageTyped DEF Kinds
    <3>3. Message("watched", NoDoc, Absent, 0) \in Carried
      BY Values, MessageTyped DEF Kinds
    <3>4. ~Carries(Message("config", NoDoc, Absent, config + 1)) /\ ~Carries(Message("watched", NoDoc, Absent, 0))
      BY DEF Carries, Message
    <3> QED BY <1>6, <3>2, <3>3, <3>4 DEF Configure, ReportWrites, Send
  <2> QED BY <2>1, <2>2, OtherOrder
<1>7. CASE \E d \in Openable : EditorOpen(d) \/ EditorChange(d) \/ EditorClose(d)
  BY <1>1, <1>4, <1>7
<1>8. CASE \E d \in Docs : EditorSave(d) \/ DiskWrite(d)
  BY <1>5, <1>8
<1> QED BY <1>1, <1>6, <1>7, <1>8 DEF Edit

LEMMA StepOrder ==
    ASSUME NEW h, Serial(h), Typed, Typed', InOrder(h), Next
    PROVE  InOrder(h)' /\ [View!Next]_(View!vars)
<1> USE OrderTypes
<1>1. /\ \A d \in Docs : editor[d].at \in Nat /\ shown[d].at \in Nat
      /\ \A d \in Docs : editor'[d].at \in Nat /\ shown'[d].at \in Nat
  <2>1. Times \subseteq Nat
    BY DEF Times
  <2>2. \A d \in Docs : editor'[d].at \in Times /\ shown'[d].at \in Times
    BY DEF Typed, TypeOK, DocStates
  <2> QED BY <2>1, <2>2
<1>2. CASE Edit \/ ReportWrites
  <2>1. InOrder(h)'
    BY <1>2, UserOrder
  <2>2. CASE \A e \in Docs : editor'[e].at = editor[e].at
    BY <1>2, <2>2, UserOrder DEF View!vars
  <2>3. ASSUME NEW d \in Docs, editor'[d].at > editor[d].at,
               \A e \in Docs \ {d} : editor'[e].at = editor[e].at
        PROVE  View!Next
    <3>1. shown' = shown
      BY <1>2, UserOrder
    <3>2. View!Edit(d)
      BY <1>1, <2>3, <3>1 DEF View!Edit
    <3> QED BY <3>2 DEF View!Next
  <2> QED BY <1>2, <2>1, <2>2, <2>3, UserOrder
<1>3. CASE ClientReceive
  <2>1. PICK d \in Docs : /\ shown[d].at <= shown'[d].at /\ shown'[d].at <= editor[d].at
                          /\ \A e \in Docs \ {d} : shown'[e] = shown[e]
    BY <1>3, ShowOrder
  <2>2. editor' = editor /\ InOrder(h)'
    BY <1>3, ShowOrder DEF ClientReceive, client, user
  <2>3. CASE shown[d].at = shown'[d].at
    <3>1. \A e \in Docs : shown'[e].at = shown[e].at
      BY <2>1, <2>3
    <3> QED BY <2>2, <3>1 DEF View!vars
  <2>4. CASE shown[d].at < shown'[d].at
    <3>1. View!Show(d)
      BY <1>1, <2>1, <2>2, <2>4 DEF View!Show
    <3> QED BY <2>2, <3>1 DEF View!Next
  <2> QED BY <1>1, <2>1, <2>3, <2>4
<1>4. CASE \E s \in Slots : Handle(s)
  <2>1. Handle(h)
    BY <1>4 DEF Serial
  <2> QED BY <2>1, HandlerOrder DEF View!vars
<1> QED BY <1>2, <1>3, <1>4 DEF Next

LEMMA InitOrder == ASSUME NEW h, Serial(h), Init PROVE InOrder(h) /\ View!Init
<1>1. /\ run[h].pc = "idle" /\ toClient = <<>> /\ Len(toClient) = 0
      /\ \A d \in Docs : editor[d].at = 0 /\ shown[d].at = 0 /\ ~docs[d].open
      /\ clock = 0
  BY DEF Init, Serial, IdleHandler, NothingShown, Absent
<1>2. \A i \in 1 .. Len(toServer) : ~Carries(toServer[i])
  <2>1. ~Carries(NoMessage) /\ ~Carries(Message("config", NoDoc, Absent, 1))
    BY DEF NoMessage, Message, Carries
  <2>2. toServer = <<NoMessage>> \/ toServer = <<NoMessage, Message("config", NoDoc, Absent, 1)>>
    BY DEF Init
  <2> QED BY <2>1, <2>2
<1>3. ClientOrder
  BY <1>1 DEF ClientOrder
<1>4. ServerOrder(h)
  BY <1>1 DEF ServerOrder
<1>5. \A d \in Docs, n \in Times : Coming(h, d, n) => n = 0
  BY <1>1, <1>2 DEF Coming, InHand, OnTheWay, About
<1>6. QueueOrder(h)
  BY <1>1, <1>2, <1>5 DEF QueueOrder, Past, Held, About, InHand
<1> QED BY <1>1, <1>3, <1>4, <1>6 DEF InOrder, View!Init

LEMMA OrderHolds == ASSUME NEW h, Serial(h) PROVE Spec => []InOrder(h)
<1>1. Typed /\ Typed' /\ InOrder(h) /\ [Next]_vars => InOrder(h)'
  <2>1. ASSUME InOrder(h), UNCHANGED vars PROVE InOrder(h)'
    BY <2>1 DEF vars, client, user, server, InOrder, ClientOrder, ServerOrder, QueueOrder, Past, Held,
                About, InHand, OnTheWay, Coming
  <2> QED BY <2>1, StepOrder
<1> QED BY <1>1, InitOrder, TypedHolds, PTL DEF Spec

\* On a serial connection the diagnostics shown are a lagging copy of the
\* document that never goes back (DidOpen, DidChange, DidClose,
\* publishDiagnostics, server.go:176-267 and 1779-1825): LspServer implements
\* DiagView, whatever fails, panics or is decoded to the defaults.
THEOREM RefinesDiagViewHolds == ASSUME NEW h, Slots = {h} PROVE Spec => RefinesDiagView
<1>1. Serial(h)
  BY DEF Serial
<1>2. Init => View!Init
  BY <1>1, InitOrder
<1>3. Typed /\ Typed' /\ InOrder(h) /\ [Next]_vars => [View!Next]_(View!vars)
  <2>1. UNCHANGED vars => UNCHANGED (View!vars)
    BY DEF vars, client, user, View!vars
  <2> QED BY <1>1, <2>1, StepOrder
<1> QED BY <1>1, <1>2, <1>3, OrderHolds, TypedHolds, PTL DEF Spec, RefinesDiagView, View!Spec

------------------------------------------------------------------------------
(***************************************************************************)
(* At rest the editor shows current diagnostics (CurrentAtRest), for every *)
(* document, include, configuration and number of edits, on a serial       *)
(* connection with a client that pushes the section it changed, as long as *)
(* nothing fails.                                                          *)
(*                                                                         *)
(* What is at rest has come to rest: the invariant says of every document  *)
(* which message or which place of the handler will still publish it, and  *)
(* what the last batch sent for it is when there is none.                  *)
(***************************************************************************)

\* The states of d on their way to the store, by station: -1 is the store,
\* 0 the handler about to store one, i > 0 the i-th message of the queue.
Stations == -1 .. Len(toServer)
Names(m, d) == Carries(m) /\ m.doc = d
Here(h, d, i) ==
    \/ i = -1
    \/ i = 0 /\ run[h].pc = "apply" /\ Names(run[h].msg, d)
    \/ i \in 1 .. Len(toServer) /\ Names(toServer[i], d)
Kind(h, i) == IF i = 0 THEN run[h].msg.kind ELSE toServer[i].kind
State(h, d, i) ==
    IF i = -1 THEN docs[d] ELSE IF i = 0 THEN run[h].msg.state ELSE toServer[i].state
Final(h, d, i) == Here(h, d, i) /\ \A j \in Stations : i < j => ~Here(h, d, j)
Adjacent(h, d, i, j) ==
    /\ i < j /\ Here(h, d, i) /\ Here(h, d, j)
    /\ \A k \in Stations : i < k /\ k < j => ~Here(h, d, k)

\* The last state on the way is the editor's.
Agrees(a, b) == a.open = b.open /\ (a.open => a = b)
LastIsEditor(h, d) ==
    \A i \in Stations : Final(h, d, i) =>
        /\ Agrees(State(h, d, i), editor[d])
        /\ i # -1 => State(h, d, i).at = editor[d].at

\* No state on the way is ignored by Put for its version.
Accepted(h, d) ==
    \A i, j \in Stations : Adjacent(h, d, i, j) =>
        (State(h, d, j).open /\ State(h, d, i).open
            => State(h, d, i).version <= State(h, d, j).version)

\* A message that opens or changes has an open document, one that closes not.
Shape(m) == Carries(m) => m.state.open = (m.kind # "close")
Shaped(h) == Shape(run[h].msg) /\ \A i \in 1 .. Len(toServer) : Shape(toServer[i])

\* A document never opened is open nowhere.
NeverOpened(h, d) ==
    opens[d] = 0 =>
        ~editor[d].open /\ \A i \in Stations : Here(h, d, i) => ~State(h, d, i).open

\* Until it registered watchers the server has seen no document.
StartsUp(h) ==
    \/ run[h].pc = "idle" /\ toServer # <<>> /\ toServer[1].kind = "initialized"
    \/ run[h].pc \in {"pull", "apply", "roots", "register"} /\ run[h].msg.kind = "initialized"
Starting(h) ==
    ~watching => /\ StartsUp(h)
                 /\ \A d \in Docs : ~docs[d].open

\* A state that is replaced before the next reported write counts no more.
IsReport(r) == r \in 1 .. Len(toServer) /\ toServer[r].kind = "watched"
Outlived(h, d, i) ==
    \E j, r \in Stations : i < j /\ j < r /\ Here(h, d, j) /\ IsReport(r)

\* Documents of one text have it on disk, and on the way what counts has it.
Saved(d) == d \notin diverged /\ editor[d].open => editor[d].text = disk[d]
Faithful(h, d) ==
    d \notin diverged \cup unread =>
        \A i \in Stations :
            Here(h, d, i) /\ ~Outlived(h, d, i) /\ State(h, d, i).open
                => State(h, d, i).text = disk[d]

Underway(h, d) ==
    LastIsEditor(h, d) /\ Accepted(h, d) /\ NeverOpened(h, d) /\ Saved(d) /\ Faithful(h, d)

\* Includes of which the server has nothing to hear.
Settled == {d \in Docs \ (diverged \cup unread) : \A r \in Stations : ~IsReport(r)}

\* The handler will still publish d.
Due(h, d) ==
    \/ run[h].pc \in {"roots", "register", "uris"} /\ docs[d].open
    \/ run[h].pc \in {"next", "load"} /\ d \in run[h].todo
    \/ run[h].pc = "load" /\ run[h].doc = d
    \/ run[h].pc = "clear" /\ run[h].msg.doc = d

\* What includes were loaded as, and the batches sent for d: station 0 is the
\* one shown.
Current(env, i) == env[i].roots = roots /\ (i \in Settled => env[i].text = disk[i])
Sent == 0 .. Len(toClient)
BatchOf(d, k) == IF k = 0 THEN shown[d] ELSE toClient[k]
Newest(d, k) ==
    /\ k = 0 \/ toClient[k].doc = d
    /\ \A l \in 1 .. Len(toClient) : k < l => toClient[l].doc # d
Fits(h, d, b) ==
    IF docs[d].open
    THEN /\ ~b.clear /\ b.at = docs[d].at /\ b.settings = settings
         /\ \A i \in Includes[d] : Current(b.env, i)
    ELSE /\ b.clear
         /\ Final(h, d, -1) => b.at = editor[d].at
Served(h) ==
    \A d \in Docs, k \in Sent : Newest(d, k) /\ ~Due(h, d) => Fits(h, d, BatchOf(d, k))

\* What the handler has in hand.
InWork(h) ==
    /\ run[h].pc \in {"next", "load"} => \A d \in run[h].todo : docs[d].open
    /\ run[h].pc = "load" =>
         \A i \in Docs : run[h].env[i] # Unloaded => Current(run[h].env, i)
    /\ run[h].pc = "clear" /\ Final(h, run[h].msg.doc, -1)
         => run[h].msg.state.at = editor[run[h].msg.doc].at

\* The last configuration on its way is the client's.
Configures(m) == m.kind \in {"initialized", "config"}
LastConfig(i) == \A j \in 1 .. Len(toServer) : i < j => ~Configures(toServer[j])
Applying(h) == run[h].pc \in {"pull", "apply", "roots"} /\ Configures(run[h].msg)
Configured(h) ==
    /\ \A i \in 1 .. Len(toServer) :
          toServer[i].kind = "config" /\ LastConfig(i) => toServer[i].cfg = config
    /\ run[h].pc = "roots" => /\ Configures(run[h].msg) /\ settings = run[h].msg.cfg
                              /\ run[h].msg.cfg \notin Malformed
    /\ LastConfig(0) => IF Applying(h) THEN run[h].pc # "pull" => run[h].msg.cfg = config
                        ELSE config \notin Malformed => settings = config /\ roots = config

Coherent(h) ==
    /\ \A d \in Docs : Underway(h, d)
    /\ Shaped(h) /\ Starting(h) /\ Served(h) /\ InWork(h) /\ Configured(h)
------------------------------------------------------------------------------
(* States on the move *)

\* A step of the server moves the states of d: f takes their stations back.
Active(h, d, i) == Here(h, d, i) \/ IsReport(i)
Moves(h, d, f) ==
    /\ \A i \in Stations' : Here(h, d, i)' =>
          /\ f[i] \in Stations /\ Here(h, d, f[i])
          /\ State(h, d, i)'.open = State(h, d, f[i]).open
          /\ State(h, d, i)'.open => State(h, d, i)' = State(h, d, f[i])
          /\ i # -1 => f[i] # -1 /\ State(h, d, i)'.at = State(h, d, f[i]).at
    /\ \A i \in Stations : i # -1 /\ Here(h, d, i) => \E j \in Stations' : Here(h, d, j)' /\ f[j] = i
    /\ \A i, r \in Stations : -1 < i /\ i < r /\ Here(h, d, i) /\ IsReport(r)
          => \E j \in Stations' : IsReport(j)' /\ f[j] = r
    /\ \A i, j \in Stations' : i < j /\ Active(h, d, i)' /\ Active(h, d, j)' => f[i] < f[j]

LEMMA MovesKeep ==
    ASSUME NEW h, NEW d \in Docs, NEW f, Moves(h, d, f), Len(toServer) \in Nat, Len(toServer)' \in Nat,
           UNCHANGED <<editor, opens, disk, diverged, unread>>, Underway(h, d)
    PROVE  /\ Underway(h, d)'
           /\ \A i \in Stations' : Final(h, d, i)' => Final(h, d, f[i])
<1> USE DEF Stations, Active
<1>1. ASSUME NEW i \in Stations', Final(h, d, i)' PROVE Final(h, d, f[i])
  <2>1. Here(h, d, i)' /\ Here(h, d, f[i])
    BY <1>1 DEF Final, Moves
  <2>2. ASSUME NEW j \in Stations, f[i] < j, Here(h, d, j) PROVE FALSE
    <3>0. f[i] \in Stations /\ j # -1
      BY <2>1, <2>2 DEF Moves
    <3>1. PICK q \in Stations' : Here(h, d, q)' /\ f[q] = j
      BY <2>2, <3>0 DEF Moves
    <3>2. ~(i < q) /\ i # q
      BY <1>1, <2>2, <3>1 DEF Final, Moves
    <3>3. q < i
      BY <3>2
    <3>4. f[q] < f[i]
      BY <2>1, <3>1, <3>3 DEF Moves
    <3> QED BY <2>2, <3>0, <3>1, <3>4
  <2> QED BY <2>1, <2>2 DEF Final
<1>2. ASSUME NEW i \in Stations', NEW j \in Stations', Adjacent(h, d, i, j)'
      PROVE  Adjacent(h, d, f[i], f[j])
  <2>1. /\ i < j /\ Here(h, d, i)' /\ Here(h, d, j)' /\ Here(h, d, f[i]) /\ Here(h, d, f[j])
        /\ f[i] \in Stations /\ f[j] \in Stations
    BY <1>2 DEF Adjacent, Moves
  <2>2. f[i] < f[j]
    BY <2>1 DEF Moves
  <2>3. ASSUME NEW k \in Stations, f[i] < k, k < f[j], Here(h, d, k) PROVE FALSE
    <3>1. PICK q \in Stations' : Here(h, d, q)' /\ f[q] = k
      BY <2>1, <2>3 DEF Moves
    <3>2. q < i => f[q] < f[i]
      BY <2>1, <3>1 DEF Moves
    <3>3. j < q => f[j] < f[q]
      BY <2>1, <3>1 DEF Moves
    <3>4. i < q /\ q < j
      BY <2>1, <2>3, <3>1, <3>2, <3>3
    <3> QED BY <1>2, <3>1, <3>4 DEF Adjacent
  <2> QED BY <2>1, <2>2, <2>3 DEF Adjacent
<1>3. ASSUME NEW i \in Stations', Here(h, d, i)', Outlived(h, d, f[i]) PROVE Outlived(h, d, i)'
  <2>1. PICK j \in Stations, r \in Stations : f[i] < j /\ j < r /\ Here(h, d, j) /\ IsReport(r)
    BY <1>3 DEF Outlived
  <2>2. f[i] \in Stations
    BY <1>3 DEF Moves
  <2>3. PICK q \in Stations' : Here(h, d, q)' /\ f[q] = j
    BY <2>1, <2>2 DEF Moves
  <2>4. PICK s \in Stations' : IsReport(s)' /\ f[s] = r
    BY <2>1, <2>2 DEF Moves
  <2>5. q < i => f[q] < f[i]
    BY <1>3, <2>3 DEF Moves
  <2>6. s < q => f[s] < f[q]
    BY <2>3, <2>4 DEF Moves
  <2>7. i < q /\ q < s
    BY <2>1, <2>2, <2>3, <2>4, <2>5, <2>6
  <2> QED BY <2>3, <2>4, <2>7 DEF Outlived
<1>4. LastIsEditor(h, d)'
  BY <1>1 DEF Underway, LastIsEditor, Agrees, Moves, Final
<1>5. Accepted(h, d)'
  <2> SUFFICES ASSUME NEW i \in Stations', NEW j \in Stations', Adjacent(h, d, i, j)',
                      State(h, d, j)'.open, State(h, d, i)'.open
               PROVE  State(h, d, i)'.version <= State(h, d, j)'.version
    BY DEF Accepted
  <2>1. /\ State(h, d, i)' = State(h, d, f[i]) /\ f[i] \in Stations
        /\ State(h, d, j)' = State(h, d, f[j]) /\ f[j] \in Stations
    BY DEF Adjacent, Moves
  <2> QED BY <1>2, <2>1 DEF Underway, Accepted
<1>6. NeverOpened(h, d)'
  BY DEF Underway, NeverOpened, Moves
<1>7. Faithful(h, d)'
  BY <1>3 DEF Underway, Faithful, Moves
<1>8. Saved(d)'
  BY DEF Underway, Saved
<1> QED BY <1>1, <1>4, <1>5, <1>6, <1>7, <1>8 DEF Underway

Same == [i \in Int |-> i]
Shift == [i \in Int |-> IF i = -1 THEN -1 ELSE i + 1]
Take == [i \in Int |-> IF i = -1 THEN 0 ELSE i]

\* What the lemmas below use of the types.
LEMMA StationTypes ==
    ASSUME Typed, NEW h, Serial(h)
    PROVE  /\ Len(toServer) \in Nat /\ h \in Slots /\ run[h] \in Working /\ toServer \in Seq(Carried)
           /\ run[h].msg \in Carried
           /\ \A i \in 1 .. Len(toServer) : toServer[i] \in Carried
           /\ \A m \in Carried : m.state \in DocStates /\ m.doc \in Docs \cup {NoDoc} /\ m.kind \in Kinds
           /\ docs \in [Docs -> DocStates]
BY OrderTypes DEF Typed, TypeOK, Serial, Working, Handlers, Carried, Messages

\* Nothing of d moves.
LEMMA SameMoves ==
    ASSUME Typed, NEW h, Serial(h), NEW d \in Docs, toServer' = toServer, docs'[d] = docs[d],
           Here(h, d, 0)' <=> Here(h, d, 0), Here(h, d, 0) => run'[h].msg = run[h].msg
    PROVE  Moves(h, d, Same)
<1> USE StationTypes DEF Stations, Here, Active, IsReport
<1>1. \A i \in Stations' : Same[i] = i /\ i \in Stations
  BY DEF Same
<1>2. \A i \in Stations' : Here(h, d, i)' = Here(h, d, i) /\ IsReport(i)' = IsReport(i)
  OBVIOUS
<1>3. \A i \in Stations' : Here(h, d, i) => State(h, d, i)' = State(h, d, i)
  BY DEF State
<1> HIDE DEF Here, IsReport
<1> QED BY <1>1, <1>2, <1>3 DEF Moves

\* The connection hands over the next message.
LEMMA ShiftMoves ==
    ASSUME Typed, NEW h, Serial(h), NEW d \in Docs, Receive(h)
    PROVE  Moves(h, d, Shift)
<1> DEFINE n == Len(toServer)
<1>1. /\ n \in Nat /\ n > 0 /\ toServer' = Tail(toServer) /\ Len(toServer)' = n - 1
      /\ \A i \in 1 .. n - 1 : toServer'[i] = toServer[i + 1]
      /\ Head(toServer) = toServer[1] /\ toServer[1].kind \in Kinds
  BY StationTypes, HeadTailProperties DEF Receive
<1>2. /\ run[h].pc = "idle" /\ run'[h].pc = Entry(toServer[1].kind) /\ run'[h].msg = toServer[1]
      /\ docs' = docs
  BY <1>1, StationTypes DEF Receive, At, IdleHandler, server, Typed
<1>3. Names(toServer[1], d) => Entry(toServer[1].kind) = "apply"
  BY DEF Names, Carries, Entry
<1>4. \A i \in -1 .. n - 1 : /\ i = -1 => Shift[i] = -1
                             /\ i # -1 => Shift[i] = i + 1
                             /\ Shift[i] \in -1 .. n
  BY <1>1 DEF Shift
<1>5. Here(h, d, 0)' = Here(h, d, 1) /\ ~Here(h, d, 0)
  BY <1>1, <1>2, <1>3 DEF Here, Names
<1>6. \A i \in 1 .. n - 1 : Here(h, d, i)' = Here(h, d, i + 1) /\ IsReport(i)' = IsReport(i + 1)
  BY <1>1 DEF Here, IsReport
<1>7. Here(h, d, -1) /\ Here(h, d, -1)' /\ ~IsReport(0)' /\ ~IsReport(-1)' /\ ~IsReport(0) /\ ~IsReport(-1)
  BY DEF Here, IsReport
<1>8. /\ State(h, d, -1)' = State(h, d, -1)
      /\ \A i \in 0 .. n - 1 : State(h, d, i)' = State(h, d, i + 1)
  BY <1>1, <1>2 DEF State
<1>9. Stations = -1 .. n /\ Stations' = -1 .. n - 1
  BY <1>1 DEF Stations
<1> HIDE DEF n
<1>10. ASSUME NEW i \in Stations', Here(h, d, i)'
       PROVE  /\ Shift[i] \in Stations /\ Here(h, d, Shift[i])
              /\ State(h, d, i)' = State(h, d, Shift[i]) /\ (i # -1 => Shift[i] # -1)
  <2>1. CASE i = -1
    BY <1>1, <1>4, <1>7, <1>8, <1>9, <2>1
  <2>2. CASE i = 0
    BY <1>1, <1>4, <1>5, <1>8, <1>9, <1>10, <2>2
  <2>3. CASE i \in 1 .. n - 1
    BY <1>1, <1>4, <1>6, <1>8, <1>9, <1>10, <2>3
  <2> QED BY <1>1, <1>9, <2>1, <2>2, <2>3
<1>11. ASSUME NEW i \in Stations, i # -1, Here(h, d, i) PROVE \E j \in Stations' : Here(h, d, j)' /\ Shift[j] = i
  <2>2. CASE i = 1
    <3>0. 0 \in Stations' /\ 0 \in -1 .. n - 1 /\ 0 # -1 /\ 0 + 1 = 1
      BY <1>1, <1>9
    <3>1. 0 \in Stations' /\ Shift[0] = 1
      BY <1>4, <3>0
    <3> QED BY <1>5, <1>11, <2>2, <3>1
  <2>3. CASE i \in 2 .. n
    <3>1. i - 1 \in 1 .. n - 1 /\ i - 1 \in Stations' /\ Shift[i - 1] = i /\ (i - 1) + 1 = i
      BY <1>1, <1>4, <1>9, <2>3
    <3> QED BY <1>6, <1>11, <3>1
  <2> QED BY <1>1, <1>5, <1>9, <1>11, <2>2, <2>3
<1>12. ASSUME NEW i \in Stations, NEW r \in Stations, -1 < i, i < r, Here(h, d, i), IsReport(r)
       PROVE  \E j \in Stations' : IsReport(j)' /\ Shift[j] = r
  <2>1. i # 0
    BY <1>5, <1>12
  <2>2. r - 1 \in 1 .. n - 1 /\ r - 1 \in Stations' /\ Shift[r - 1] = r /\ (r - 1) + 1 = r
    BY <1>1, <1>4, <1>9, <1>12, <2>1
  <2> QED BY <1>6, <1>12, <2>2
<1>13. \A i, j \in Stations' : i < j => Shift[i] < Shift[j]
  BY <1>1, <1>4, <1>9
<1> QED BY <1>10, <1>11, <1>12, <1>13 DEF Moves

\* The handler stores what it has in hand.
LEMMA TakeMoves ==
    ASSUME Typed, NEW h, Serial(h), NEW d \in Docs, toServer' = toServer,
           Here(h, d, 0), ~Here(h, d, 0)',
           docs'[d].open = run[h].msg.state.open, docs'[d].open => docs'[d] = run[h].msg.state
    PROVE  Moves(h, d, Take)
<1>1. Len(toServer) \in Nat /\ Stations' = Stations /\ Stations = -1 .. Len(toServer)
  BY StationTypes DEF Stations
<1>2. \A i \in Stations : (i = -1 => Take[i] = 0) /\ (i # -1 => Take[i] = i)
  BY <1>1 DEF Take
<1>3. \A i \in Stations : i # -1 /\ i # 0 => Here(h, d, i)' = Here(h, d, i)
  BY DEF Here
<1>4. \A i \in Stations : IsReport(i)' = IsReport(i) /\ (IsReport(i) => i > 0)
  BY DEF IsReport
<1>5. /\ State(h, d, -1)' = docs'[d] /\ State(h, d, 0) = run[h].msg.state
      /\ \A i \in Stations : i # -1 /\ i # 0 => State(h, d, i)' = State(h, d, i)
  BY DEF State
<1>6. Here(h, d, -1)'
  BY DEF Here
<1>7. ASSUME NEW i \in Stations', Here(h, d, i)'
      PROVE  /\ Take[i] \in Stations /\ Here(h, d, Take[i])
             /\ State(h, d, i)'.open = State(h, d, Take[i]).open
             /\ State(h, d, i)'.open => State(h, d, i)' = State(h, d, Take[i])
             /\ i # -1 => Take[i] # -1 /\ State(h, d, i)' = State(h, d, Take[i])
  <2>1. CASE i = -1
    BY <1>1, <1>2, <1>5, <2>1
  <2>2. CASE i # -1
    BY <1>1, <1>2, <1>3, <1>5, <1>7, <2>2
  <2> QED BY <2>1, <2>2
<1>8. ASSUME NEW i \in Stations, Here(h, d, i), i # -1
      PROVE  \E j \in Stations' : Here(h, d, j)' /\ Take[j] = i
  <2>1. CASE i = 0
    <3>1. -1 \in Stations'
      BY <1>1
    <3> QED BY <1>1, <1>2, <1>6, <2>1, <3>1
  <2>2. CASE i # 0
    BY <1>1, <1>2, <1>3, <1>8, <2>2
  <2> QED BY <2>1, <2>2
<1>9. \A i, j \in Stations' : i < j /\ Active(h, d, i)' /\ Active(h, d, j)' => Take[i] < Take[j]
  <2> SUFFICES ASSUME NEW i \in Stations', NEW j \in Stations', i < j, Active(h, d, j)'
               PROVE  Take[i] < Take[j]
    OBVIOUS
  <2>1. j # 0 /\ j # -1
    BY <1>1, <1>4 DEF Active
  <2> QED BY <1>1, <1>2, <2>1
<1>10. \A r \in Stations : IsReport(r) => \E j \in Stations' : IsReport(j)' /\ Take[j] = r
  BY <1>1, <1>2, <1>4
<1> QED BY <1>7, <1>8, <1>9, <1>10 DEF Moves

\* DocStore.Put stores what arrives: no version is smaller than the stored one.
LEMMA PutStores ==
    ASSUME Typed, NEW h, Serial(h), PutText(h), Shaped(h), \A e \in Docs : Accepted(h, e)
    PROVE  /\ run[h].msg.doc \in Docs /\ run[h].msg.state.open /\ Here(h, run[h].msg.doc, 0)
           /\ docs' = [docs EXCEPT ![run[h].msg.doc] = run[h].msg.state]
           /\ run'[h].pc = "next" /\ run'[h].todo = {run[h].msg.doc} /\ run'[h].msg = run[h].msg
<1> DEFINE d == run[h].msg.doc
<1>1. run[h].pc = "apply" /\ run[h].msg.kind \in {"open", "change"} /\ Carries(run[h].msg)
  BY DEF PutText, At, Carries
<1>2. d \in Docs /\ Here(h, d, 0)
  BY <1>1, StationTypes DEF Working, Here, Names
<1>3. run[h].msg.state.open
  BY <1>1 DEF Shaped, Shape
<1>4. Adjacent(h, d, -1, 0) /\ -1 \in Stations /\ 0 \in Stations
  BY <1>2, StationTypes DEF Adjacent, Here, Stations
<1>5. docs[d].open => docs[d].version <= run[h].msg.state.version
  BY <1>2, <1>3, <1>4 DEF Accepted, State
<1>6. docs[d].version \in Int /\ run[h].msg.state.version \in Int
  BY <1>2, StationTypes DEF DocStates, Times
<1>7. Put(d, run[h].msg.state)
  BY DEF PutText
<1>8. docs' = [docs EXCEPT ![d] = run[h].msg.state]
  BY <1>5, <1>6, <1>7 DEF Put
<1>9. run'[h].pc = "next" /\ run'[h].todo = {d} /\ run'[h].msg = run[h].msg
  BY StationTypes DEF PutText, Typed, Working, Handlers
<1> QED BY <1>2, <1>3, <1>8, <1>9

LEMMA RemoveStores ==
    ASSUME Typed, NEW h, Serial(h), RemoveDoc(h), Shaped(h)
    PROVE  /\ run[h].msg.doc \in Docs /\ ~run[h].msg.state.open /\ Here(h, run[h].msg.doc, 0)
           /\ docs' = [docs EXCEPT ![run[h].msg.doc] = Absent]
           /\ run'[h].pc = "clear" /\ run'[h].msg = run[h].msg
<1>1. run[h].pc = "apply" /\ run[h].msg.kind = "close" /\ Carries(run[h].msg)
  BY DEF RemoveDoc, At, Carries
<1>2. run[h].msg.doc \in Docs /\ Here(h, run[h].msg.doc, 0)
  BY <1>1, StationTypes DEF Working, Here, Names
<1>3. ~run[h].msg.state.open
  BY <1>1 DEF Shaped, Shape
<1>4. run'[h].pc = "clear" /\ run'[h].msg = run[h].msg
  BY StationTypes DEF RemoveDoc, Goto, Typed, Working, Handlers
<1> QED BY <1>2, <1>3, <1>4 DEF RemoveDoc

\* A handler that neither receives nor stores moves nothing.
Inner(h) ==
    \/ PublishClear(h) \/ PullSettings(h) \/ StoreSettings(h) \/ StoreRoots(h)
    \/ RegisterWatchers(h) \/ Republish(h)
    \/ \E d \in Docs : GetText(h, d) \/ LoadInclude(h, d)
    \/ PublishDiagnostics(h) \/ Panic(h) \/ Return(h)

LEMMA InnerStill ==
    ASSUME Typed, NEW h, Serial(h), Inner(h)
    PROVE  /\ toServer' = toServer /\ docs' = docs
           /\ \A d \in Docs : ~Here(h, d, 0) /\ ~Here(h, d, 0)'
<1> USE StationTypes
<1>1. toServer' = toServer /\ docs' = docs
  BY DEF Inner, PublishClear, PullSettings, StoreSettings, StoreRoots, RegisterWatchers, Republish,
         GetText, LoadInclude, PublishDiagnostics, Panic, Return, server
<1>2. run[h].pc = "apply" => ~Carries(run[h].msg)
  BY DEF Inner, PublishClear, PullSettings, StoreSettings, StoreRoots, RegisterWatchers, Republish,
         GetText, LoadInclude, PublishDiagnostics, Loaded, Panic, Return, At, Carries
<1>3. CASE PullSettings(h)
  <2>1. run[h].msg.kind = "initialized"
    BY <1>3 DEF PullSettings, At, Working
  <2>2. run'[h].msg.kind = "initialized"
    <3>1. CASE run' = [run EXCEPT ![h].pc = "apply", ![h].msg.cfg = config]
      <4>1. run'[h] = [run[h] EXCEPT !.pc = "apply", !.msg.cfg = config]
        BY <3>1 DEF Typed
      <4> QED BY <2>1, <4>1 DEF Working, Handlers, Messages
    <3>2. CASE Goto(h, "register")
      BY <2>1, <3>2 DEF Goto, Typed, Working, Handlers
    <3> QED BY <1>3, <3>1, <3>2 DEF PullSettings
  <2> QED BY <1>1, <1>2, <2>2 DEF Here, Names, Carries
<1>4. CASE ~PullSettings(h)
  <2>1. AfterApply(run[h].msg.kind) # "apply"
    BY DEF AfterApply
  <2>2. StoreSettings(h) \/ StoreRoots(h) \/ RegisterWatchers(h) \/ Republish(h) => run'[h].pc # "apply"
    BY <2>1 DEF StoreSettings, StoreRoots, RegisterWatchers, Republish, Goto, Typed, Working, Handlers
  <2>3. PublishClear(h) \/ Panic(h) \/ Return(h) => run'[h].pc # "apply"
    BY DEF PublishClear, Panic, Return, Finish, IdleHandler, Typed
  <2>4. PublishDiagnostics(h) \/ (\E d \in Docs : GetText(h, d) \/ LoadInclude(h, d)) => run'[h].pc # "apply"
    <3>1. PublishDiagnostics(h) => run'[h].pc # "apply"
      BY DEF PublishDiagnostics, Goto, Typed, Working, Handlers
    <3>2. ASSUME NEW d \in Docs, GetText(h, d) PROVE run'[h].pc # "apply"
      BY <3>2 DEF GetText, At, Typed, Working, Handlers
    <3>3. ASSUME NEW d \in Docs, LoadInclude(h, d) PROVE run'[h].pc # "apply"
      BY <3>3 DEF LoadInclude, At, Typed, Working, Handlers
    <3> QED BY <3>1, <3>2, <3>3
  <2>5. run'[h].pc # "apply"
    BY <1>4, <2>2, <2>3, <2>4 DEF Inner
  <2> QED BY <1>1, <1>2, <2>5 DEF Here, Names
<1> QED BY <1>3, <1>4

LEMMA HandleCases == ASSUME NEW h PROVE Handle(h) <=> Receive(h) \/ PutText(h) \/ RemoveDoc(h) \/ Inner(h)
BY DEF Handle, Inner

\* The server keeps the states of every document on their way, and the store
\* has the last one only when it had it or takes it.
LEMMA ServerUnderway ==
    ASSUME Typed, Typed', NEW h, Serial(h), Shaped(h), \A e \in Docs : Underway(h, e), Handle(h),
           NEW d \in Docs
    PROVE  /\ Underway(h, d)'
           /\ Final(h, d, -1)' => \/ Final(h, d, -1)
                                  \/ /\ Final(h, d, 0) /\ run[h].msg.doc = d
                                     /\ PutText(h) \/ RemoveDoc(h)
<1> USE StationTypes
<1>1. UNCHANGED <<editor, opens, disk, diverged, unread>>
  BY HandleCases DEF Inner, Receive, PutText, RemoveDoc, PublishClear, PullSettings, StoreSettings, StoreRoots,
         RegisterWatchers, Republish, GetText, LoadInclude, PublishDiagnostics, Panic, Return, client, user
<1>2. Len(toServer) \in Nat /\ Len(toServer)' \in Nat
  BY DEF Serial
<1>3. -1 \in Stations' /\ Same[-1] = -1 /\ Shift[-1] = -1 /\ Take[-1] = 0
  BY <1>2 DEF Stations, Same, Shift, Take
<1>4. CASE Receive(h)
  BY <1>1, <1>2, <1>3, <1>4, ShiftMoves, MovesKeep
<1>5. CASE Inner(h)
  BY <1>1, <1>2, <1>3, <1>5, InnerStill, SameMoves, MovesKeep
<1>6. CASE PutText(h) \/ RemoveDoc(h)
  <2>1. /\ toServer' = toServer /\ run[h].msg.doc \in Docs /\ Carries(run[h].msg)
        /\ run'[h].pc # "apply" /\ Here(h, run[h].msg.doc, 0) /\ docs' \in [Docs -> DocStates]
        /\ docs' = [docs EXCEPT ![run[h].msg.doc] =
                      IF run[h].msg.state.open THEN run[h].msg.state ELSE Absent]
    <3>1. \A e \in Docs : Accepted(h, e)
      BY DEF Underway
    <3>2. CASE PutText(h)
      BY <3>1, <3>2, PutStores DEF PutText, Carries, Typed, TypeOK
    <3>3. CASE RemoveDoc(h)
      BY <3>3, RemoveStores DEF RemoveDoc, Carries, Typed, TypeOK
    <3> QED BY <1>6, <3>2, <3>3
  <2>2. \A e \in Docs : ~Here(h, e, 0)'
    BY <2>1 DEF Here
  <2>3. CASE d = run[h].msg.doc
    <3>1. docs'[d].open = run[h].msg.state.open /\ (docs'[d].open => docs'[d] = run[h].msg.state)
      <4>1. run[h].msg.state.open \in BOOLEAN /\ Absent.open = FALSE
        BY DEF DocStates, Absent
      <4> QED BY <2>1, <2>3, <4>1
    <3>2. Moves(h, d, Take)
      BY <2>1, <2>2, <2>3, <3>1, TakeMoves
    <3> QED BY <1>1, <1>2, <1>3, <1>6, <2>3, <3>2, MovesKeep
  <2>4. CASE d # run[h].msg.doc
    <3>1. docs'[d] = docs[d] /\ ~Here(h, d, 0)
      BY <2>1, <2>4 DEF Here, Names
    <3>2. Moves(h, d, Same)
      BY <2>1, <2>2, <3>1, SameMoves
    <3> QED BY <1>1, <1>2, <1>3, <3>2, MovesKeep
  <2> QED BY <2>3, <2>4
<1> QED BY <1>4, <1>5, <1>6, HandleCases

------------------------------------------------------------------------------
(* What the user does *)

\* One message more in the queue.
Longer(h, d, m, n) ==
    /\ n \in Nat /\ Stations = -1 .. n /\ Stations' = -1 .. n + 1
    /\ \A i \in Stations : /\ Here(h, d, i)' <=> Here(h, d, i)
                           /\ IsReport(i)' <=> IsReport(i)
                           /\ State(h, d, i)' = State(h, d, i)
    /\ Here(h, d, n + 1)' <=> Names(m, d)
    /\ IsReport(n + 1)' <=> m.kind = "watched"
    /\ State(h, d, n + 1)' = m.state

LEMMA LongerQueue ==
    ASSUME Typed, NEW h, Serial(h), NEW m, toServer' = Append(toServer, m), run' = run, docs' = docs,
           NEW d, NEW n, n = Len(toServer)
    PROVE  Longer(h, d, m, n)
<1>1. /\ n \in Nat /\ Len(toServer)' = n + 1 /\ toServer'[n + 1] = m
      /\ \A i \in 1 .. n : toServer'[i] = toServer[i]
  BY StationTypes
<1>2. Stations = -1 .. n /\ Stations' = -1 .. n + 1
  BY <1>1 DEF Stations
<1>3. \A i \in Stations : /\ Here(h, d, i)' <=> Here(h, d, i)
                          /\ IsReport(i)' <=> IsReport(i)
                          /\ State(h, d, i)' = State(h, d, i)
  BY <1>1, <1>2 DEF Here, IsReport, State
<1>4. /\ Here(h, d, n + 1)' <=> Names(m, d)
      /\ IsReport(n + 1)' <=> m.kind = "watched"
      /\ State(h, d, n + 1)' = m.state
  BY <1>1, <1>2 DEF Here, IsReport, State
<1> QED BY <1>1, <1>2, <1>3, <1>4 DEF Longer

\* A message that does not name e.
LEMMA PassesBy ==
    ASSUME Typed, NEW h, Serial(h), NEW m, toServer' = Append(toServer, m), run' = run, docs' = docs,
           NEW e \in Docs, ~Names(m, e), Underway(h, e), editor'[e] = editor[e], opens'[e] = opens[e],
           disk'[e] = disk[e], e \in diverged' <=> e \in diverged,
           m.kind = "watched" \/ (e \in unread => e \in unread')
    PROVE  Underway(h, e)'
<1>0. PICK n : n = Len(toServer)
  OBVIOUS
<1>1. /\ n \in Nat /\ Stations = -1 .. n /\ Stations' = -1 .. n + 1
      /\ \A i \in Stations : /\ Here(h, e, i)' <=> Here(h, e, i)
                             /\ IsReport(i)' <=> IsReport(i)
                             /\ State(h, e, i)' = State(h, e, i)
      /\ ~Here(h, e, n + 1)' /\ (IsReport(n + 1)' <=> m.kind = "watched")
  <2>1. Longer(h, e, m, n)
    BY <1>0, LongerQueue
  <2> QED BY <2>1 DEF Longer
<1>2. \A i \in Stations' : Here(h, e, i)' => i \in Stations /\ Here(h, e, i)
  BY <1>1
<1>3. \A i \in Stations : Final(h, e, i)' => Final(h, e, i)
  BY <1>1 DEF Final
<1>4. LastIsEditor(h, e)'
  BY <1>1, <1>2, <1>3 DEF Underway, LastIsEditor, Final
<1>5. Accepted(h, e)'
  <2> SUFFICES ASSUME NEW i \in Stations', NEW j \in Stations', Adjacent(h, e, i, j)'
               PROVE  /\ i \in Stations /\ j \in Stations /\ Adjacent(h, e, i, j)
                      /\ State(h, e, i)' = State(h, e, i) /\ State(h, e, j)' = State(h, e, j)
    BY DEF Underway, Accepted
  <2>1. i \in Stations /\ j \in Stations
    BY <1>2 DEF Adjacent
  <2> QED BY <1>1, <2>1 DEF Adjacent
<1>6. NeverOpened(h, e)'
  BY <1>1, <1>2 DEF Underway, NeverOpened
<1>7. Saved(e)'
  BY DEF Underway, Saved
<1>8. Faithful(h, e)'
  <2> SUFFICES ASSUME e \notin diverged, e \notin unread',
                      NEW i \in Stations, Here(h, e, i), ~Outlived(h, e, i)', State(h, e, i).open
               PROVE  State(h, e, i).text = disk[e]
    BY <1>1, <1>2 DEF Faithful
  <2>1. CASE m.kind = "watched"
    <3>1. Final(h, e, i)
      <4> SUFFICES ASSUME NEW j \in Stations, i < j, Here(h, e, j) PROVE FALSE
        BY DEF Final
      <4>1. j < n + 1 /\ n + 1 \in Stations' /\ j \in Stations'
        BY <1>1
      <4> QED BY <1>1, <2>1, <4>1 DEF Outlived
    <3> QED BY <3>1 DEF Underway, LastIsEditor, Agrees, Saved
  <2>2. CASE m.kind # "watched"
    <3>1. ~Outlived(h, e, i)
      <4>1. \A j \in Stations : j \in Stations'
        BY <1>1
      <4> QED BY <1>1, <4>1 DEF Outlived
    <3> QED BY <2>2, <3>1 DEF Underway, Faithful
  <2> QED BY <2>1, <2>2
<1> QED BY <1>4, <1>5, <1>6, <1>7, <1>8 DEF Underway

\* The event of a document: its state is the last on the way.
LEMMA SetsOut ==
    ASSUME Typed, NEW h, Serial(h), NEW m, toServer' = Append(toServer, m), run' = run, docs' = docs,
           NEW d \in Docs, Names(m, d), m.kind # "watched", Underway(h, d), editor'[d] = m.state,
           m.state.open /\ editor[d].open => editor[d].version <= m.state.version,
           opens'[d] # 0, disk'[d] = disk[d], d \in diverged => d \in diverged', unread' = unread,
           d \notin diverged' /\ m.state.open => m.state.text = disk[d]
    PROVE  Underway(h, d)'
<1>0. PICK n : n = Len(toServer)
  OBVIOUS
<1>1. /\ n \in Nat /\ Stations = -1 .. n /\ Stations' = -1 .. n + 1
      /\ \A i \in Stations : /\ Here(h, d, i)' <=> Here(h, d, i)
                             /\ IsReport(i)' <=> IsReport(i)
                             /\ State(h, d, i)' = State(h, d, i)
      /\ Here(h, d, n + 1)' <=> Names(m, d)
      /\ State(h, d, n + 1)' = m.state
  <2>1. Longer(h, d, m, n)
    BY <1>0, LongerQueue
  <2> QED BY <2>1 DEF Longer
<1>2. \A i \in Stations' : i \in Stations \/ i = n + 1
  BY <1>1
<1>3. n + 1 \in Stations' /\ \A i \in Stations : i < n + 1 /\ i \in Stations'
  BY <1>1
<1>4. LastIsEditor(h, d)'
  BY <1>1, <1>2, <1>3 DEF LastIsEditor, Final, Agrees
<1>5. Accepted(h, d)'
  <2> SUFFICES ASSUME NEW i \in Stations', NEW j \in Stations', Adjacent(h, d, i, j)',
                      State(h, d, j)'.open, State(h, d, i)'.open
               PROVE  State(h, d, i)'.version <= State(h, d, j)'.version
    BY DEF Accepted
  <2>1. i \in Stations
    BY <1>1, <1>2 DEF Adjacent
  <2>2. CASE j \in Stations
    <3>1. Adjacent(h, d, i, j)
      BY <1>1, <1>3, <2>1, <2>2 DEF Adjacent
    <3> QED BY <1>1, <2>1, <2>2, <3>1 DEF Underway, Accepted
  <2>3. CASE j = n + 1
    <3>1. Final(h, d, i)
      BY <1>1, <1>3, <2>1, <2>3 DEF Adjacent, Final
    <3>2. State(h, d, i) = editor[d] /\ editor[d].open
      BY <1>1, <2>1, <3>1 DEF Underway, LastIsEditor, Agrees
    <3> QED BY <1>1, <2>1, <2>3, <3>2
  <2> QED BY <1>2, <2>2, <2>3
<1>6. NeverOpened(h, d)' /\ Saved(d)'
  BY DEF NeverOpened, Saved
<1>7. Faithful(h, d)'
  <2> SUFFICES ASSUME d \notin diverged', d \notin unread,
                      NEW i \in Stations', Here(h, d, i)', ~Outlived(h, d, i)', State(h, d, i)'.open
               PROVE  State(h, d, i)'.text = disk[d]
    BY DEF Faithful
  <2>1. CASE i = n + 1
    BY <1>1, <2>1
  <2>2. CASE i \in Stations
    <3>1. ~Outlived(h, d, i)
      BY <1>1, <1>3 DEF Outlived
    <3> QED BY <1>1, <2>2, <3>1 DEF Underway, Faithful
  <2> QED BY <1>2, <2>1, <2>2
<1> QED BY <1>4, <1>5, <1>6, <1>7 DEF Underway

\* A save or a write: what d was before counts no more, or goes on to count.
LEMMA Written ==
    ASSUME Typed, NEW h, Serial(h), NEW d \in Docs, EditorSave(d) \/ DiskWrite(d),
           NEW e \in Docs, Underway(h, e)
    PROVE  Underway(h, e)'
<1>1. /\ UNCHANGED <<editor, opens, toServer, run, docs, watching>>
      /\ unread \subseteq unread' /\ (watching => d \in unread')
      /\ e # d => disk'[e] = disk[e] /\ (e \in diverged' <=> e \in diverged)
      /\ disk \in [Docs -> Times]
  BY DEF EditorSave, DiskWrite, server, Typed, TypeOK
<1>2. /\ \A i \in Stations : /\ Here(h, e, i)' <=> Here(h, e, i)
                             /\ IsReport(i)' <=> IsReport(i)
                             /\ State(h, e, i)' = State(h, e, i)
      /\ Stations' = Stations
  BY <1>1 DEF Here, IsReport, State, Stations
<1>3. LastIsEditor(h, e)'
  BY <1>1, <1>2 DEF Underway, LastIsEditor, Final
<1>4. Accepted(h, e)'
  BY <1>1, <1>2 DEF Underway, Accepted, Adjacent
<1>5. NeverOpened(h, e)'
  BY <1>1, <1>2 DEF Underway, NeverOpened
<1>6. \A i \in Stations : Outlived(h, e, i)' <=> Outlived(h, e, i)
  BY <1>2 DEF Outlived
<1>7. CASE e # d
  <2>1. Saved(e)'
    BY <1>1, <1>7 DEF Underway, Saved
  <2>2. Faithful(h, e)'
    BY <1>1, <1>2, <1>6, <1>7 DEF Underway, Faithful
  <2> QED BY <1>3, <1>4, <1>5, <2>1, <2>2 DEF Underway
<1>8. CASE e = d /\ EditorSave(d)
  <2>1. watching => disk'[d] = editor[d].text
    BY <1>1, <1>8 DEF EditorSave
  <2>2. ~watching => d \in diverged'
    BY <1>8 DEF EditorSave, Underway, Saved
  <2> QED BY <1>1, <1>3, <1>4, <1>5, <1>8, <2>1, <2>2 DEF Underway, Saved, Faithful
<1>9. CASE e = d /\ DiskWrite(d)
  <2>1. editor[d].open => d \in diverged'
    BY <1>9 DEF DiskWrite
  <2>2. d \in unread' \/ d \in diverged' \/ opens[d] = 0
    <3>1. opens[d] \in 0 .. MaxOpens
      BY DEF Typed, TypeOK
    <3> QED BY <1>1, <1>9, <3>1 DEF DiskWrite
  <2>3. opens[d] = 0 => \A i \in Stations : Here(h, e, i) => ~State(h, e, i).open
    BY <1>9 DEF Underway, NeverOpened
  <2>4. Saved(e)'
    BY <1>1, <1>9, <2>1 DEF Saved
  <2>5. Faithful(h, e)'
    BY <1>2, <1>9, <2>2, <2>3 DEF Faithful
  <2> QED BY <1>3, <1>4, <1>5, <2>4, <2>5 DEF Underway
<1> QED BY <1>7, <1>8, <1>9

LEMMA UserUnderway ==
    ASSUME Typed, NEW h, Serial(h), \A e \in Docs : Underway(h, e), Edit \/ ReportWrites
    PROVE  \A e \in Docs : Underway(h, e)'
<1>1. ASSUME NEW d \in Docs, NEW kind \in {"open", "change", "close"}, NEW state,
             Send(Message(kind, d, state, 0)), editor' = [editor EXCEPT ![d] = state],
             state.open /\ editor[d].open => editor[d].version <= state.version,
             opens'[d] # 0, \A e \in Docs \ {d} : opens'[e] = opens[e],
             diverged' = diverged \/ diverged' = diverged \cup {d},
             d \notin diverged' /\ state.open => state.text = disk[d],
             UNCHANGED <<disk, unread, run, docs>>,
             NEW e \in Docs
      PROVE  Underway(h, e)'
  <2>1. PICK m : m = Message(kind, d, state, 0)
    OBVIOUS
  <2>2. /\ m.kind = kind /\ m.doc = d /\ m.state = state /\ m.kind # "watched" /\ Names(m, d)
        /\ toServer' = Append(toServer, m) /\ ~(e # d /\ Names(m, e))
    BY <1>1, <2>1 DEF Message, Names, Carries, Send
  <2>3. editor \in [Docs -> DocStates]
    BY DEF Typed, TypeOK
  <2>4. CASE e = d
    BY <1>1, <2>2, <2>3, <2>4, SetsOut
  <2>5. CASE e # d
    BY <1>1, <2>2, <2>3, <2>5, PassesBy
  <2> QED BY <2>4, <2>5
<1>2. /\ Openable \subseteq Docs /\ opens \in [Docs -> 0 .. MaxOpens]
      /\ \A d \in Docs : opens[d] = 0 => ~editor[d].open
      /\ editor \in [Docs -> DocStates] /\ \A d \in Docs : editor[d].version \in Int
  BY DocsAssumption DEF Typed, TypeOK, Underway, NeverOpened, DocStates, Times
<1>3. ASSUME NEW d \in Openable, EditorOpen(d), NEW e \in Docs PROVE Underway(h, e)'
  <2> DEFINE state == [open |-> TRUE, at |-> clock + 1, text |-> disk[d], version |-> 1]
  <2>1. /\ Send(Message("open", d, state, 0)) /\ editor' = [editor EXCEPT ![d] = state]
        /\ ~editor[d].open /\ state.text = disk[d] /\ d \in Docs
        /\ UNCHANGED <<disk, unread, run, docs, diverged>>
    BY <1>2, <1>3 DEF EditorOpen, server
  <2>2. opens'[d] # 0 /\ \A x \in Docs \ {d} : opens'[x] = opens[x]
    BY <1>2, <1>3 DEF EditorOpen
  <2> HIDE DEF state
  <2> QED BY <1>1, <2>1, <2>2
<1>4. ASSUME NEW d \in Openable, EditorChange(d), NEW e \in Docs PROVE Underway(h, e)'
  <2> DEFINE state == [open |-> TRUE, at |-> clock + 1, text |-> clock + 1,
                       version |-> editor[d].version + 1]
  <2>1. /\ Send(Message("change", d, state, 0)) /\ editor' = [editor EXCEPT ![d] = state]
        /\ editor[d].version <= state.version /\ opens[d] # 0 /\ d \in Docs
        /\ diverged' = diverged \cup {d} /\ d \in diverged'
        /\ UNCHANGED <<disk, unread, run, docs, opens>>
    BY <1>2, <1>4 DEF EditorChange, server
  <2> HIDE DEF state
  <2> QED BY <1>1, <2>1
<1>5. ASSUME NEW d \in Openable, EditorClose(d), NEW e \in Docs PROVE Underway(h, e)'
  <2> DEFINE state == [Absent EXCEPT !.at = clock + 1]
  <2>1. /\ Send(Message("close", d, state, 0)) /\ editor' = [editor EXCEPT ![d] = state]
        /\ ~state.open /\ opens[d] # 0 /\ d \in Docs
        /\ UNCHANGED <<disk, unread, run, docs, opens, diverged>>
    BY <1>2, <1>5 DEF EditorClose, server, Absent
  <2> HIDE DEF state
  <2> QED BY <1>1, <2>1
<1>6. ASSUME NEW d \in Docs, EditorSave(d) \/ DiskWrite(d), NEW e \in Docs PROVE Underway(h, e)'
  BY <1>6, Written
<1>7. ASSUME Configure, NEW e \in Docs PROVE Underway(h, e)'
  <2>1. UNCHANGED <<editor, opens, disk, diverged, unread, run, docs>>
    BY <1>7 DEF Configure, server
  <2>2. CASE PushesChanges
    <3>1. PICK m : m = Message("config", NoDoc, Absent, config + 1)
      OBVIOUS
    <3>2. ~Names(m, e) /\ toServer' = Append(toServer, m)
      BY <1>7, <2>2, <3>1 DEF Message, Names, Carries, Configure, Send
    <3> QED BY <2>1, <3>2, PassesBy
  <2>3. CASE ~PushesChanges
    <3>1. toServer' = toServer /\ Here(h, e, 0)' <=> Here(h, e, 0)
      BY <1>7, <2>1, <2>3 DEF Configure, Here
    <3>2. Moves(h, e, Same)
      BY <1>7, <2>1, <2>3, <3>1, SameMoves DEF Configure
    <3> QED BY <1>7, <2>1, <2>3, <3>2, MovesKeep, StationTypes DEF Configure
  <2> QED BY <2>2, <2>3
<1>8. ASSUME ReportWrites, NEW e \in Docs PROVE Underway(h, e)'
  <2>1. PICK m : m = Message("watched", NoDoc, Absent, 0)
    OBVIOUS
  <2>2. /\ m.kind = "watched" /\ ~Names(m, e) /\ toServer' = Append(toServer, m)
        /\ UNCHANGED <<editor, opens, disk, diverged, run, docs>>
    BY <1>8, <2>1 DEF Message, Names, Carries, ReportWrites, Send, server
  <2> QED BY <2>2, PassesBy
<1>9. CASE \E d \in Openable : EditorOpen(d) \/ EditorChange(d) \/ EditorClose(d) \/ EditorSave(d)
  BY <1>2, <1>3, <1>4, <1>5, <1>6, <1>9
<1>10. CASE \E d \in Docs : DiskWrite(d)
  BY <1>6, <1>10
<1> QED BY <1>7, <1>8, <1>9, <1>10 DEF Edit

------------------------------------------------------------------------------
(* Messages, the start and the configuration *)

\* The handler's other steps leave the settings, the queue and the store alone
\* and begin nothing.
Early == {"idle", "pull", "apply", "roots"}
Other(h) == Inner(h) /\ ~PullSettings(h) /\ ~StoreSettings(h) /\ ~StoreRoots(h)
LEMMA OtherSteps ==
    ASSUME Typed, NEW h, Serial(h), Other(h)
    PROVE  /\ run[h].pc \notin Early /\ run'[h].pc \notin Early \ {"idle"}
           /\ run'[h].msg = run[h].msg \/ run'[h].msg = NoMessage
           /\ UNCHANGED <<toServer, settings, roots, config, docs>>
           /\ run[h].pc = "register" => RegisterWatchers(h)
<1> USE StationTypes DEF Early
<1>1. UNCHANGED <<toServer, settings, roots, config, docs>>
  BY DEF Other, Inner, PublishClear, RegisterWatchers, Republish, GetText, LoadInclude, PublishDiagnostics,
         Panic, Return, client, user, server
<1>2. CASE PublishClear(h) \/ Panic(h) \/ Return(h)
  <2>1. run'[h] = IdleHandler
    BY <1>2 DEF PublishClear, Panic, Return, Finish, Typed
  <2>2. run[h].pc \in {"clear", "load", "next"}
    BY <1>2 DEF PublishClear, Panic, Return, Loaded, At
  <2>3. run'[h].pc = "idle" /\ run'[h].msg = NoMessage
    BY <2>1 DEF IdleHandler
  <2> QED BY <1>1, <2>2, <2>3
<1>3. CASE RegisterWatchers(h) \/ Republish(h) \/ PublishDiagnostics(h)
  <2>1. run[h].pc \in {"register", "uris", "load"} /\ (run[h].pc = "register" => RegisterWatchers(h))
    BY <1>3 DEF RegisterWatchers, Republish, PublishDiagnostics, Loaded, At
  <2>2. run'[h].pc \in {"uris", "next"} /\ run'[h].msg = run[h].msg
    BY <1>3 DEF RegisterWatchers, Republish, PublishDiagnostics, Goto, Typed, Working, Handlers
  <2> QED BY <1>1, <2>1, <2>2
<1>4. ASSUME NEW d \in Docs, GetText(h, d)
      PROVE  /\ run[h].pc = "next" /\ run'[h].pc \in {"next", "load"} /\ run'[h].msg = run[h].msg
  BY <1>4 DEF GetText, At, Typed, Working, Handlers
<1>5. ASSUME NEW d \in Docs, LoadInclude(h, d)
      PROVE  /\ run[h].pc = "load" /\ run'[h].pc = "load" /\ run'[h].msg = run[h].msg
  BY <1>5 DEF LoadInclude, At, Typed, Working, Handlers
<1> QED BY <1>1, <1>2, <1>3, <1>4, <1>5 DEF Other, Inner

LEMMA PullStep ==
    ASSUME Typed, NEW h, Serial(h), PullSettings(h), faults' = faults
    PROVE  /\ run[h].pc = "pull" /\ run[h].msg.kind = "initialized"
           /\ run'[h].pc = "apply" /\ run'[h].msg.kind = "initialized" /\ run'[h].msg.cfg = config
           /\ UNCHANGED <<toServer, settings, roots, config, docs, watching>>
<1>1. ~Fault
  BY FaultsAssumption DEF Fault, Typed, TypeOK
<1>2. run' = [run EXCEPT ![h].pc = "apply", ![h].msg.cfg = config]
  BY <1>1 DEF PullSettings
<1>3. run'[h] = [run[h] EXCEPT !.pc = "apply", !.msg.cfg = config]
  BY <1>2, StationTypes DEF Typed
<1>4. run[h].pc = "pull" /\ run[h].msg.kind = "initialized"
  BY StationTypes DEF PullSettings, At, Working
<1> QED BY <1>3, <1>4, StationTypes DEF Working, Handlers, Messages, PullSettings, user, server

LEMMA SettingsStep ==
    ASSUME Typed, NEW h, Serial(h), StoreSettings(h) \/ StoreRoots(h), Client = "generic"
    PROVE  /\ run'[h].msg = run[h].msg
           /\ UNCHANGED <<toServer, config, docs, watching>>
           /\ StoreSettings(h) =>
                /\ run[h].pc = "apply" /\ Configures(run[h].msg)
                /\ IF run[h].msg.cfg \in Malformed
                   THEN /\ run'[h].pc \in {"register", "uris"} /\ UNCHANGED <<settings, roots>>
                   ELSE run'[h].pc = "roots" /\ settings' = run[h].msg.cfg
           /\ StoreRoots(h) => /\ run[h].pc = "roots" /\ run'[h].pc \in {"register", "uris"}
                               /\ settings' = settings /\ roots' = run[h].msg.cfg
           /\ run[h].msg.kind = "initialized" => run'[h].pc \in {"roots", "register"}
<1>1. Decode(run[h].msg) = run[h].msg.cfg
  BY DEF Decode, Wrapped
<1>2. /\ AfterApply(run[h].msg.kind) \in {"register", "uris"}
      /\ run[h].msg.kind = "initialized" => AfterApply(run[h].msg.kind) = "register"
  BY DEF AfterApply
<1>3. run'[h].msg = run[h].msg
  BY StationTypes DEF StoreSettings, StoreRoots, Goto, Typed, Working, Handlers
<1>4. StoreSettings(h) =>
        IF run[h].msg.cfg \in Malformed
        THEN /\ run'[h].pc = AfterApply(run[h].msg.kind) /\ UNCHANGED <<settings, roots>>
        ELSE run'[h].pc = "roots" /\ settings' = run[h].msg.cfg
  BY <1>1, StationTypes DEF StoreSettings, Rejected, Goto, Typed, Working, Handlers
<1>5. StoreRoots(h) => run'[h].pc = AfterApply(run[h].msg.kind)
  BY <1>1, StationTypes DEF StoreRoots, Goto, Typed, Working, Handlers
<1> QED BY <1>1, <1>2, <1>3, <1>4, <1>5 DEF StoreSettings, StoreRoots, At, Configures, client, user

\* What the connection hands over.
LEMMA ReceiveStep ==
    ASSUME Typed, NEW h, Serial(h), Receive(h)
    PROVE  /\ Len(toServer) > 0 /\ toServer' = Tail(toServer) /\ Len(toServer)' = Len(toServer) - 1
           /\ \A i \in 1 .. Len(toServer) - 1 : toServer'[i] = toServer[i + 1]
           /\ run[h].pc = "idle" /\ run'[h].msg = toServer[1] /\ run'[h].pc = Entry(toServer[1].kind)
           /\ UNCHANGED <<settings, roots, config, docs, watching>>
<1>1. /\ Len(toServer) > 0 /\ toServer' = Tail(toServer) /\ Len(toServer)' = Len(toServer) - 1
      /\ \A i \in 1 .. Len(toServer) - 1 : toServer'[i] = toServer[i + 1]
      /\ Head(toServer) = toServer[1]
  BY StationTypes, HeadTailProperties DEF Receive
<1> QED BY <1>1, StationTypes DEF Receive, At, IdleHandler, server, client, user, Typed

LEMMA ShapedStep ==
    ASSUME Typed, NEW h, Serial(h), Shaped(h), \A e \in Docs : Accepted(h, e), Next
    PROVE  Shaped(h)'
<1> USE StationTypes
<1>1. Shape(NoMessage) /\ \A m : m.kind \in {"config", "watched", "initialized"} => Shape(m)
  BY DEF Shape, Carries, NoMessage, Message
<1>2. ASSUME NEW m, Shape(m), toServer' = Append(toServer, m), run' = run PROVE Shaped(h)'
  BY <1>2 DEF Shaped
<1>3. CASE Edit \/ ReportWrites
  <2>1. Openable \subseteq Docs
    BY DocsAssumption
  <2>2. ASSUME NEW d \in Docs, EditorOpen(d) \/ EditorChange(d) \/ EditorClose(d)
        PROVE  \E m : Shape(m) /\ toServer' = Append(toServer, m) /\ run' = run
    BY <2>2 DEF EditorOpen, EditorChange, EditorClose, Send, Shape, Message, Absent
  <2>3. Configure \/ ReportWrites =>
          toServer' = toServer \/ \E m : Shape(m) /\ toServer' = Append(toServer, m)
    BY DEF Configure, ReportWrites, Send, Shape, Carries, Message
  <2>4. run' = run
    BY <1>3 DEF Edit, ReportWrites, EditorOpen, EditorChange, EditorClose, EditorSave, DiskWrite, Configure
  <2>5. toServer' = toServer \/ \E m : Shape(m) /\ toServer' = Append(toServer, m)
    <3>1. CASE \E d \in Docs : EditorSave(d) \/ DiskWrite(d)
      BY <3>1 DEF EditorSave, DiskWrite
    <3>2. CASE \E d \in Openable : EditorOpen(d) \/ EditorChange(d) \/ EditorClose(d)
      BY <2>1, <2>2, <3>2
    <3> QED BY <1>3, <2>1, <2>3, <3>1, <3>2 DEF Edit
  <2>6. toServer' = toServer => Shaped(h)'
    BY <2>4 DEF Shaped
  <2> QED BY <1>2, <2>4, <2>5, <2>6
<1>4. CASE ClientReceive
  BY <1>4 DEF ClientReceive, Shaped
<1>5. CASE Receive(h)
  BY <1>5, ReceiveStep DEF Shaped
<1>6. CASE PutText(h) \/ RemoveDoc(h)
  BY <1>6, PutStores, RemoveStores DEF Shaped, PutText, RemoveDoc
<1>7. CASE Inner(h)
  <2>1. toServer' = toServer
    BY <1>7, InnerStill
  <2>2. Other(h) \/ StoreSettings(h) \/ StoreRoots(h) => Shape(run'[h].msg)
    <3>1. StoreSettings(h) \/ StoreRoots(h) => run'[h].msg = run[h].msg
      BY DEF StoreSettings, StoreRoots, Goto, Typed, Working, Handlers
    <3> QED BY <1>1, <3>1, OtherSteps DEF Shaped
  <2>3. PullSettings(h) => Shape(run'[h].msg)
    <3>1. PullSettings(h) => run[h].msg.kind = "initialized"
      BY DEF PullSettings, At, Working
    <3>2. PullSettings(h) => run'[h].msg.kind = "initialized"
      <4>1. ASSUME run' = [run EXCEPT ![h].pc = "apply", ![h].msg.cfg = config]
            PROVE  run'[h].msg.kind = run[h].msg.kind
        <5>1. run'[h] = [run[h] EXCEPT !.pc = "apply", !.msg.cfg = config]
          BY <4>1 DEF Typed
        <5> QED BY <5>1 DEF Working, Handlers, Messages
      <4>2. Goto(h, "register") => run'[h].msg = run[h].msg
        BY DEF Goto, Typed, Working, Handlers
      <4> QED BY <3>1, <4>1, <4>2 DEF PullSettings
    <3> QED BY <1>1, <3>2
  <2> QED BY <1>7, <2>1, <2>2, <2>3 DEF Shaped, Other
<1> QED BY <1>3, <1>4, <1>5, <1>6, <1>7, HandleCases DEF Next, Serial

LEMMA StartingStep ==
    ASSUME Typed, NEW h, Serial(h), Starting(h), Client = "generic", Next, faults' = faults
    PROVE  Starting(h)'
<1> USE StationTypes
<1> SUFFICES ASSUME ~watching' PROVE StartsUp(h)' /\ \A d \in Docs : ~docs'[d].open
  BY DEF Starting
<1>1. CASE Edit \/ ReportWrites
  <2>1. run' = run /\ docs' = docs /\ watching' = watching
    BY <1>1 DEF Edit, ReportWrites, EditorOpen, EditorChange, EditorClose, EditorSave, DiskWrite, Configure, server
  <2>2. toServer' = toServer \/ \E m : toServer' = Append(toServer, m)
    BY <1>1 DEF Edit, ReportWrites, EditorOpen, EditorChange, EditorClose, EditorSave, DiskWrite, Configure, Send
  <2>3. toServer # <<>> => toServer' # <<>> /\ toServer'[1] = toServer[1]
    BY <2>2
  <2> QED BY <2>1, <2>3 DEF Starting, StartsUp
<1>2. CASE ClientReceive
  BY <1>2 DEF ClientReceive, Starting, StartsUp, client, user, server
<1>3. CASE Receive(h)
  <2>1. toServer[1].kind = "initialized" /\ ~watching
    BY <1>3, ReceiveStep DEF Starting, StartsUp
  <2> QED BY <1>3, <2>1, ReceiveStep DEF Starting, StartsUp, Entry
<1>4. CASE PutText(h) \/ RemoveDoc(h)
  <2>1. watching' = watching /\ run[h].pc = "apply" /\ run[h].msg.kind # "initialized"
    BY <1>4 DEF PutText, RemoveDoc, At, client, user
  <2> QED BY <2>1 DEF Starting, StartsUp
<1>5. CASE PullSettings(h)
  BY <1>5, PullStep DEF Starting, StartsUp
<1>6. CASE StoreSettings(h) \/ StoreRoots(h)
  <2>1. /\ run[h].pc \in {"apply", "roots"} /\ watching' = watching /\ docs' = docs
        /\ run'[h].msg = run[h].msg
        /\ run[h].msg.kind = "initialized" => run'[h].pc \in {"roots", "register"}
    BY <1>6, SettingsStep
  <2> QED BY <2>1 DEF Starting, StartsUp
<1>7. CASE Other(h)
  <2>1. RegisterWatchers(h) => watching'
    <3>1. ~Fault
      BY FaultsAssumption DEF Fault, Typed, TypeOK
    <3> QED BY <3>1 DEF RegisterWatchers, Watches
  <2>2. ~RegisterWatchers(h) => watching' = watching
    BY <1>7 DEF Other, Inner, PublishClear, Republish, GetText, LoadInclude, PublishDiagnostics,
                Panic, Return, client, user
  <2>3. run[h].pc \notin Early \cup {"register"} /\ ~watching
    BY <1>7, <2>1, <2>2, OtherSteps
  <2> QED BY <2>3 DEF Starting, StartsUp, Early
<1> QED BY <1>1, <1>2, <1>3, <1>4, <1>5, <1>6, <1>7, HandleCases DEF Next, Serial, Other

LEMMA ConfiguredStep ==
    ASSUME Typed, NEW h, Serial(h), Configured(h), Client = "generic", Next, faults' = faults
    PROVE  Configured(h)'
<1> USE StationTypes
<1>1. ASSUME NEW m, m.kind \notin {"config", "initialized"}, toServer' = Append(toServer, m),
             UNCHANGED <<run, settings, roots, config>>
      PROVE  Configured(h)'
  <2>1. /\ Len(toServer)' = Len(toServer) + 1 /\ toServer'[Len(toServer) + 1] = m
        /\ \A i \in 1 .. Len(toServer) : toServer'[i] = toServer[i]
    BY <1>1
  <2>2. ~Configures(m)
    BY <1>1 DEF Configures
  <2>3. \A i \in 0 .. Len(toServer) : LastConfig(i)' => LastConfig(i)
    BY <2>1 DEF LastConfig, Configures
  <2>4. \A i \in 1 .. Len(toServer)' : toServer'[i].kind = "config" => i \in 1 .. Len(toServer)
    BY <1>1, <2>1
  <2>5. Applying(h)' <=> Applying(h)
    BY <1>1 DEF Applying, Configures
  <2> QED BY <1>1, <2>1, <2>3, <2>4, <2>5 DEF Configured, Configures
<1>2. ASSUME UNCHANGED <<toServer, settings, roots, config>>, run'[h].pc = "roots" => run' = run,
             Applying(h)' => run' = run, Applying(h) => run' = run
      PROVE  Configured(h)'
  <2>1. \A i : LastConfig(i)' <=> LastConfig(i)
    BY <1>2 DEF LastConfig, Configures
  <2>2. CASE run' = run
    BY <1>2, <2>1, <2>2 DEF Configured, Applying, Configures
  <2>3. CASE run' # run
    BY <1>2, <2>1, <2>3 DEF Configured
  <2> QED BY <2>2, <2>3
<1>3. CASE Configure
  <2>1. PICK m : m = Message("config", NoDoc, Absent, config + 1)
    OBVIOUS
  <2>2. /\ m.kind = "config" /\ m.cfg = config' /\ Configures(m) /\ toServer' = Append(toServer, m)
        /\ UNCHANGED <<run, settings, roots>>
    BY <1>3, <2>1 DEF Configure, PushesChanges, Send, Message, Configures, server
  <2>3. /\ Len(toServer)' = Len(toServer) + 1 /\ toServer'[Len(toServer) + 1] = m
    BY <2>2
  <2>4. \A i \in 0 .. Len(toServer) : ~LastConfig(i)'
    BY <2>2, <2>3 DEF LastConfig, Configures
  <2>5. \A i \in 1 .. Len(toServer)' : i \in 0 .. Len(toServer) \/ i = Len(toServer) + 1
    BY <2>3
  <2> QED BY <2>2, <2>3, <2>4, <2>5 DEF Configured, Configures
<1>4. CASE (Edit /\ ~Configure) \/ ReportWrites
  <2>1. UNCHANGED <<run, settings, roots, config>>
    BY <1>4 DEF Edit, ReportWrites, EditorOpen, EditorChange, EditorClose, EditorSave, DiskWrite, server
  <2>2. \/ toServer' = toServer
        \/ \E m : m.kind \notin {"config", "initialized"} /\ toServer' = Append(toServer, m)
    BY <1>4 DEF Edit, ReportWrites, EditorOpen, EditorChange, EditorClose, EditorSave, DiskWrite, Send, Message
  <2> QED BY <1>1, <1>2, <2>1, <2>2
<1>5. CASE ClientReceive
  BY <1>2, <1>5 DEF ClientReceive, client, user, server
<1>6. CASE Receive(h)
  <2>1. \A i \in 0 .. Len(toServer) - 1 : LastConfig(i)' => LastConfig(i + 1)
    <3> SUFFICES ASSUME NEW i \in 0 .. Len(toServer) - 1, LastConfig(i)',
                        NEW j \in 1 .. Len(toServer), i + 1 < j
                 PROVE  ~Configures(toServer[j])
      BY DEF LastConfig
    <3>1. j - 1 \in 1 .. Len(toServer)' /\ i < j - 1 /\ j - 1 \in 1 .. Len(toServer) - 1 /\ (j - 1) + 1 = j
      BY <1>6, ReceiveStep
    <3>2. toServer'[j - 1] = toServer[j]
      BY <1>6, <3>1, ReceiveStep
    <3> QED BY <3>1, <3>2 DEF LastConfig, Configures
  <2>2. \A i \in 1 .. Len(toServer)' : toServer'[i] = toServer[i + 1] /\ i + 1 \in 1 .. Len(toServer)
    BY <1>6, ReceiveStep
  <2>3. run'[h].pc # "roots"
    BY <1>6, ReceiveStep DEF Entry
  <2>4. \A i \in 1 .. Len(toServer)' :
          toServer'[i].kind = "config" /\ LastConfig(i)' => toServer'[i].cfg = config'
    BY <1>6, <2>1, <2>2, ReceiveStep DEF Configured
  <2>5. CASE Configures(toServer[1])
    <3>1. Applying(h)' /\ (run'[h].pc # "pull" => toServer[1].kind = "config")
      BY <1>6, <2>5, ReceiveStep DEF Applying, Configures, Entry
    <3>2. LastConfig(0)' => LastConfig(1)
      BY <1>6, <2>1, ReceiveStep
    <3>3. 1 \in 1 .. Len(toServer)
      BY <1>6, ReceiveStep
    <3> QED BY <1>6, <2>3, <2>4, <3>1, <3>2, <3>3, ReceiveStep DEF Configured
  <2>6. CASE ~Configures(toServer[1])
    <3>1. ~Applying(h)' /\ ~Applying(h)
      BY <1>6, <2>6, ReceiveStep DEF Applying, Configures
    <3>2. LastConfig(0)' => LastConfig(0)
      <4> SUFFICES ASSUME LastConfig(0)', NEW j \in 1 .. Len(toServer) PROVE ~Configures(toServer[j])
        BY DEF LastConfig
      <4>1. LastConfig(1)
        BY <1>6, <2>1, ReceiveStep
      <4> QED BY <2>6, <4>1 DEF LastConfig
    <3> QED BY <1>6, <2>3, <2>4, <3>1, <3>2, ReceiveStep DEF Configured
  <2> QED BY <2>5, <2>6
<1>7. CASE PutText(h) \/ RemoveDoc(h)
  <2>1. UNCHANGED <<toServer, settings, roots, config>>
    BY <1>7 DEF PutText, RemoveDoc, client, user
  <2>2. run[h].msg.kind \notin {"config", "initialized"}
    BY <1>7 DEF PutText, RemoveDoc
  <2>3. run'[h].pc \in {"next", "clear"}
    BY <1>7 DEF PutText, RemoveDoc, Goto, Typed, Working, Handlers
  <2> QED BY <1>2, <2>1, <2>2, <2>3 DEF Applying, Configures
<1>8. CASE PullSettings(h)
  <2>1. /\ Applying(h)' /\ run'[h].pc = "apply" /\ run'[h].msg.cfg = config
        /\ UNCHANGED <<toServer, settings, roots, config>>
    BY <1>8, PullStep DEF Applying, Configures
  <2>2. \A i : LastConfig(i)' <=> LastConfig(i)
    BY <2>1 DEF LastConfig, Configures
  <2> QED BY <2>1, <2>2 DEF Configured
<1>9. CASE StoreSettings(h) \/ StoreRoots(h)
  <2>1. UNCHANGED <<toServer, config>> /\ run'[h].msg = run[h].msg /\ Applying(h)
    BY <1>9, SettingsStep DEF Applying, Configured
  <2>2. \A i : LastConfig(i)' <=> LastConfig(i)
    BY <2>1 DEF LastConfig, Configures
  <2>3. LastConfig(0) => run[h].msg.cfg = config
    BY <1>9, <2>1, SettingsStep DEF Configured
  <2>4. Configures(run[h].msg)' <=> Configures(run[h].msg)
    BY <2>1 DEF Configures
  <2>5. CASE run'[h].pc = "roots"
    BY <1>9, <2>1, <2>2, <2>3, <2>4, <2>5, SettingsStep DEF Configured, Applying
  <2>6. CASE run'[h].pc \in {"register", "uris"}
    BY <1>9, <2>1, <2>2, <2>3, <2>4, <2>6, SettingsStep DEF Configured, Applying
  <2> QED BY <1>9, <2>5, <2>6, SettingsStep
<1>10. CASE Other(h)
  BY <1>2, <1>10, OtherSteps DEF Applying, Early
<1> QED BY <1>3, <1>4, <1>5, <1>6, <1>7, <1>8, <1>9, <1>10, HandleCases DEF Next, Serial, Other

------------------------------------------------------------------------------
(* Batches *)

\* The newest batch of each document after one more was pushed.
LEMMA PushedNewest ==
    ASSUME Typed, NEW b, toClient' = Append(toClient, b), shown' = shown,
           NEW d \in Docs, NEW k \in Sent', Newest(d, k)'
    PROVE  IF b.doc = d THEN BatchOf(d, k)' = b
           ELSE k \in Sent /\ Newest(d, k) /\ BatchOf(d, k)' = BatchOf(d, k)
<1> USE DEF Sent
<1>1. /\ Len(toClient) \in Nat /\ Len(toClient)' = Len(toClient) + 1 /\ toClient'[Len(toClient) + 1] = b
      /\ \A i \in 1 .. Len(toClient) : toClient'[i] = toClient[i]
  BY DEF Typed, TypeOK
<1>2. CASE b.doc = d
  <2>1. k = Len(toClient) + 1
    BY <1>1, <1>2 DEF Newest
  <2> QED BY <1>1, <1>2, <2>1 DEF BatchOf
<1>3. CASE b.doc # d
  <2>1. k # Len(toClient) + 1
    BY <1>1, <1>3 DEF Newest
  <2>2. k \in Sent /\ (k # 0 => k \in 1 .. Len(toClient))
    BY <1>1, <2>1
  <2> QED BY <1>1, <1>3, <2>2 DEF Newest, BatchOf
<1> QED BY <1>2, <1>3

\* The client shows a batch: the newest of each document stays the newest.
Alike(b, c) == b.clear = c.clear /\ b.at = c.at /\ b.env = c.env /\ b.settings = c.settings
LEMMA DeliveredNewest ==
    ASSUME Typed, ClientReceive, NEW d \in Docs, NEW k \in Sent', Newest(d, k)'
    PROVE  \E l \in Sent : Newest(d, l) /\ Alike(BatchOf(d, k)', BatchOf(d, l))
<1> USE DEF Sent
<1>1. /\ Len(toClient) \in Nat /\ Len(toClient) > 0 /\ Len(toClient)' = Len(toClient) - 1
      /\ \A i \in 1 .. Len(toClient)' : toClient'[i] = toClient[i + 1]
      /\ Head(toClient) = toClient[1] /\ toClient[1].doc \in Docs
  <2>1. toClient \in Seq(Batches) /\ toClient # <<>> /\ toClient' = Tail(toClient)
    BY DEF ClientReceive, Typed, TypeOK
  <2>2. /\ Len(toClient) \in Nat /\ Len(toClient) > 0 /\ Head(toClient) = toClient[1]
        /\ toClient[1] \in Batches
    BY <2>1
  <2>3. /\ Len(toClient)' = Len(toClient) - 1
        /\ \A i \in 1 .. Len(toClient) - 1 : toClient'[i] = toClient[i + 1]
    BY <2>1, HeadTailProperties
  <2> QED BY <2>2, <2>3 DEF Batches
<1>2. /\ toClient[1].doc = d => Alike(shown'[d], toClient[1])
      /\ toClient[1].doc # d => shown'[d] = shown[d]
  BY <1>1 DEF ClientReceive, Typed, TypeOK, Alike
<1>3. ASSUME NEW l \in 1 .. Len(toClient), k + 1 < l PROVE toClient[l].doc # d
  <2>1. l - 1 \in 1 .. Len(toClient)' /\ k < l - 1 /\ (l - 1) + 1 = l
    BY <1>1, <1>3
  <2> QED BY <1>1, <2>1 DEF Newest
<1>4. CASE k # 0
  <2>1. k \in 1 .. Len(toClient)' /\ k + 1 \in 1 .. Len(toClient) /\ k + 1 # 0 /\ k + 1 \in Sent
    BY <1>1, <1>4
  <2>2. Newest(d, k + 1)
    BY <1>1, <1>3, <1>4, <2>1 DEF Newest
  <2>3. BatchOf(d, k)' = BatchOf(d, k + 1)
    BY <1>1, <1>4, <2>1 DEF BatchOf
  <2> QED BY <2>1, <2>2, <2>3 DEF Alike
<1>5. CASE k = 0 /\ toClient[1].doc = d
  <2>1. 1 \in Sent /\ Newest(d, 1)
    BY <1>1, <1>3, <1>5 DEF Newest
  <2> QED BY <1>2, <1>5, <2>1 DEF BatchOf
<1>6. CASE k = 0 /\ toClient[1].doc # d
  <2>1. \A l \in 1 .. Len(toClient) : l = 1 \/ k + 1 < l
    BY <1>6
  <2>2. 0 \in Sent /\ Newest(d, 0)
    BY <1>1, <1>3, <1>6, <2>1 DEF Newest
  <2> QED BY <1>2, <1>6, <2>2 DEF BatchOf, Alike
<1> QED BY <1>4, <1>5, <1>6

\* A batch that fits goes on to fit.
Steady(h, d) ==
    /\ docs'[d] = docs[d]
    /\ docs[d].open => /\ settings' = settings /\ roots' = roots
                       /\ Settled' \subseteq Settled /\ \A i \in Settled' : disk'[i] = disk[i]
    /\ ~docs[d].open => (Final(h, d, -1)' => Final(h, d, -1) /\ editor'[d].at = editor[d].at)

LEMMA FitsStays ==
    ASSUME NEW h, NEW d \in Docs, NEW b, NEW c, Alike(b, c), Fits(h, d, c), Steady(h, d)
    PROVE  Fits(h, d, b)'
<1>1. CASE docs[d].open
  BY <1>1 DEF Steady, Fits, Current, Alike
<1>2. CASE ~docs[d].open
  BY <1>2 DEF Steady, Fits, Alike
<1> QED BY <1>1, <1>2

LEMMA StillServed ==
    ASSUME NEW h, Served(h), NEW d \in Docs, ~Due(h, d), Steady(h, d), UNCHANGED <<shown, toClient>>,
           NEW k \in Sent', Newest(d, k)'
    PROVE  Fits(h, d, BatchOf(d, k))'
<1>1. PICK b : b = BatchOf(d, k)
  OBVIOUS
<1>2. k \in Sent /\ Newest(d, k) /\ BatchOf(d, k)' = b
  BY <1>1 DEF Sent, Newest, BatchOf
<1>3. Fits(h, d, b)
  BY <1>1, <1>2 DEF Served
<1>4. Fits(h, d, b)'
  BY <1>3, FitsStays DEF Alike
<1> QED BY <1>2, <1>4 DEF Fits

\* What the user's steps leave of it.
SettlesNone == watching => Settled' \subseteq Settled /\ \A i \in Settled' : disk'[i] = disk[i]
EndsNone(h) ==
    \A d \in Docs : Final(h, d, -1)' => Final(h, d, -1) /\ editor'[d].at = editor[d].at

LEMMA UserEffect ==
    ASSUME Typed, NEW h, Serial(h), Edit \/ ReportWrites
    PROVE  /\ UNCHANGED <<run, docs, shown, toClient, settings, roots, watching>>
           /\ SettlesNone /\ EndsNone(h)
<1>1. UNCHANGED <<run, docs, shown, toClient, settings, roots, watching>>
  BY DEF Edit, ReportWrites, EditorOpen, EditorChange, EditorClose, EditorSave, DiskWrite, Configure, server
<1>2. disk \in [Docs -> Times] /\ editor \in [Docs -> DocStates] /\ Openable \subseteq Docs
  BY DocsAssumption DEF Typed, TypeOK
<1>3. ASSUME UNCHANGED <<editor, toServer>>,
             watching => \A i \in Docs \ (diverged' \cup unread') :
                            i \notin diverged \cup unread /\ disk'[i] = disk[i]
      PROVE  SettlesNone /\ EndsNone(h)
  <2>1. Stations' = Stations /\ \A r : IsReport(r)' <=> IsReport(r)
    BY <1>3 DEF Stations, IsReport
  <2>2. \A d \in Docs, i \in Stations : Here(h, d, i)' <=> Here(h, d, i)
    BY <1>1, <1>3 DEF Here
  <2>3. \A i \in Settled' : i \in Docs \ (diverged' \cup unread')
    BY DEF Settled
  <2>4. SettlesNone
    BY <1>3, <2>1, <2>3 DEF Settled, SettlesNone
  <2>5. EndsNone(h)
    BY <1>3, <2>1, <2>2 DEF Final, EndsNone, Here
  <2> QED BY <2>4, <2>5
<1>4. ASSUME NEW m, toServer' = Append(toServer, m), disk' = disk,
             \A e \in Docs : editor'[e] = editor[e] \/ Names(m, e),
             m.kind = "watched" \/ (diverged \subseteq diverged' /\ unread \subseteq unread')
      PROVE  SettlesNone /\ EndsNone(h)
  <2>1. PICK n : n = Len(toServer)
    OBVIOUS
  <2>2. \A d : Longer(h, d, m, n)
    BY <1>1, <1>4, <2>1, LongerQueue
  <2>3. /\ n \in Nat /\ Stations = -1 .. n /\ Stations' = -1 .. n + 1 /\ n + 1 \in Stations'
        /\ \A i \in Stations : i \in Stations' /\ (IsReport(i)' <=> IsReport(i))
        /\ IsReport(n + 1)' <=> m.kind = "watched"
    BY <2>2 DEF Longer
  <2>4. ASSUME NEW i \in Settled' PROVE i \in Settled
    BY <1>4, <2>3 DEF Settled
  <2>5. ASSUME NEW d \in Docs, Final(h, d, -1)'
        PROVE  Final(h, d, -1) /\ editor'[d].at = editor[d].at
    <3>1. /\ \A i \in Stations : Here(h, d, i)' <=> Here(h, d, i)
          /\ Here(h, d, n + 1)' <=> Names(m, d)
      BY <2>2 DEF Longer
    <3>2. ~Names(m, d)
      BY <2>3, <2>5, <3>1 DEF Final
    <3>3. Here(h, d, -1)
      BY DEF Here
    <3> QED BY <1>4, <2>3, <2>5, <3>1, <3>2, <3>3 DEF Final
  <2> QED BY <1>4, <2>4, <2>5 DEF SettlesNone, EndsNone
<1>5. ASSUME NEW d \in Docs, EditorSave(d) \/ DiskWrite(d)
      PROVE  /\ UNCHANGED <<editor, toServer>>
             /\ watching => \A i \in Docs \ (diverged' \cup unread') :
                               i \notin diverged \cup unread /\ disk'[i] = disk[i]
  BY <1>2, <1>5 DEF EditorSave, DiskWrite
<1>6. ASSUME NEW d \in Docs, EditorOpen(d) \/ EditorChange(d) \/ EditorClose(d)
      PROVE  \E m : /\ toServer' = Append(toServer, m) /\ disk' = disk
                    /\ \A e \in Docs : editor'[e] = editor[e] \/ Names(m, e)
                    /\ diverged \subseteq diverged' /\ unread \subseteq unread'
  BY <1>2, <1>6 DEF EditorOpen, EditorChange, EditorClose, Send, Message, Names, Carries
<1>7. CASE Configure
  <2>1. CASE PushesChanges
    BY <1>1, <1>4, <1>7, <2>1 DEF Configure, Send
  <2>2. CASE ~PushesChanges
    BY <1>1, <1>3, <1>7, <2>2 DEF Configure
  <2> QED BY <2>1, <2>2
<1>8. CASE ReportWrites
  <2>1. PICK m : m = Message("watched", NoDoc, Absent, 0)
    OBVIOUS
  <2>2. m.kind = "watched" /\ toServer' = Append(toServer, m) /\ UNCHANGED <<disk, editor>>
    BY <1>8, <2>1 DEF ReportWrites, Send, Message
  <2> QED BY <1>1, <1>4, <2>2
<1>9. CASE \E d \in Docs : EditorSave(d) \/ DiskWrite(d)
  BY <1>1, <1>3, <1>5, <1>9
<1>10. CASE \E d \in Openable : EditorOpen(d) \/ EditorChange(d) \/ EditorClose(d)
  BY <1>1, <1>2, <1>4, <1>6, <1>10
<1> QED BY <1>1, <1>2, <1>7, <1>8, <1>9, <1>10 DEF Edit

\* What the server's steps leave of it.
LEMMA ServerEffect ==
    ASSUME Typed, Typed', NEW h, Serial(h), Shaped(h), \A e \in Docs : Underway(h, e), Handle(h)
    PROVE  /\ UNCHANGED <<editor, disk, shown>>
           /\ \A d \in Docs : docs[d].open /\ Starting(h) => watching
           /\ ~(Receive(h) /\ toServer[1].kind = "watched") => Settled' \subseteq Settled
           /\ Inner(h) => Settled' = Settled
           /\ \A d \in Docs : (PutText(h) \/ RemoveDoc(h) => run[h].msg.doc # d) =>
                 docs'[d] = docs[d] /\ (Final(h, d, -1)' => Final(h, d, -1))
<1> USE StationTypes
<1>1. UNCHANGED <<editor, disk, shown, diverged, unread>>
  BY HandleCases DEF Inner, Receive, PutText, RemoveDoc, PublishClear, PullSettings, StoreSettings, StoreRoots,
         RegisterWatchers, Republish, GetText, LoadInclude, PublishDiagnostics, Panic, Return, client, user
<1>2. Inner(h) \/ PutText(h) \/ RemoveDoc(h) => toServer' = toServer
  BY InnerStill DEF PutText, RemoveDoc
<1>3. toServer' = toServer => Settled' = Settled
  BY <1>1 DEF Settled, IsReport, Stations
<1>4. ASSUME Receive(h), toServer[1].kind # "watched" PROVE Settled' \subseteq Settled
  <2> SUFFICES ASSUME NEW i \in Settled', NEW r \in Stations, IsReport(r) PROVE FALSE
    BY <1>1 DEF Settled
  <2>1. r \in 2 .. Len(toServer) /\ r - 1 \in 1 .. Len(toServer) - 1 /\ (r - 1) + 1 = r
    BY <1>4 DEF IsReport
  <2>2. r - 1 \in Stations' /\ IsReport(r - 1)'
    <3>1. toServer'[r - 1] = toServer[r] /\ Len(toServer)' = Len(toServer) - 1
      BY <1>4, <2>1, ReceiveStep
    <3>2. toServer[r].kind = "watched"
      BY <2>1 DEF IsReport
    <3> QED BY <2>1, <3>1, <3>2 DEF IsReport, Stations
  <2> QED BY <2>2 DEF Settled
<1>5. ASSUME NEW d \in Docs, PutText(h) \/ RemoveDoc(h) => run[h].msg.doc # d
      PROVE  docs'[d] = docs[d] /\ (Final(h, d, -1)' => Final(h, d, -1))
  <2>1. Final(h, d, -1)' => Final(h, d, -1)
    BY <1>5, ServerUnderway
  <2>2. PutText(h) => docs'[d] = docs[d]
    BY <1>5, PutStores DEF Underway
  <2>3. RemoveDoc(h) => docs'[d] = docs[d]
    BY <1>5, RemoveStores
  <2> QED BY <2>1, <2>2, <2>3, HandleCases, InnerStill, ReceiveStep
<1> QED BY <1>1, <1>2, <1>3, <1>4, <1>5, HandleCases DEF Starting

LEMMA InWorkStep ==
    ASSUME Typed, Typed', NEW h, Serial(h), InOrder(h), Coherent(h), Next, faults' = faults
    PROVE  InWork(h)'
<1> USE StationTypes
<1>1. /\ InWork(h) /\ Shaped(h) /\ Starting(h)
      /\ \A e \in Docs : /\ Underway(h, e) /\ LastIsEditor(h, e) /\ Accepted(h, e) /\ Faithful(h, e)
  BY DEF Coherent, Underway
<1>2. CASE Edit \/ ReportWrites
  <2>1. UNCHANGED <<run, docs, roots>> /\ SettlesNone /\ EndsNone(h)
    BY <1>2, UserEffect
  <2>2. run[h].pc = "load" => watching
    BY <1>1 DEF InOrder, ServerOrder, Working, Starting
  <2>3. run[h].pc = "clear" => run[h].msg.doc \in Docs
    BY DEF Working
  <2> QED BY <1>1, <2>1, <2>2, <2>3 DEF InWork, SettlesNone, EndsNone, Current
<1>3. CASE ClientReceive
  <2>1. UNCHANGED <<toServer, docs, run, editor, disk, diverged, unread, roots>>
    BY <1>3 DEF ClientReceive, client, user, server
  <2>2. Settled' = Settled /\ \A d : Final(h, d, -1)' <=> Final(h, d, -1)
    BY <2>1 DEF Settled, IsReport, Stations, Final, Here
  <2> QED BY <1>1, <2>1, <2>2 DEF InWork, Current
<1>4. ASSUME run'[h].pc \notin {"next", "load", "clear"} PROVE InWork(h)'
  BY <1>4 DEF InWork
<1>5. CASE Receive(h)
  BY <1>4, <1>5, ReceiveStep DEF Entry
<1>6. CASE PutText(h)
  BY <1>1, <1>6, PutStores DEF InWork
<1>7. CASE RemoveDoc(h)
  <2> DEFINE d == run[h].msg.doc
  <2>1. d \in Docs /\ Here(h, d, 0) /\ run'[h].pc = "clear" /\ run'[h].msg = run[h].msg
    BY <1>1, <1>7, RemoveStores
  <2>2. -1 \in Stations /\ 0 \in Stations
    BY DEF Stations
  <2>3. Final(h, d, -1)' => Final(h, d, 0)
    <3>1. ~Final(h, d, -1)
      BY <2>1, <2>2 DEF Final
    <3> QED BY <1>1, <1>7, <2>1, <3>1, ServerUnderway, HandleCases
  <2>4. Final(h, d, 0) => run[h].msg.state.at = editor[d].at
    BY <1>1, <2>1, <2>2 DEF LastIsEditor, State
  <2>5. editor' = editor
    BY <1>7 DEF RemoveDoc, client, user
  <2> QED BY <2>1, <2>3, <2>4, <2>5 DEF InWork
<1>8. CASE PullSettings(h) \/ StoreSettings(h) \/ StoreRoots(h)
  <2>1. AfterApply(run[h].msg.kind) \in {"register", "uris"}
    BY DEF AfterApply
  <2>2. StoreSettings(h) \/ StoreRoots(h) => run'[h].pc \in {"roots", "register", "uris"}
    BY <2>1 DEF StoreSettings, StoreRoots, Goto, Typed, Working, Handlers
  <2> QED BY <1>4, <1>8, <2>2, PullStep
<1>9. CASE PublishClear(h) \/ Panic(h) \/ Return(h) \/ RegisterWatchers(h)
  <2>1. PublishClear(h) \/ Panic(h) \/ Return(h) => run'[h].pc = "idle"
    BY DEF PublishClear, Panic, Return, Finish, Typed, IdleHandler
  <2>2. RegisterWatchers(h) => run'[h].pc = "uris"
    BY DEF RegisterWatchers, Goto, Typed, Working, Handlers
  <2> QED BY <1>4, <1>9, <2>1, <2>2
<1>10. CASE Republish(h)
  <2>1. PICK T : T = {d \in Docs : docs[d].open}
    OBVIOUS
  <2>2. run' = [run EXCEPT ![h].pc = "next", ![h].todo = T] /\ docs' = docs
    BY <1>10, <2>1 DEF Republish, server
  <2>3. run'[h].pc = "next" /\ run'[h].todo = T
    BY <2>2 DEF Typed, Working, Handlers
  <2> QED BY <2>1, <2>2, <2>3 DEF InWork
<1>11. ASSUME NEW d \in Docs, GetText(h, d) PROVE InWork(h)'
  <2>1. docs[d].open /\ run[h].pc = "next" /\ \A e \in run[h].todo : docs[e].open
    BY <1>1, <1>11 DEF InWork, GetText, At
  <2>2. run'[h] = [run[h] EXCEPT !.pc = "load", !.todo = run[h].todo \ {d}, !.doc = d,
                                 !.at = docs[d].at, !.env = NoEnv]
    BY <1>11, <2>1 DEF GetText, Typed
  <2>3. run'[h].pc = "load" /\ run'[h].todo = run[h].todo \ {d} /\ run'[h].env = NoEnv
    BY <2>2 DEF Working, Handlers
  <2>4. docs' = docs
    BY <1>11 DEF GetText, server
  <2> QED BY <2>1, <2>3, <2>4 DEF InWork, NoEnv
<1>12. ASSUME NEW i \in Docs, LoadInclude(h, i) PROVE InWork(h)'
  <2>1. Inner(h) /\ Handle(h) /\ docs' = docs /\ roots' = roots
    BY <1>12, HandleCases DEF Inner, LoadInclude, server
  <2>2. Settled' = Settled /\ disk' = disk
    BY <1>1, <2>1, ServerEffect
  <2>3. PICK text : text = IF docs[i].open THEN docs[i].text ELSE disk[i]
    OBVIOUS
  <2>4. i \in Settled => text = disk[i]
    <3>1. -1 \in Stations /\ Here(h, i, -1) /\ State(h, i, -1) = docs[i]
      BY DEF Stations, Here, State
    <3>2. i \in Settled => ~Outlived(h, i, -1) /\ i \notin diverged \cup unread
      BY DEF Settled, Outlived
    <3> QED BY <1>1, <2>3, <3>1, <3>2 DEF Faithful
  <2>5. /\ run'[h].pc = "load" /\ run[h].pc = "load" /\ run'[h].todo = run[h].todo
        /\ run'[h].env = [run[h].env EXCEPT ![i] = [text |-> text, roots |-> roots]]
        /\ run[h].env \in Envs
    BY <1>12, <2>3 DEF LoadInclude, At, Typed, Working, Handlers, Envs
  <2>6. ASSUME NEW j \in Docs, run'[h].env[j] # Unloaded PROVE Current(run[h].env, j)'
    <3>1. CASE j = i
      BY <2>1, <2>2, <2>4, <2>5, <3>1 DEF Current, Envs
    <3>2. CASE j # i
      <4>1. run'[h].env[j] = run[h].env[j]
        BY <2>5, <3>2 DEF Envs
      <4>2. Current(run[h].env, j)
        BY <1>1, <2>5, <2>6, <4>1 DEF InWork
      <4> QED BY <2>1, <2>2, <4>1, <4>2 DEF Current
    <3> QED BY <3>1, <3>2
  <2> QED BY <1>1, <2>1, <2>5, <2>6 DEF InWork
<1>13. CASE PublishDiagnostics(h)
  <2>1. /\ run[h].pc = "load" /\ run'[h].pc = "next" /\ run'[h].todo = run[h].todo /\ docs' = docs
    BY <1>13 DEF PublishDiagnostics, Loaded, At, Goto, server, Typed, Working, Handlers
  <2> QED BY <1>1, <2>1 DEF InWork
<1> QED BY <1>2, <1>3, <1>5, <1>6, <1>7, <1>8, <1>9, <1>10, <1>11, <1>12, <1>13, HandleCases
        DEF Next, Serial, Inner

LEMMA ServedStep ==
    ASSUME Typed, Typed', NEW h, Serial(h), InOrder(h), Coherent(h), Next, faults' = faults,
           Client = "generic"
    PROVE  Served(h)'
<1> USE StationTypes
<1> SUFFICES ASSUME NEW d \in Docs, NEW k \in Sent', Newest(d, k)', ~Due(h, d)'
             PROVE  Fits(h, d, BatchOf(d, k))'
  BY DEF Served
<1>1. /\ InWork(h) /\ Shaped(h) /\ Starting(h) /\ Served(h)
      /\ \A e \in Docs : /\ Underway(h, e) /\ Accepted(h, e)
  BY DEF Coherent, Underway
<1>2. docs[d].open => watching
  BY <1>1 DEF Starting
<1>3. ~Fault
  BY FaultsAssumption DEF Fault, Typed, TypeOK
<1>4. CASE Edit \/ ReportWrites
  <2>1. /\ UNCHANGED <<run, docs, shown, toClient, settings, roots>>
        /\ SettlesNone /\ EndsNone(h)
    BY <1>4, UserEffect
  <2>2. ~Due(h, d)
    BY <2>1 DEF Due
  <2>3. Steady(h, d)
    BY <1>2, <2>1 DEF Steady, SettlesNone, EndsNone
  <2> QED BY <1>1, <2>1, <2>2, <2>3, StillServed
<1>5. CASE ClientReceive
  <2>1. UNCHANGED <<toServer, docs, run, editor, disk, diverged, unread, settings, roots>>
    BY <1>5 DEF ClientReceive, client, user, server
  <2>2. Settled' = Settled /\ (Final(h, d, -1)' <=> Final(h, d, -1))
    BY <2>1 DEF Settled, IsReport, Stations, Final, Here
  <2>3. Steady(h, d) /\ ~Due(h, d)
    BY <2>1, <2>2 DEF Steady, Due
  <2>4. PICK l \in Sent : Newest(d, l) /\ Alike(BatchOf(d, k)', BatchOf(d, l))
    BY <1>5, DeliveredNewest
  <2>5. PICK b, c : b = BatchOf(d, k)' /\ c = BatchOf(d, l)
    OBVIOUS
  <2>6. Fits(h, d, c)
    BY <1>1, <2>3, <2>4, <2>5 DEF Served
  <2>7. Fits(h, d, b)'
    BY <2>3, <2>4, <2>5, <2>6, FitsStays
  <2> QED BY <2>5, <2>7 DEF Fits
<1>6. CASE Receive(h)
  <2>1. ~Due(h, d) /\ UNCHANGED <<settings, roots, docs, shown, toClient, editor, disk>>
    BY <1>6 DEF Receive, At, Due, server, client, user
  <2>2. Final(h, d, -1)' => Final(h, d, -1)
    BY <1>1, <1>6, ServerEffect, HandleCases, ReceiveStep DEF PutText, RemoveDoc, At
  <2>3. CASE toServer[1].kind = "watched"
    <3>1. ~docs[d].open
      BY <1>6, <2>1, <2>3, ReceiveStep DEF Due, Entry
    <3> QED BY <1>1, <2>1, <2>2, <3>1, StillServed DEF Steady
  <2>4. CASE toServer[1].kind # "watched"
    <3>1. Settled' \subseteq Settled
      BY <1>1, <1>6, <2>4, ServerEffect, HandleCases
    <3> QED BY <1>1, <2>1, <2>2, <3>1, StillServed DEF Steady
  <2> QED BY <2>3, <2>4
<1>7. CASE PutText(h) \/ RemoveDoc(h)
  <2>1. d # run[h].msg.doc
    <3>1. PutText(h) => run'[h].pc = "next" /\ run'[h].todo = {run[h].msg.doc}
      BY <1>1, PutStores
    <3>2. RemoveDoc(h) => run'[h].pc = "clear" /\ run'[h].msg.doc = run[h].msg.doc
      BY <1>1, RemoveStores
    <3> QED BY <1>7, <3>1, <3>2 DEF Due
  <2>2. ~Due(h, d) /\ UNCHANGED <<settings, roots, shown, toClient>> /\ ~Receive(h)
    BY <1>7 DEF PutText, RemoveDoc, Receive, At, Due
  <2>3. Steady(h, d)
    BY <1>1, <1>7, <2>1, <2>2, ServerEffect, HandleCases DEF Steady
  <2> QED BY <1>1, <2>2, <2>3, StillServed
<1>8. CASE Inner(h)
  <2>1. /\ docs' = docs /\ Settled' = Settled /\ UNCHANGED <<editor, disk, shown>>
        /\ Final(h, d, -1)' => Final(h, d, -1)
    <3>1. ~(PutText(h) \/ RemoveDoc(h)) \/ run[h].msg.doc # d
      BY <1>8, InnerStill, <1>1, PutStores, RemoveStores
    <3> QED BY <1>1, <1>8, <3>1, ServerEffect, HandleCases, InnerStill
  <2>2. settings' = settings /\ roots' = roots => Steady(h, d)
    BY <2>1 DEF Steady
  <2>3. ~docs[d].open => Steady(h, d)
    BY <2>1 DEF Steady
  <2>4. ASSUME Steady(h, d), ~Due(h, d), toClient' = toClient PROVE Fits(h, d, BatchOf(d, k))'
    BY <1>1, <2>1, <2>4, StillServed
  <2>5. ASSUME NEW b, Steady(h, d), toClient' = Append(toClient, b),
               b.doc # d => ~Due(h, d), b.doc = d => Fits(h, d, b)'
        PROVE  Fits(h, d, BatchOf(d, k))'
    <3>1. CASE b.doc = d
      BY <2>1, <2>5, <3>1, PushedNewest DEF Fits
    <3>2. CASE b.doc # d
      <4>1. k \in Sent /\ Newest(d, k) /\ BatchOf(d, k)' = BatchOf(d, k)
        BY <2>1, <2>5, <3>2, PushedNewest
      <4>2. PICK c : c = BatchOf(d, k)
        OBVIOUS
      <4>3. Fits(h, d, c)
        BY <1>1, <2>5, <3>2, <4>1, <4>2 DEF Served
      <4>4. Fits(h, d, c)'
        BY <2>5, <4>3, FitsStays DEF Alike
      <4> QED BY <4>1, <4>2, <4>4 DEF Fits
    <3> QED BY <3>1, <3>2
  <2>6. CASE PullSettings(h)
    <3>1. ~Due(h, d) /\ toClient' = toClient /\ settings' = settings /\ roots' = roots
      BY <2>6, PullStep DEF Due, PullSettings
    <3> QED BY <2>2, <2>4, <3>1
  <2>7. CASE StoreSettings(h) \/ StoreRoots(h)
    <3>1. /\ run'[h].pc \in {"roots", "register", "uris"} /\ run[h].pc \in {"apply", "roots"}
          /\ toClient' = toClient
      BY <2>7, SettingsStep DEF StoreSettings, StoreRoots
    <3>2. ~docs[d].open /\ ~Due(h, d)
      BY <2>1, <3>1 DEF Due
    <3> QED BY <2>3, <2>4, <3>1, <3>2
  <2>8. CASE RegisterWatchers(h) \/ Republish(h)
    <3>1. /\ run[h].pc \in {"register", "uris"} /\ toClient' = toClient
          /\ settings' = settings /\ roots' = roots
      BY <2>8 DEF RegisterWatchers, Republish, At, client, server
    <3>2. RegisterWatchers(h) => run'[h].pc = "uris"
      BY DEF RegisterWatchers, Goto, Typed, Working, Handlers
    <3>3. Republish(h) => run'[h].pc = "next" /\ (docs[d].open => d \in run'[h].todo)
      <4>1. PICK T : T = {e \in Docs : docs[e].open}
        OBVIOUS
      <4>2. Republish(h) => run' = [run EXCEPT ![h].pc = "next", ![h].todo = T]
        BY <4>1 DEF Republish
      <4>3. Republish(h) => run'[h].pc = "next" /\ run'[h].todo = T
        BY <4>2 DEF Typed, Working, Handlers
      <4> QED BY <4>1, <4>3
    <3>4. ~Due(h, d)
      BY <2>1, <2>8, <3>1, <3>2, <3>3 DEF Due
    <3> QED BY <2>2, <2>4, <3>1, <3>4
  <2>9. ASSUME NEW e \in Docs, GetText(h, e) PROVE Fits(h, d, BatchOf(d, k))'
    <3>1. docs[e].open /\ run[h].pc = "next"
      BY <1>1, <2>9 DEF InWork, GetText, At
    <3>2. run'[h] = [run[h] EXCEPT !.pc = "load", !.todo = run[h].todo \ {e}, !.doc = e,
                                   !.at = docs[e].at, !.env = NoEnv]
      BY <2>9, <3>1 DEF GetText, Typed
    <3>3. run'[h].pc = "load" /\ run'[h].todo = run[h].todo \ {e} /\ run'[h].doc = e
      BY <3>2 DEF Working, Handlers
    <3>4. ~Due(h, d) /\ toClient' = toClient /\ settings' = settings /\ roots' = roots
      BY <2>9, <3>1, <3>3 DEF Due, GetText, server
    <3> QED BY <2>2, <2>4, <3>4
  <2>10. ASSUME NEW i \in Docs, LoadInclude(h, i) PROVE Fits(h, d, BatchOf(d, k))'
    <3>1. /\ run'[h].pc = "load" /\ run[h].pc = "load" /\ run'[h].todo = run[h].todo
          /\ run'[h].doc = run[h].doc
          /\ toClient' = toClient /\ settings' = settings /\ roots' = roots
      BY <2>10 DEF LoadInclude, At, Typed, Working, Handlers, server
    <3>2. ~Due(h, d)
      BY <3>1 DEF Due
    <3> QED BY <2>2, <2>4, <3>1, <3>2
  <2>11. CASE Panic(h) \/ Return(h)
    <3>1. /\ run[h].pc = "next" /\ run[h].todo = {} /\ toClient' = toClient
          /\ settings' = settings /\ roots' = roots
      BY <1>3, <2>11 DEF Panic, Return, At, server
    <3>2. ~Due(h, d)
      BY <3>1 DEF Due
    <3> QED BY <2>2, <2>4, <3>1, <3>2
  <2>12. CASE PublishClear(h)
    <3>1. PICK b : b = [doc |-> run[h].msg.doc, clear |-> TRUE, at |-> run[h].msg.state.at,
                        env |-> NoEnv, settings |-> 0]
      OBVIOUS
    <3>2. /\ toClient' = Append(toClient, b) /\ settings' = settings /\ roots' = roots
          /\ run[h].pc = "clear" /\ run[h].msg.doc \in Docs
      BY <1>3, <2>12, <3>1 DEF PublishClear, Push, At, server, Working
    <3>3. b.doc # d => ~Due(h, d)
      BY <3>1, <3>2 DEF Due
    <3>4. b.doc = d => Fits(h, d, b)'
      <4>1. ~docs[run[h].msg.doc].open
        BY <3>2 DEF InOrder, ServerOrder
      <4>2. Final(h, run[h].msg.doc, -1) => run[h].msg.state.at = editor[run[h].msg.doc].at
        BY <1>1, <3>2 DEF InWork
      <4> QED BY <2>1, <3>1, <4>1, <4>2 DEF Fits
    <3> QED BY <2>2, <2>5, <3>2, <3>3, <3>4
  <2>13. CASE PublishDiagnostics(h)
    <3>1. PICK b : b = [doc |-> run[h].doc, clear |-> FALSE, at |-> run[h].at,
                        env |-> run[h].env, settings |-> settings]
      OBVIOUS
    <3>2. /\ toClient' = Append(toClient, b) /\ settings' = settings /\ roots' = roots
          /\ run[h].pc = "load" /\ run[h].doc \in Docs
          /\ \A i \in Includes[run[h].doc] : run[h].env[i] # Unloaded
      BY <1>3, <2>13, <3>1 DEF PublishDiagnostics, Loaded, Push, At, server, Working
    <3>3. run'[h].pc = "next" /\ run'[h].todo = run[h].todo
      BY <2>13 DEF PublishDiagnostics, Goto, Typed, Working, Handlers
    <3>4. b.doc # d => ~Due(h, d)
      BY <3>1, <3>2, <3>3 DEF Due
    <3>5. b.doc = d => Fits(h, d, b)'
      <4>1. docs[run[h].doc].open /\ run[h].at = docs[run[h].doc].at
        BY <3>2 DEF InOrder, ServerOrder
      <4>2. \A i \in Includes[run[h].doc] : i \in Docs /\ Current(run[h].env, i)
        BY <1>1, <3>2, DocsAssumption DEF InWork
      <4> QED BY <2>1, <3>1, <3>2, <4>1, <4>2 DEF Fits, Current
    <3> QED BY <2>2, <2>5, <3>2, <3>4, <3>5
  <2> QED BY <1>8, <2>6, <2>7, <2>8, <2>9, <2>10, <2>11, <2>12, <2>13 DEF Inner
<1> QED BY <1>4, <1>5, <1>6, <1>7, <1>8, HandleCases DEF Next, Serial

------------------------------------------------------------------------------
(* The invariant and what it says at rest *)

LEMMA CoherentInit ==
    ASSUME NEW h, Serial(h), Client = "generic", Init
    PROVE  Coherent(h)
<1>1. /\ toServer = <<NoMessage>> /\ Len(toServer) = 1 /\ toServer[1] = NoMessage
      /\ toClient = <<>> /\ Len(toClient) = 0
      /\ run[h] = IdleHandler /\ watching = FALSE /\ unread = {} /\ diverged = {}
  BY DEF Init, Serial, PushesAtStart
<1>2. /\ NoMessage.kind = "initialized" /\ IdleHandler.pc = "idle" /\ IdleHandler.msg = NoMessage
      /\ ~Carries(NoMessage)
  BY DEF NoMessage, IdleHandler, Message, Carries
<1>3. \A d \in Docs : /\ editor[d].open = FALSE /\ editor[d].at = 0
                      /\ docs[d].open = FALSE /\ shown[d].clear = TRUE /\ shown[d].at = 0
  BY DEF Init, Absent, NothingShown
<1>4. Stations = -1 .. 1
  BY <1>1 DEF Stations
<1>5. \A d \in Docs, i \in Stations : Here(h, d, i) => i = -1 /\ State(h, d, i) = docs[d]
  BY <1>1, <1>2, <1>4 DEF Here, State, Names
<1>6. ASSUME NEW d \in Docs PROVE Underway(h, d)
  <2>1. LastIsEditor(h, d)
    BY <1>3, <1>5 DEF LastIsEditor, Final, Agrees
  <2>2. Accepted(h, d)
    BY <1>3, <1>5 DEF Accepted, Adjacent
  <2>3. NeverOpened(h, d) /\ Saved(d) /\ Faithful(h, d)
    BY <1>3, <1>5 DEF NeverOpened, Saved, Faithful
  <2> QED BY <2>1, <2>2, <2>3 DEF Underway
<1>7. Shaped(h)
  BY <1>1, <1>2 DEF Shaped, Shape
<1>8. Starting(h)
  BY <1>1, <1>2, <1>3 DEF Starting, StartsUp
<1>9. Served(h)
  BY <1>1, <1>3 DEF Served, Sent, BatchOf, Fits
<1>10. InWork(h)
  BY <1>1, <1>2 DEF InWork
<1>11. Configured(h)
  <2>1. ~LastConfig(0)
    BY <1>1, <1>2 DEF LastConfig, Configures
  <2> QED BY <1>1, <1>2, <2>1 DEF Configured
<1> QED BY <1>6, <1>7, <1>8, <1>9, <1>10, <1>11 DEF Coherent

LEMMA FaultsGrow == ASSUME Typed, NEW h, Serial(h), Next PROVE faults' \in {faults, faults + 1}
<1>1. Edit \/ ReportWrites \/ ClientReceive => faults' = faults
  BY DEF Edit, ReportWrites, ClientReceive, EditorOpen, EditorChange, EditorClose, EditorSave, DiskWrite,
         Configure, client
<1>2. Handle(h) => faults' \in {faults, faults + 1}
  BY DEF Handle, Receive, PutText, RemoveDoc, PublishClear, PullSettings, StoreSettings, StoreRoots,
         RegisterWatchers, Republish, GetText, LoadInclude, PublishDiagnostics, Panic, Return, Push, Fault,
         client
<1> QED BY <1>1, <1>2 DEF Next, Serial

LEMMA CoherentStep ==
    ASSUME Typed, Typed', NEW h, Serial(h), InOrder(h), Coherent(h), Next, faults' = faults,
           Client = "generic"
    PROVE  Coherent(h)'
<1>1. /\ Shaped(h) /\ Starting(h) /\ Configured(h)
      /\ \A e \in Docs : Underway(h, e) /\ Accepted(h, e)
  BY DEF Coherent, Underway
<1>2. ASSUME NEW d \in Docs PROVE Underway(h, d)'
  <2>1. CASE ClientReceive
    <3>1. UNCHANGED <<toServer, docs, run, editor, opens, disk, diverged, unread>>
      BY <2>1 DEF ClientReceive, client, user, server
    <3>2. Moves(h, d, Same)
      BY <3>1, SameMoves DEF Here
    <3> QED BY <1>1, <3>1, <3>2, MovesKeep, StationTypes
  <2> QED BY <1>1, <2>1, UserUnderway, ServerUnderway DEF Next, Serial
<1> QED BY <1>1, <1>2, ShapedStep, StartingStep, ConfiguredStep, InWorkStep, ServedStep DEF Coherent

LEMMA CoherentHolds ==
    ASSUME NEW h, Serial(h), Client = "generic"
    PROVE  Spec => [](faults = 0 => Coherent(h))
<1> DEFINE C == faults = 0 => Coherent(h)
<1>1. Init => C
  BY CoherentInit
<1>2. Typed /\ Typed' /\ InOrder(h) /\ C /\ [Next]_vars => C'
  <2>1. ASSUME Typed, Typed', InOrder(h), C, Next, faults' = 0 PROVE Coherent(h)'
    <3>1. faults \in Nat
      BY <2>1, FaultsAssumption DEF Typed, TypeOK
    <3>2. faults' = faults /\ faults = 0
      BY <2>1, <3>1, FaultsGrow
    <3> QED BY <2>1, <3>2, CoherentStep
  <2>2. ASSUME C, UNCHANGED vars PROVE C'
    <3>1. UNCHANGED <<editor, opens, disk, watching, unread, config, diverged, shown, clock, faults,
                      toServer, toClient, docs, settings, roots, run>>
      BY <2>2 DEF vars, client, user, server
    <3>2. /\ \A d, i : /\ Here(h, d, i)' <=> Here(h, d, i)
                       /\ State(h, d, i)' = State(h, d, i)
          /\ \A i : IsReport(i)' <=> IsReport(i)
          /\ Stations' = Stations /\ Sent' = Sent
      BY <3>1 DEF Here, State, IsReport, Stations, Sent
    <3>3. /\ \A d, i : Final(h, d, i)' <=> Final(h, d, i)
          /\ \A d, i, j : Adjacent(h, d, i, j)' <=> Adjacent(h, d, i, j)
          /\ \A d, i : Outlived(h, d, i)' <=> Outlived(h, d, i)
          /\ Settled' = Settled
      BY <3>1, <3>2 DEF Final, Adjacent, Outlived, Settled
    <3>4. \A d \in Docs : Underway(h, d)' <=> Underway(h, d)
      BY <3>1, <3>2, <3>3 DEF Underway, LastIsEditor, Accepted, NeverOpened, Saved, Faithful
    <3>5. /\ \A d : Due(h, d)' <=> Due(h, d)
          /\ \A d, k : Newest(d, k)' <=> Newest(d, k)
          /\ \A d, k : BatchOf(d, k)' = BatchOf(d, k)
          /\ \A env, i : Current(env, i)' <=> Current(env, i)
      BY <3>1, <3>3 DEF Due, Newest, BatchOf, Current
    <3>6. Served(h)' <=> Served(h)
      BY <3>1, <3>2, <3>3, <3>5 DEF Served, Fits
    <3>7. (Shaped(h) <=> Shaped(h)') /\ (Starting(h) <=> Starting(h)') /\ (Configured(h) <=> Configured(h)')
      BY <3>1 DEF Shaped, Starting, StartsUp, Configured, LastConfig, Applying, Configures
    <3>8. InWork(h) <=> InWork(h)'
      BY <3>1, <3>3 DEF InWork, Current
    <3> QED BY <2>2, <3>1, <3>4, <3>6, <3>7, <3>8 DEF Coherent
  <2> QED BY <2>1, <2>2
<1> QED BY <1>1, <1>2, OrderHolds, TypedHolds, PTL DEF Spec

LEMMA CoherentAtRest ==
    ASSUME Typed, NEW h, Serial(h), Coherent(h), Quiescent
    PROVE  ShownMatchesEditor /\ SettingsApplied /\ IncludesFresh
<1> USE StationTypes
<1>1. /\ toServer = <<>> /\ toClient = <<>> /\ Len(toServer) = 0 /\ Len(toClient) = 0
      /\ run[h].pc = "idle" /\ unread = {}
  BY DEF Quiescent, At
<1>2. Stations = -1 .. 0 /\ -1 \in Stations /\ \A r : ~IsReport(r)
  BY <1>1 DEF Stations, IsReport
<1>3. ASSUME NEW d \in Docs
      PROVE  /\ Agrees(docs[d], editor[d]) /\ Fits(h, d, shown[d]) /\ Final(h, d, -1)
             /\ d \notin diverged /\ editor[d].open => editor[d].text = disk[d]
  <2>1. Final(h, d, -1)
    BY <1>1, <1>2 DEF Final, Here
  <2>2. Agrees(docs[d], editor[d]) /\ Saved(d)
    BY <1>2, <2>1 DEF Coherent, Underway, LastIsEditor, State
  <2>3. ~Due(h, d) /\ 0 \in Sent /\ Newest(d, 0) /\ BatchOf(d, 0) = shown[d]
    BY <1>1 DEF Due, Sent, Newest, BatchOf
  <2>4. Fits(h, d, BatchOf(d, 0))
    BY <2>3 DEF Coherent, Served
  <2> QED BY <2>1, <2>2, <2>3, <2>4 DEF Saved
<1>4. ASSUME NEW d \in Docs PROVE shown[d].at = editor[d].at /\ (shown[d].clear <=> ~editor[d].open)
  BY <1>3 DEF Fits, Agrees
<1>5. ShownMatchesEditor
  <2>1. \A d \in Docs : shown[d].clear \in BOOLEAN /\ editor[d].open \in BOOLEAN
    BY DEF Typed, TypeOK, DocStates
  <2> QED BY <1>4, <2>1 DEF ShownMatchesEditor
<1>6. SettingsApplied
  <2>1. LastConfig(0) /\ ~Applying(h)
    BY <1>1 DEF LastConfig, Applying
  <2>2. config \notin Malformed => settings = config /\ roots = config
    BY <2>1 DEF Coherent, Configured
  <2>3. \A d \in Docs : ~shown[d].clear =>
           /\ shown[d].settings = settings
           /\ \A i \in Includes[d] : shown[d].env[i].roots = roots
    BY <1>3 DEF Fits, Current
  <2> QED BY <2>2, <2>3 DEF SettingsApplied
<1>7. IncludesFresh
  <2> SUFFICES ASSUME NEW d \in Docs, ~shown[d].clear, NEW i \in Includes[d] \ diverged
               PROVE  shown[d].env[i].text = IF editor[i].open THEN editor[i].text ELSE disk[i]
    BY DEF IncludesFresh
  <2>1. i \in Docs /\ i \in Settled
    BY <1>1, <1>2, DocsAssumption DEF Settled
  <2>2. shown[d].env[i].text = disk[i]
    BY <1>3, <2>1 DEF Fits, Current
  <2> QED BY <1>3, <2>1, <2>2
<1> QED BY <1>5, <1>6, <1>7

\* At rest, and when nothing failed, every batch the editor shows was computed
\* from the text it has, under the settings and roots it has, and from the
\* present text of each include that is not being edited (publishDiagnostics,
\* applySettings, DidChangeWatchedFiles, server.go:94-253 and 1779-1825): for a
\* serial connection and a client that pushes the section it changed.
THEOREM CurrentAtRestHolds ==
    ASSUME NEW h, Slots = {h}, Client = "generic"
    PROVE  Spec => []CurrentAtRest
<1>1. Serial(h)
  BY DEF Serial
<1>2. Typed /\ (faults = 0 => Coherent(h)) => CurrentAtRest
  <2>1. ASSUME Typed, faults = 0, Quiescent, Coherent(h) PROVE CurrentAtRest
    BY <1>1, <2>1, CoherentAtRest DEF CurrentAtRest
  <2>2. ~Undisturbed => CurrentAtRest
    BY DEF CurrentAtRest, ShownMatchesEditor, SettingsApplied, IncludesFresh
  <2> QED BY <2>1, <2>2 DEF Undisturbed
<1>3. Spec => [](faults = 0 => Coherent(h))
  BY <1>1, CoherentHolds
<1> QED BY <1>2, <1>3, TypedHolds, PTL
==============================================================================
