--------------------------- MODULE InstallerProofs ---------------------------
(***************************************************************************)
(* The installer, for every number of windows, releases and activations.   *)
(* Neither promise is inductive.  That a resolution alone in the storage   *)
(* names a binary that is there needs what each step knows of the          *)
(* directories (Sound) and that of two resolutions under way both count as *)
(* crowded (Crowds); that a warm cache is what starts needs that the list  *)
(* a degrading window walks down holds every binary (Warm).                *)
(***************************************************************************)
EXTENDS Installer, TLAPS

\* Before the release check is answered or the install's error is caught, no
\* message was shown; a resolution has a run.
Silent == {"check", "cache", "prepare", "download", "verify", "extract", "stat",
           "clear", "mkdir", "rename", "chmod", "list", "prune", "catch"}
Numbered == \A w \in Windows : /\ pc[w] \in Silent => win[w].messages = 0
                               /\ Resolving(w) => win[w].run # 0

Typed == TypeOK /\ Numbered

\* Writing one window's locals.
LEMMA SetLocals ==
    ASSUME win \in [Windows -> Locals], NEW w \in Windows, NEW r \in Locals,
           win' = [win EXCEPT ![w] = r]
    PROVE  /\ win' \in [Windows -> Locals]
           /\ win'[w] = r
           /\ \A v \in Windows \ {w} : win'[v] = win[v]
OBVIOUS

\* Writing one field.
LEMMA SetField ==
    ASSUME NEW r \in Locals
    PROVE  /\ \A x \in Tags : [r EXCEPT !.tag = x] \in Locals
           /\ \A x \in SUBSET Tags : [r EXCEPT !.tags = x] \in Locals
           /\ \A x \in SUBSET (1 .. MaxRuns) : [r EXCEPT !.temps = x] \in Locals
           /\ \A x \in Builds : [r EXCEPT !.file = x] \in Locals
           /\ \A x \in 0 .. Newest : [r EXCEPT !.result = x] \in Locals
           /\ \A x \in 0 .. 2 : [r EXCEPT !.messages = x] \in Locals
           /\ [r EXCEPT !.found = TRUE] \in Locals
<1>1. [r EXCEPT !.found = TRUE] \in Locals
  BY Zenon DEF Locals
<1>2. /\ \A x \in Tags : [r EXCEPT !.tag = x] \in Locals
      /\ \A x \in SUBSET Tags : [r EXCEPT !.tags = x] \in Locals
      /\ \A x \in SUBSET (1 .. MaxRuns) : [r EXCEPT !.temps = x] \in Locals
      /\ \A x \in Builds : [r EXCEPT !.file = x] \in Locals
      /\ \A x \in 0 .. Newest : [r EXCEPT !.result = x] \in Locals
      /\ \A x \in 0 .. 2 : [r EXCEPT !.messages = x] \in Locals
  BY DEF Locals
<1> QED BY <1>1, <1>2

LEMMA NoRunTyped == NoRun \in Locals
<1>1. /\ Released \in Tags /\ Missing \in Builds /\ OnPath \in 0 .. Newest
      /\ 0 \in 0 .. 2 /\ 0 \in 0 .. MaxRuns
  BY ReleasesAssumption, BoundAssumption DEF Tags, Builds, Missing, OnPath
<1> QED BY Zenon, <1>1 DEF Locals, NoRun

\* A step of a resolution is a step of one window, which goes on with some step
\* and some locals; what happens around the resolutions stays.
LEMMA OwnStep ==
    ASSUME Typed, NEW w \in Windows, Advance(w)
    PROVE  /\ Resolving(w)
           /\ UNCHANGED <<latest, log>>
           /\ \E s \in Steps : pc' = [pc EXCEPT ![w] = s]
           /\ \E r \in Locals : win' = [win EXCEPT ![w] = r]
<1> USE ReleasesAssumption, ModesAssumption, FlagsAssumption, BoundAssumption
<1> DEFINE Acts == Advance(w)
<1>1. Resolving(w)
  BY DEF Advance, Prune, Install, Start, CheckLatest, LookCached, ListCached, TryCached, ListServers,
         PruneTag, PruneTemp, Pruned, MakeTemp, Download, Verify, Extract, StatDest, ClearDest,
         MakeDest, Rename, Chmod, Catch, CleanUp, Attempt, At, Resolving
<1>2. UNCHANGED <<latest, log>>
  BY DEF Advance, Prune, Install, Start, CheckLatest, LookCached, ListCached, TryCached, ListServers,
         PruneTag, PruneTemp, Pruned, MakeTemp, Download, Verify, Extract, StatDest, ClearDest,
         MakeDest, Rename, Chmod, Catch, CleanUp, log
<1>3. \E s \in Steps : pc' = [pc EXCEPT ![w] = s]
  <2>1. pc \in [Windows -> Steps]
    BY DEF Typed, TypeOK
  <2>2. pc' = [pc EXCEPT ![w] = pc[w]] \/ \E s \in Steps : Go(w, s)
    BY <2>1 DEF Advance, Prune, Install, Start, CheckLatest, LookCached, ListCached, TryCached, ListServers,
         PruneTag, PruneTemp, Pruned, MakeTemp, Download, Verify, Extract, StatDest, ClearDest,
         MakeDest, Rename, Chmod, Catch, CleanUp, Attempt, Resolve, Steps, Installing
  <2> QED BY <2>1, <2>2 DEF Go
<1>4. \E r \in Locals : win' = [win EXCEPT ![w] = r]
  <2> DEFINE l == win[w]
  <2>0. /\ win \in [Windows -> Locals] /\ l \in Locals
        /\ l.tags \subseteq Tags /\ l.temps \subseteq 1 .. MaxRuns /\ l.tag \in Tags
        /\ latest \in Tags /\ dirs \subseteq Tags /\ temps \subseteq 1 .. MaxRuns
        /\ l.tag \in Builds /\ l.tag \in 0 .. Newest /\ Corrupt \in Builds /\ OnPath \in 0 .. Newest
    <3>1. win \in [Windows -> Locals] /\ l \in Locals
      BY DEF Typed, TypeOK
    <3>2. l.tags \subseteq Tags /\ l.temps \subseteq 1 .. MaxRuns /\ l.tag \in Tags
      BY <3>1 DEF Locals
    <3>3. latest \in Tags /\ dirs \subseteq Tags /\ temps \subseteq 1 .. MaxRuns
      BY DEF Typed, TypeOK
    <3>4. /\ \A t \in Tags : t \in Builds /\ t \in 0 .. Newest
          /\ Corrupt \in Builds /\ OnPath \in 0 .. Newest
      BY DEF Tags, Builds, Corrupt, OnPath
    <3> QED BY <3>1, <3>2, <3>3, <3>4
  <2> HIDE DEF l
  <2>1. CASE UNCHANGED win
    BY <2>0, <2>1 DEF l
  <2>2. CASE CheckLatest(w)
    <3>1. l.messages = 0
      BY <2>2 DEF l, CheckLatest, At, Typed, Numbered, Silent
    <3>2. \/ win' = [win EXCEPT ![w] = [l EXCEPT !.tag = latest]]
          \/ \E shown \in {0, 1} : win' = [win EXCEPT ![w] = [l EXCEPT !.messages = shown]]
      BY <2>2, <3>1 DEF CheckLatest, l
    <3>3. \A shown \in {0, 1} : shown \in 0 .. 2
      OBVIOUS
    <3> QED BY <3>2, <3>3, <2>0, SetField
  <2>3. CASE LookCached(w)
    BY <2>0, <2>1, <2>3, SetField DEF LookCached, l
  <2>4. CASE ListCached(w)
    BY <2>0, <2>4, SetField DEF ListCached, l
  <2>5. CASE TryCached(w)
    <3>1. \/ win' = [win EXCEPT ![w] = [l EXCEPT !.result = OnPath]]
          \/ \E t \in l.tags : \/ win' = [win EXCEPT ![w] = [l EXCEPT !.result = t]]
                               \/ win' = [win EXCEPT ![w] = [l EXCEPT !.tags = @ \ {t}]]
      BY <2>5 DEF TryCached, Resolve, l
    <3>2. \A t \in l.tags : t \in 0 .. Newest /\ l.tags \ {t} \subseteq Tags
      BY <2>0 DEF Tags
    <3> QED BY <2>0, <3>1, <3>2, SetField
  <2>6. CASE Prune(w)
    <3>1. CASE ListServers(w)
      <4>1. win' = [win EXCEPT ![w] = [[l EXCEPT !.tags = dirs \ {l.tag}] EXCEPT !.temps = temps]]
        BY <3>1 DEF ListServers, l
      <4>2. dirs \ {l.tag} \subseteq Tags
        BY <2>0
      <4> QED BY <2>0, <4>1, <4>2, SetField
    <3>2. CASE PruneTag(w) \/ PruneTemp(w) \/ Pruned(w)
      <4>1. \/ win' = [win EXCEPT ![w] = [[l EXCEPT !.tags = {}] EXCEPT !.temps = {}]]
            \/ win' = [win EXCEPT ![w] = [l EXCEPT !.result = OnPath]]
            \/ win' = [win EXCEPT ![w] = [l EXCEPT !.result = l.tag]]
            \/ \E t \in l.tags : win' = [win EXCEPT ![w] = [l EXCEPT !.tags = @ \ {t}]]
            \/ \E r \in l.temps : win' = [win EXCEPT ![w] = [l EXCEPT !.temps = @ \ {r}]]
        BY <3>2 DEF PruneTag, PruneTemp, Pruned, Resolve, l
      <4>2. /\ \A t \in l.tags : l.tags \ {t} \subseteq Tags
            /\ \A r \in l.temps : l.temps \ {r} \subseteq 1 .. MaxRuns
        BY <2>0
      <4> QED BY <2>0, <2>1, <4>1, <4>2, SetField
    <3> QED BY <2>6, <3>1, <3>2 DEF Prune
  <2>7. CASE Download(w)
    <3>1. \E file \in {l.tag} \cup {Corrupt} : win' = [win EXCEPT ![w] = [l EXCEPT !.file = file]]
      BY <2>7 DEF Download, l
    <3> QED BY <2>0, <3>1, SetField
  <2>8. CASE Catch(w)
    <3>1. l.messages = 0
      BY <2>8 DEF l, Catch, At, Typed, Numbered, Silent
    <3>2. \/ win' = [win EXCEPT ![w] = [l EXCEPT !.result = l.tag]]
          \/ win' = [win EXCEPT ![w] = [l EXCEPT !.messages = 1]]
      <4>1. CASE Installed(l.tag)
        BY <2>8, <4>1 DEF Catch, l
      <4>2. CASE ~Installed(l.tag)
        <5>1. win' = [win EXCEPT ![w] = [l EXCEPT !.messages = l.messages + 1]]
          BY <2>8, <4>2 DEF Catch, l
        <5> QED BY <5>1, <3>1
      <4> QED BY <4>1, <4>2
    <3>3. 1 \in 0 .. 2
      OBVIOUS
    <3> QED BY <2>0, <3>2, <3>3, SetField
  <2>9. CASE MakeTemp(w) \/ Verify(w) \/ Extract(w) \/ StatDest(w) \/ ClearDest(w) \/ MakeDest(w)
             \/ Rename(w) \/ Chmod(w) \/ CleanUp(w) \/ Start(w)
    BY <2>1, <2>9 DEF MakeTemp, Verify, Extract, StatDest, ClearDest, MakeDest, Rename, Chmod,
                      CleanUp, Start
  <2> QED BY <2>2, <2>3, <2>4, <2>5, <2>6, <2>7, <2>8, <2>9 DEF Advance, Install
<1> QED BY <1>1, <1>2, <1>3, <1>4

\* A step keeps the run's number, and shows no message where none was shown.
LEMMA OwnNumber ==
    ASSUME Typed, NEW w \in Windows, Advance(w)
    PROVE  /\ win'[w].run = win[w].run
           /\ pc'[w] \in Silent => win'[w].messages = 0
<1>1. /\ win \in [Windows -> Locals] /\ pc \in [Windows -> Steps]
      /\ pc[w] \in Silent => win[w].messages = 0
  BY DEF Typed, TypeOK, Numbered
<1> USE <1>1 DEF Silent, At, Go
<1>2. CASE CheckLatest(w) \/ LookCached(w) \/ ListCached(w)
  BY <1>2 DEF CheckLatest, LookCached, ListCached, Locals
<1>3. CASE TryCached(w)
  BY <1>3 DEF TryCached, Resolve, Locals
<1>4. CASE ListServers(w) \/ PruneTemp(w) \/ Pruned(w)
  BY <1>4 DEF ListServers, PruneTemp, Pruned, Locals
<1>5. CASE PruneTag(w)
  BY <1>5 DEF PruneTag, Resolve, Locals
<1>6. CASE Download(w)
  BY <1>6 DEF Download, Attempt, Locals
<1>7. CASE MakeTemp(w) \/ MakeDest(w) \/ Chmod(w) \/ CleanUp(w) \/ Start(w)
  BY <1>7 DEF Attempt, MakeTemp, MakeDest, Chmod, CleanUp, Start
<1>8. CASE Verify(w) \/ Extract(w) \/ StatDest(w) \/ ClearDest(w) \/ Rename(w)
  BY <1>8 DEF Verify, Extract, StatDest, ClearDest, Rename, Attempt
<1>9. CASE Catch(w)
  BY <1>9 DEF Catch, Locals
<1> QED BY <1>2, <1>3, <1>4, <1>5, <1>6, <1>7, <1>8, <1>9 DEF Advance, Prune, Install

\* The storage keeps its type under every step of a resolution.
LEMMA OwnStorage ==
    ASSUME Typed, NEW w \in Windows, Advance(w)
    PROVE  dirs' \subseteq Tags /\ binary' \in [Tags -> Builds] /\ temps' \subseteq 1 .. MaxRuns
<1>1. /\ dirs \subseteq Tags /\ binary \in [Tags -> Builds] /\ temps \subseteq 1 .. MaxRuns
      /\ win[w] \in Locals
  BY DEF Typed, TypeOK
<1>2. win[w].tag \in Tags /\ win[w].file \in Builds /\ win[w].run \in 0 .. MaxRuns
  BY <1>1 DEF Locals
<1>3. win[w].run \in 1 .. MaxRuns
  BY <1>2, OwnStep, BoundAssumption DEF Typed, Numbered
<1>4. Missing \in Builds
  BY ReleasesAssumption DEF Missing, Builds
<1>5. CASE UNCHANGED storage
  BY <1>1, <1>5 DEF storage
<1>6. CASE MakeTemp(w) \/ CleanUp(w) \/ PruneTemp(w)
  BY <1>1, <1>3, <1>6 DEF MakeTemp, CleanUp, PruneTemp
<1>7. CASE PruneTag(w) \/ ClearDest(w) \/ MakeDest(w) \/ Rename(w)
  BY <1>1, <1>2, <1>4, <1>7 DEF PruneTag, ClearDest, MakeDest, Rename
<1> QED BY <1>5, <1>6, <1>7
        DEF Advance, Prune, Install, Start, CheckLatest, LookCached, ListCached, TryCached,
            ListServers, Pruned, Download, Verify, Extract, StatDest, Chmod, Catch, storage

LEMMA StepTyped == Typed /\ [Next]_vars => Typed'
<1> SUFFICES ASSUME Typed, [Next]_vars PROVE Typed'
  OBVIOUS
<1> USE ReleasesAssumption, ModesAssumption, FlagsAssumption, BoundAssumption
<1>1. CASE PublishRelease
  BY <1>1 DEF PublishRelease, Typed, TypeOK, Numbered, storage, log, Tags, Resolving
<1>2. ASSUME NEW w \in Windows, Activate(w) PROVE Typed'
  <2>1. PICK s \in {"start", "degrade", "check"} :
          /\ At(w, "closed") /\ runs < MaxRuns /\ runs' = runs + 1
          /\ win' = [win EXCEPT ![w] = [NoRun EXCEPT !.run = runs + 1]]
          /\ pc' = [pc EXCEPT ![w] = s]
          /\ crowded' \subseteq crowded \cup Windows
          /\ UNCHANGED <<latest, storage, died>>
    BY <1>2 DEF Activate, Go
  <2>2. runs + 1 \in 0 .. MaxRuns /\ runs + 1 \in 1 .. MaxRuns
    BY <2>1 DEF Typed, TypeOK
  <2>3. /\ [NoRun EXCEPT !.run = runs + 1] \in Locals
        /\ [NoRun EXCEPT !.run = runs + 1].run = runs + 1
        /\ [NoRun EXCEPT !.run = runs + 1].messages = 0
    BY <2>2, NoRunTyped DEF Locals, NoRun
  <2>4. runs + 1 # 0
    BY <2>2
  <2>5. /\ win' \in [Windows -> Locals]
        /\ win'[w] = [NoRun EXCEPT !.run = runs + 1]
        /\ \A v \in Windows \ {w} : win'[v] = win[v]
    BY <2>1, <2>3, SetLocals DEF Typed, TypeOK
  <2>6. win'[w].run # 0 /\ win'[w].messages = 0
    BY <2>3, <2>4, <2>5
  <2>7. /\ pc' \in [Windows -> Steps] /\ pc'[w] = s
        /\ \A v \in Windows \ {w} : pc'[v] = pc[v]
    BY <2>1 DEF Typed, TypeOK, Steps
  <2>8. TypeOK'
    BY <2>1, <2>2, <2>5, <2>7 DEF Typed, TypeOK, storage
  <2>9. Numbered'
    BY <2>5, <2>6, <2>7 DEF Typed, Numbered, Resolving
  <2> QED BY <2>8, <2>9 DEF Typed
<1>3. ASSUME NEW w \in Windows, Advance(w) PROVE Typed'
  <2>1. PICK s \in Steps, r \in Locals :
          pc' = [pc EXCEPT ![w] = s] /\ win' = [win EXCEPT ![w] = r]
    BY <1>3, OwnStep
  <2>2. /\ win' \in [Windows -> Locals]
        /\ \A v \in Windows \ {w} : win'[v] = win[v]
    BY <2>1, SetLocals DEF Typed, TypeOK
  <2>3. pc' \in [Windows -> Steps] /\ \A v \in Windows \ {w} : pc'[v] = pc[v]
    BY <2>1 DEF Typed, TypeOK
  <2>4. Resolving(w) /\ UNCHANGED <<latest, log>>
    BY <1>3, OwnStep
  <2>5. TypeOK'
    BY <1>3, <2>2, <2>3, <2>4, OwnStorage DEF Typed, TypeOK, log
  <2>6. Numbered'
    BY <1>3, <2>2, <2>3, <2>4, OwnNumber DEF Typed, Numbered, Resolving
  <2> QED BY <2>5, <2>6 DEF Typed
<1>4. ASSUME NEW w \in Windows, Close(w) PROVE Typed'
  <2>1. /\ pc' \in [Windows -> Steps] /\ pc'[w] = "closed"
        /\ \A v \in Windows \ {w} : pc'[v] = pc[v]
    BY <1>4 DEF Close, Go, Typed, TypeOK, Steps
  <2>2. UNCHANGED <<latest, storage, runs, crowded, win>>
    BY <1>4 DEF Close
  <2>3. died' \subseteq 1 .. MaxRuns
    <3>1. win[w].run \in 0 .. MaxRuns
      BY DEF Typed, TypeOK, Locals
    <3>2. Resolving(w) => win[w].run \in 1 .. MaxRuns
      BY <3>1 DEF Typed, Numbered
    <3> QED BY <1>4, <3>2 DEF Close, Typed, TypeOK
  <2>4. TypeOK'
    BY <2>1, <2>2, <2>3 DEF Typed, TypeOK, storage
  <2>5. Numbered'
    BY <2>1, <2>2 DEF Typed, Numbered, Silent, Resolving
  <2> QED BY <2>4, <2>5 DEF Typed
<1>5. CASE UNCHANGED vars
  BY <1>5 DEF vars, Typed, TypeOK, Numbered, log, Resolving
<1> QED BY <1>1, <1>2, <1>3, <1>4, <1>5 DEF Next

LEMMA InitTyped == Init => Typed
<1> SUFFICES ASSUME Init PROVE Typed
  OBVIOUS
<1> USE ReleasesAssumption, ModesAssumption, FlagsAssumption, BoundAssumption
<1>1. NoRun \in Locals
  BY NoRunTyped
<1>2. binary \in [Tags -> Builds]
  BY DEF Init, Tags, Builds, Missing
<1>3. Numbered
  BY DEF Init, Numbered, Silent, Resolving
<1>4. TypeOK
  BY <1>1, <1>2 DEF Init, TypeOK, Tags, Steps
<1> QED BY <1>3, <1>4 DEF Typed

LEMMA TypedHolds == Spec => []Typed
BY InitTyped, StepTyped, PTL DEF Spec

\* The storage and the windows keep their types (install.ts:175-480).
THEOREM TypeCorrect == Spec => []TypeOK
<1>1. Typed => TypeOK
  BY DEF Typed
<1> QED BY <1>1, TypedHolds, PTL

------------------------------------------------------------------------------

\* Of two windows that resolve at once both know that they were not alone.
Crowds == \A v, w \in Windows : v # w /\ Resolving(v) /\ Resolving(w) => v \in crowded

\* A binary lies in the directory of its tag.
InDirs == \A t \in Tags : Installed(t) => t \in dirs

\* What a window that resolves alone knows of the storage: the binary it will
\* name is there, the one it has found or published is kept out of the prune,
\* a verified archive is the release it asked for.
Sound(w) ==
    /\ win[w].result # OnPath => Installed(win[w].result)
    /\ pc[w] \notin {"cleanup", "start"} => win[w].result = OnPath
    /\ pc[w] \in {"list", "prune", "chmod"} => Installed(win[w].tag)
    /\ pc[w] = "prune" => win[w].tag \notin win[w].tags
    /\ pc[w] \in {"extract", "stat", "clear", "mkdir", "rename"} => win[w].file = win[w].tag

StorageInv ==
    /\ Crowds /\ InDirs
    /\ \A w \in Windows : Resolving(w) /\ Alone(w) => Sound(w)

\* The others do not move while one window resolves.
LEMMA OthersStay ==
    ASSUME Typed, NEW w \in Windows, Advance(w)
    PROVE  /\ crowded' = crowded
           /\ \A v \in Windows \ {w} : pc'[v] = pc[v] /\ win'[v] = win[v]
<1>1. PICK s \in Steps, r \in Locals :
        pc' = [pc EXCEPT ![w] = s] /\ win' = [win EXCEPT ![w] = r]
  BY OwnStep
<1> QED BY <1>1, OwnStep, SetLocals DEF Typed, TypeOK, log

LEMMA AdvanceCrowds ==
    ASSUME Typed, Crowds, NEW w \in Windows, Advance(w)
    PROVE  Crowds'
<1>1. Resolving(w)
  BY OwnStep
<1>2. \A v \in Windows : Resolving(v)' => Resolving(v)
  BY <1>1, OthersStay DEF Resolving
<1> QED BY <1>2, OthersStay DEF Crowds

LEMMA AdvanceInDirs ==
    ASSUME Typed, InDirs, NEW w \in Windows, Advance(w)
    PROVE  InDirs'
<1>1. binary \in [Tags -> Builds] /\ win[w].tag \in Tags
  BY DEF Typed, TypeOK, Locals
<1>2. CASE PruneTag(w) \/ ClearDest(w) \/ MakeDest(w) \/ Rename(w)
  BY <1>1, <1>2 DEF PruneTag, ClearDest, MakeDest, Rename, InDirs, Installed
<1>3. CASE dirs' = dirs /\ binary' = binary
  BY <1>3 DEF InDirs, Installed
<1> QED BY <1>2, <1>3
        DEF Advance, Prune, Install, Start, CheckLatest, LookCached, ListCached, TryCached, PruneTemp,
            ListServers, Pruned, MakeTemp, Download, Verify, Extract, StatDest, Chmod, Catch, CleanUp, storage

\* A step of the window that resolves alone.
LEMMA AdvanceSound ==
    ASSUME Typed, InDirs, NEW w \in Windows, Sound(w), Advance(w), Resolving(w)'
    PROVE  Sound(w)'
<1>1. /\ win \in [Windows -> Locals] /\ pc \in [Windows -> Steps]
      /\ binary \in [Tags -> Builds] /\ win[w] \in Locals
  BY DEF Typed, TypeOK
<1>2. win[w].tag \in Tags /\ win[w].tag # Missing /\ OnPath \notin Tags
  BY <1>1 DEF Locals, Tags, Missing, OnPath
<1> USE <1>1 DEF Sound, At, Go, Installed
<1>3. CASE CheckLatest(w) \/ LookCached(w) \/ ListCached(w)
  BY <1>3 DEF CheckLatest, LookCached, ListCached, Locals, storage
<1>4. CASE TryCached(w)
  BY <1>4 DEF TryCached, Resolve, Locals, storage
<1>5. CASE ListServers(w) \/ PruneTemp(w) \/ Pruned(w)
  BY <1>5 DEF ListServers, PruneTemp, Pruned, Locals, storage
<1>6. CASE PruneTag(w)
  BY <1>2, <1>6 DEF PruneTag, Resolve, Locals
<1>7. CASE MakeTemp(w) \/ CleanUp(w) \/ Start(w)
  BY <1>7 DEF Attempt, MakeTemp, CleanUp, Start, storage, Resolving
<1>8. CASE Download(w) \/ Verify(w) \/ Extract(w)
  BY <1>8 DEF Download, Verify, Extract, Attempt, Locals, storage
<1>9. CASE StatDest(w) \/ Chmod(w)
  BY <1>9 DEF StatDest, Chmod, Attempt, storage
<1>10. CASE ClearDest(w) \/ MakeDest(w)
  BY <1>10 DEF ClearDest, MakeDest, Attempt
<1>11. CASE Rename(w)
  BY <1>2, <1>11 DEF Rename
<1>12. CASE Catch(w)
  BY <1>12 DEF Catch, Locals, storage
<1> QED BY <1>3, <1>4, <1>5, <1>6, <1>7, <1>8, <1>9, <1>10, <1>11, <1>12 DEF Advance, Prune, Install

LEMMA InitStorage == Init => StorageInv
BY DEF Init, StorageInv, Crowds, InDirs, Installed, Resolving, Missing

\* What the windows around the resolutions do: a window that opens while others
\* resolve makes all of them crowded.
LEMMA ActivateStorage ==
    ASSUME Typed, StorageInv, NEW w \in Windows, Activate(w)
    PROVE  StorageInv'
<1>1. PICK s \in {"start", "degrade", "check"} :
        /\ At(w, "closed") /\ runs < MaxRuns /\ runs' = runs + 1
        /\ win' = [win EXCEPT ![w] = [NoRun EXCEPT !.run = runs + 1]]
        /\ pc' = [pc EXCEPT ![w] = s]
        /\ UNCHANGED <<latest, storage, died>>
  BY DEF Activate, Go
<1>2. /\ [NoRun EXCEPT !.run = runs + 1] \in Locals
      /\ [NoRun EXCEPT !.run = runs + 1].result = OnPath
  <2>1. runs + 1 \in 0 .. MaxRuns
    BY <1>1, BoundAssumption DEF Typed, TypeOK
  <2> QED BY <2>1, NoRunTyped DEF Locals, NoRun
<1>3. /\ win'[w].result = OnPath
      /\ \A v \in Windows \ {w} : win'[v] = win[v]
  BY <1>1, <1>2, SetLocals DEF Typed, TypeOK
<1>4. pc'[w] = s /\ \A v \in Windows \ {w} : pc'[v] = pc[v]
  BY <1>1 DEF Typed, TypeOK
<1>5. LET others == {v \in Windows \ {w} : Resolving(v)}
      IN  crowded' = (crowded \ {w}) \cup others \cup IF others = {} THEN {} ELSE {w}
  BY DEF Activate
<1>6. Crowds'
  BY <1>4, <1>5 DEF StorageInv, Crowds, Resolving
<1>7. InDirs'
  BY <1>1 DEF StorageInv, InDirs, Installed, storage
<1>8. ASSUME NEW v \in Windows, Resolving(v)', Alone(v)' PROVE Sound(v)'
  <2>1. CASE v = w
    BY <1>3, <1>4, <2>1 DEF Sound
  <2>2. CASE v # w
    BY <1>4, <1>5, <1>8, <2>2 DEF Resolving, Alone
  <2> QED BY <2>1, <2>2
<1> QED BY <1>6, <1>7, <1>8 DEF StorageInv

LEMMA StepStorage == Typed /\ StorageInv /\ [Next]_vars => StorageInv'
<1> SUFFICES ASSUME Typed, StorageInv, [Next]_vars PROVE StorageInv'
  OBVIOUS
<1>1. CASE PublishRelease \/ UNCHANGED vars
  BY <1>1 DEF PublishRelease, vars, storage, log, StorageInv, Crowds, InDirs, Sound, Installed,
              Resolving, Alone
<1>2. ASSUME NEW w \in Windows, Activate(w) PROVE StorageInv'
  BY <1>2, ActivateStorage
<1>3. ASSUME NEW w \in Windows, Advance(w) PROVE StorageInv'
  <2>1. Crowds' /\ InDirs'
    BY <1>3, AdvanceCrowds, AdvanceInDirs DEF StorageInv
  <2>2. ASSUME NEW v \in Windows, Resolving(v)', Alone(v)' PROVE Sound(v)'
    <3>1. Resolving(w)
      BY <1>3, OwnStep
    <3>2. CASE v = w
      BY <1>3, <2>2, <3>1, <3>2, AdvanceSound, OthersStay DEF StorageInv, Alone
    <3>3. CASE v # w
      BY <1>3, <2>2, <3>1, <3>3, OthersStay DEF StorageInv, Crowds, Alone, Resolving
    <3> QED BY <3>2, <3>3
  <2> QED BY <2>1, <2>2 DEF StorageInv
<1>4. ASSUME NEW w \in Windows, Close(w) PROVE StorageInv'
  <2>1. /\ pc'[w] = "closed" /\ \A v \in Windows \ {w} : pc'[v] = pc[v]
        /\ UNCHANGED <<storage, crowded, win>>
    BY <1>4 DEF Close, Go, Typed, TypeOK
  <2>2. Crowds' /\ InDirs'
    BY <2>1 DEF StorageInv, Crowds, InDirs, Installed, Resolving, storage
  <2>3. ASSUME NEW v \in Windows, Resolving(v)', Alone(v)' PROVE Sound(v)'
    BY <2>1, <2>3 DEF StorageInv, Sound, Installed, Resolving, Alone, storage
  <2> QED BY <2>2, <2>3 DEF StorageInv
<1> QED BY <1>1, <1>2, <1>3, <1>4 DEF Next

LEMMA StorageHolds == Spec => []StorageInv
BY InitStorage, StepStorage, TypedHolds, PTL DEF Spec

\* Whatever former windows left behind when they failed or died, a window that
\* resolves alone starts a binary that is there (install.ts:403-415, 453-458).
THEOREM AloneStartFindsHolds == Spec => []AloneStartFinds
<1>1. StorageInv => AloneStartFinds
  BY DEF StorageInv, Sound, AloneStartFinds, Resolving, At
<1> QED BY <1>1, StorageHolds, PTL

------------------------------------------------------------------------------

\* Without a command on PATH, an explicit setting and binaries that cannot be
\* removed: a window that degrades alone has every binary on its list until it
\* names one, and names the bare command only when there is none.
NothingElse == ~InPath /\ "setting" \notin Modes /\ ~Locking

Warm(w) ==
    /\ pc[w] = "try" => \A t \in Tags : Installed(t) => t \in win[w].tags
    /\ pc[w] = "start" /\ win[w].result = OnPath => \A t \in Tags : ~Installed(t)

WarmInv == \A w \in Windows : Resolving(w) /\ Alone(w) => Warm(w)

LEMMA AdvanceWarm ==
    ASSUME NothingElse, Typed, InDirs, NEW w \in Windows, Sound(w), Warm(w), Advance(w), Resolving(w)'
    PROVE  Warm(w)'
<1>1. /\ win \in [Windows -> Locals] /\ pc \in [Windows -> Steps]
      /\ binary \in [Tags -> Builds] /\ win[w] \in Locals
  BY DEF Typed, TypeOK
<1>2. win[w].tag \in Tags /\ OnPath \notin Tags /\ win[w].tags \subseteq Tags
  BY <1>1 DEF Locals, Tags, OnPath
<1> USE <1>1 DEF Warm, At, Go, Installed, NothingElse
<1>3. CASE CheckLatest(w) \/ LookCached(w)
  BY <1>3 DEF CheckLatest, LookCached
<1>4. CASE ListCached(w)
  BY <1>4 DEF ListCached, InDirs, Locals, storage
<1>5. CASE TryCached(w)
  BY <1>2, <1>5 DEF TryCached, Resolve, Locals, storage
<1>6. CASE ListServers(w) \/ PruneTemp(w)
  BY <1>6 DEF ListServers, PruneTemp
<1>7. CASE Pruned(w)
  BY <1>2, <1>7 DEF Pruned, Locals
<1>8. CASE PruneTag(w)
  BY <1>8 DEF PruneTag, Held
<1>9. CASE MakeTemp(w) \/ CleanUp(w) \/ Start(w)
  BY <1>9 DEF Attempt, MakeTemp, CleanUp, Start, Resolving
<1>10. CASE Download(w) \/ Verify(w) \/ Extract(w) \/ StatDest(w) \/ Chmod(w)
  BY <1>10 DEF Download, Verify, Extract, StatDest, Chmod, Attempt
<1>11. CASE ClearDest(w) \/ MakeDest(w) \/ Rename(w) \/ Catch(w)
  BY <1>11 DEF ClearDest, MakeDest, Rename, Catch, Attempt
<1> QED BY <1>3, <1>4, <1>5, <1>6, <1>7, <1>8, <1>9, <1>10, <1>11 DEF Advance, Prune, Install

LEMMA StepWarm == ASSUME NothingElse PROVE Typed /\ StorageInv /\ WarmInv /\ [Next]_vars => WarmInv'
<1> SUFFICES ASSUME Typed, StorageInv, WarmInv, [Next]_vars PROVE WarmInv'
  OBVIOUS
<1>1. CASE PublishRelease \/ UNCHANGED vars
  BY <1>1 DEF PublishRelease, vars, storage, log, WarmInv, Warm, Installed, Resolving, Alone
<1>2. ASSUME NEW w \in Windows, Activate(w), NEW v \in Windows, Resolving(v)', Alone(v)'
      PROVE  Warm(v)'
  <2>1. /\ pc'[w] \in {"degrade", "check"} /\ \A u \in Windows \ {w} : pc'[u] = pc[u]
    BY <1>2 DEF Activate, Go, Typed, TypeOK, NothingElse
  <2>2. v # w => v \in crowded'
    BY <1>2, <2>1 DEF Activate, Resolving
  <2> QED BY <1>2, <2>1, <2>2 DEF Warm, Alone
<1>3. ASSUME NEW w \in Windows, Advance(w), NEW v \in Windows, Resolving(v)', Alone(v)'
      PROVE  Warm(v)'
  <2>1. Resolving(w)
    BY <1>3, OwnStep
  <2>2. CASE v = w
    BY <1>3, <2>1, <2>2, AdvanceWarm, OthersStay DEF StorageInv, WarmInv, Alone
  <2>3. CASE v # w
    BY <1>3, <2>1, <2>3, OthersStay DEF StorageInv, Crowds, Alone, Resolving
  <2> QED BY <2>2, <2>3
<1>4. ASSUME NEW w \in Windows, Close(w), NEW v \in Windows, Resolving(v)', Alone(v)'
      PROVE  Warm(v)'
  <2>1. /\ pc'[w] = "closed" /\ \A u \in Windows \ {w} : pc'[u] = pc[u]
        /\ UNCHANGED <<storage, crowded, win>>
    BY <1>4 DEF Close, Go, Typed, TypeOK
  <2> QED BY <1>4, <2>1 DEF WarmInv, Warm, Installed, Resolving, Alone, storage
<1> QED BY <1>1, <1>2, <1>3, <1>4 DEF Next, WarmInv

\* A failed check, download or install never costs the server that was cached:
\* the window starts it (resolveServer, install.ts:466-479).
THEOREM WarmSurvivesHolds == ASSUME NothingElse PROVE Spec => []WarmSurvives
<1>1. Init => WarmInv
  BY DEF Init, WarmInv, Resolving
<1>2. WarmInv => WarmSurvives
  BY DEF WarmInv, Warm, WarmSurvives, Resolving, At
<1> QED BY <1>1, <1>2, StepWarm, StorageHolds, TypedHolds, PTL DEF Spec
==============================================================================
