------------------------------ MODULE Installer ------------------------------
(***************************************************************************)
(* Server delivery of the VS Code extension: resolveServer and             *)
(* installFromRelease of every open window, over the one directory         *)
(* globalStorage/servers that the windows share.                           *)
(*                                                                         *)
(* A release is its number, so compareTags is the order of numbers; an     *)
(* archive or a binary is the number of the release it was built from.     *)
(* Each await that touches the shared directory is a step, and the other   *)
(* windows run between any two.                                            *)
(***************************************************************************)
EXTENDS Naturals, FiniteSets

CONSTANTS Windows,
          Newest,    \* bound: releases are 1 .. Newest
          Released,  \* the latest release at first
          Cached,    \* the releases in the storage at first
          InPath,    \* a server command is on PATH
          Modes,     \* the delivery settings in use
          Faulty,    \* requests, archives, tar and the steps on files may fail
          Kills,     \* a window may die in the middle of a resolution
          Locking,   \* the platform does not remove a running binary (win32)
          MaxRuns    \* bound: activations

ASSUME ReleasesAssumption ==
    Newest \in Nat /\ Released \in 1 .. Newest /\ Cached \subseteq 1 .. Newest
ASSUME ModesAssumption == Modes \subseteq {"setting", "auto", "off"}
ASSUME FlagsAssumption == {InPath, Faulty, Kills, Locking} \subseteq BOOLEAN
ASSUME BoundAssumption == MaxRuns \in Nat

VARIABLES latest,  \* the release the site calls latest
          dirs,    \* the tags with a directory in servers/
          binary,  \* [Tags -> binary in servers/<tag>, or Missing]
          temps,   \* the runs whose servers/.tmp-* directory exists
          runs,    \* activations so far; a run is its number
          crowded, \* history: windows that resolved while another window did
          died,    \* history: runs that died in the middle of a resolution
          pc,      \* the step of each window
          win      \* its local state

log == <<runs, crowded, died>>
vars == <<latest, dirs, binary, temps, log, pc, win>>

Tags == 1 .. Newest
Missing == 0
Corrupt == Newest + 1
Builds == 0 .. Newest + 1

\* What a resolution names: the binary of a tag, or a command looked up on PATH.
OnPath == 0

NoRun == [run |-> 0, tag |-> Released, file |-> Missing, tags |-> {}, temps |-> {},
          found |-> FALSE, result |-> OnPath, messages |-> 0]

Init ==
    /\ latest = Released
    /\ dirs = Cached
    /\ binary = [t \in Tags |-> IF t \in Cached THEN t ELSE Missing]
    /\ temps = {}
    /\ runs = 0
    /\ crowded = {}
    /\ died = {}
    /\ pc = [w \in Windows |-> "closed"]
    /\ win = [w \in Windows |-> NoRun]

storage == <<dirs, binary, temps>>

Installed(t) == binary[t] # Missing
Held(t) == Locking /\ \E w \in Windows : pc[w] = "running" /\ win[w].result = t

Resolving(w) == pc[w] \notin {"closed", "running", "failed"}

At(w, step) == pc[w] = step
Go(w, step) == pc' = [pc EXCEPT ![w] = step]

\* A resolution that names command; the client is started with it next.
Resolve(w, command) ==
    /\ win' = [win EXCEPT ![w].result = command]
    /\ Go(w, "start")

------------------------------------------------------------------------------
(* The site and the windows *)

PublishRelease ==
    /\ latest < Newest
    /\ latest' = latest + 1
    /\ UNCHANGED <<storage, log, pc, win>>

\* activate: an explicit serverPath names the command; "off" stays offline.
Activate(w) ==
    /\ At(w, "closed") /\ runs < MaxRuns
    /\ runs' = runs + 1
    /\ win' = [win EXCEPT ![w] = [NoRun EXCEPT !.run = runs + 1]]
    /\ \/ "setting" \in Modes /\ Go(w, "start")
       \/ "off" \in Modes /\ Go(w, "degrade")
       \/ "auto" \in Modes /\ Go(w, "check")
    /\ LET others == {v \in Windows \ {w} : Resolving(v)}
       IN  crowded' = (crowded \ {w}) \cup others \cup IF others = {} THEN {} ELSE {w}
    /\ UNCHANGED <<latest, storage, died>>

\* client.start spawns the command the resolution named.
Start(w) ==
    /\ At(w, "start")
    /\ LET found == IF win[w].result = OnPath THEN InPath ELSE Installed(win[w].result)
       IN  Go(w, IF found THEN "running" ELSE "failed")
    /\ UNCHANGED <<latest, storage, log, win>>

Close(w) ==
    /\ ~ At(w, "closed")
    /\ \/ ~ Resolving(w) /\ UNCHANGED died
       \/ Resolving(w) /\ Kills /\ died' = died \cup {win[w].run}
    /\ Go(w, "closed")
    /\ UNCHANGED <<latest, storage, runs, crowded, win>>

------------------------------------------------------------------------------
(* resolveServer *)

\* The one network check of an activation; only a rate limit is silent.
CheckLatest(w) ==
    /\ At(w, "check")
    /\ \/ win' = [win EXCEPT ![w].tag = latest] /\ Go(w, "cache")
       \/ /\ Faulty
          /\ \E shown \in {0, 1} : win' = [win EXCEPT ![w].messages = @ + shown]
          /\ Go(w, "degrade")
    /\ UNCHANGED <<latest, storage, log>>

\* cachedBinary, else PATH, else the download.
LookCached(w) ==
    /\ At(w, "cache")
    /\ IF Installed(win[w].tag)
       THEN Go(w, "list") /\ win' = [win EXCEPT ![w].found = TRUE]
       ELSE /\ Go(w, IF InPath THEN "start" ELSE "prepare")
            /\ UNCHANGED win
    /\ UNCHANGED <<latest, storage, log>>

\* newestCachedBinary reads the directory, then tries the tags downwards.
ListCached(w) ==
    /\ At(w, "degrade")
    /\ win' = [win EXCEPT ![w].tags = dirs]
    /\ Go(w, "try")
    /\ UNCHANGED <<latest, storage, log>>

\* Mutant: a directory without a binary is tried again.
TryCachedAgain(w) ==
    /\ At(w, "try")
    /\ \/ win[w].tags = {} /\ Resolve(w, OnPath)
       \/ \E t \in win[w].tags :
            /\ \A u \in win[w].tags : u <= t
            /\ IF Installed(t) THEN Resolve(w, t) ELSE UNCHANGED <<pc, win>>
    /\ UNCHANGED <<latest, storage, log>>

TryCached(w) ==
    /\ At(w, "try")
    /\ \/ win[w].tags = {} /\ Resolve(w, OnPath)
       \/ \E t \in win[w].tags :
            /\ \A u \in win[w].tags : u <= t
            /\ IF Installed(t)
               THEN Resolve(w, t)
               ELSE win' = [win EXCEPT ![w].tags = @ \ {t}] /\ UNCHANGED pc
    /\ UNCHANGED <<latest, storage, log>>

------------------------------------------------------------------------------
(* pruneServers *)

ListServers(w) ==
    /\ At(w, "list")
    /\ win' = [win EXCEPT ![w].tags = dirs \ {win[w].tag}, ![w].temps = temps]
    /\ Go(w, "prune")
    /\ UNCHANGED <<latest, storage, log>>

\* One entry of the listing is removed.  A removal that fails after a cache hit
\* escapes resolveServer, and activate falls back to the bare command (here only
\* a running binary makes it fail); after a download it is the install's own
\* catch that sees it.
PruneTag(w) ==
    /\ At(w, "prune")
    /\ \E t \in win[w].tags :
         \/ /\ ~ Held(t)
            /\ dirs' = dirs \ {t}
            /\ binary' = [binary EXCEPT ![t] = Missing]
            /\ win' = [win EXCEPT ![w].tags = @ \ {t}]
            /\ UNCHANGED pc
         \/ /\ IF win[w].found
               THEN Held(t) /\ Resolve(w, OnPath)
               ELSE /\ Held(t) \/ Faulty
                    /\ Go(w, "catch")
                    /\ win' = [win EXCEPT ![w].tags = {}, ![w].temps = {}]
            /\ UNCHANGED <<dirs, binary>>
    /\ UNCHANGED <<latest, temps, log>>

PruneTemp(w) ==
    /\ At(w, "prune")
    /\ \E r \in win[w].temps :
         /\ temps' = temps \ {r}
         /\ win' = [win EXCEPT ![w].temps = @ \ {r}]
    /\ UNCHANGED <<latest, dirs, binary, log, pc>>

Pruned(w) ==
    /\ At(w, "prune") /\ win[w].tags = {} /\ win[w].temps = {}
    /\ win' = [win EXCEPT ![w].result = win[w].tag]
    /\ Go(w, IF win[w].found THEN "start" ELSE "cleanup")
    /\ UNCHANGED <<latest, storage, log>>

------------------------------------------------------------------------------
(* installFromRelease *)

HasTemp(w) == win[w].run \in temps

\* A step of the install: done leads on, otherwise the exception is caught.
Attempt(w, from, ok, to) ==
    /\ At(w, from)
    /\ \/ ok /\ Go(w, to)
       \/ (~ ok \/ Faulty) /\ Go(w, "catch")

MakeTemp(w) ==
    /\ Attempt(w, "prepare", TRUE, "download")
    /\ temps' = IF pc'[w] = "download" THEN temps \cup {win[w].run} ELSE temps
    /\ UNCHANGED <<latest, dirs, binary, log, win>>

\* The archive comes whole, damaged, or not at all.
Download(w) ==
    /\ Attempt(w, "download", HasTemp(w), "verify")
    /\ \E file \in {win[w].tag} \cup IF Faulty THEN {Corrupt} ELSE {} :
         win' = [win EXCEPT ![w].file = file]
    /\ UNCHANGED <<latest, storage, log>>

\* SHA256SUMS of the same release against the archive on disk.
Verify(w) ==
    /\ Attempt(w, "verify", HasTemp(w) /\ win[w].file = win[w].tag, "extract")
    /\ UNCHANGED <<latest, storage, log, win>>

Extract(w) ==
    /\ Attempt(w, "extract", HasTemp(w), "stat")
    /\ UNCHANGED <<latest, storage, log, win>>

\* findExtractedBinary, then: is another window's binary there already?
StatDest(w) ==
    /\ Attempt(w, "stat", HasTemp(w), IF Installed(win[w].tag) THEN "chmod" ELSE "clear")
    /\ UNCHANGED <<latest, storage, log, win>>

ClearDest(w) ==
    LET t == win[w].tag IN
    /\ Attempt(w, "clear", ~ Held(t), "mkdir")
    /\ IF pc'[w] = "mkdir"
       THEN dirs' = dirs \ {t} /\ binary' = [binary EXCEPT ![t] = Missing]
       ELSE UNCHANGED <<dirs, binary>>
    /\ UNCHANGED <<latest, temps, log, win>>

MakeDest(w) ==
    /\ Attempt(w, "mkdir", TRUE, "rename")
    /\ dirs' = IF pc'[w] = "rename" THEN dirs \cup {win[w].tag} ELSE dirs
    /\ UNCHANGED <<latest, binary, temps, log, win>>

\* The rename replaces a binary that appeared meanwhile; where that one is
\* running the rename is refused and the race is lost to it.
Rename(w) ==
    LET t == win[w].tag IN
    /\ At(w, "rename")
    /\ \/ /\ HasTemp(w) /\ Held(t) /\ Installed(t)
          /\ Go(w, "chmod") /\ UNCHANGED binary
       \/ /\ HasTemp(w) /\ t \in dirs /\ ~ (Held(t) /\ Installed(t))
          /\ Go(w, "chmod") /\ binary' = [binary EXCEPT ![t] = win[w].file]
       \/ /\ ~ HasTemp(w) \/ t \notin dirs \/ Faulty
          /\ Go(w, "catch") /\ UNCHANGED binary
    /\ UNCHANGED <<latest, dirs, temps, log, win>>

\* chmod, which win32 skips, then the prune.
Chmod(w) ==
    /\ At(w, "chmod")
    /\ \/ /\ Locking \/ Installed(win[w].tag)
          /\ Go(w, "list")
       \/ /\ ~ Locking /\ (~ Installed(win[w].tag) \/ Faulty)
          /\ Go(w, "catch")
    /\ UNCHANGED <<latest, storage, log, win>>

\* Mutant: the caught error does not look whether a binary is there.
CatchBlind(w) ==
    /\ At(w, "catch") /\ Go(w, "cleanup")
    /\ win' = [win EXCEPT ![w].result = win[w].tag]
    /\ UNCHANGED <<latest, storage, log>>

\* A binary of the tag is adopted whoever published it; without one the error
\* goes on to resolveServer, which shows it and degrades.
Catch(w) ==
    /\ At(w, "catch")
    /\ win' = [win EXCEPT ![w] =
                 IF Installed(win[w].tag)
                 THEN [@ EXCEPT !.result = win[w].tag]
                 ELSE [@ EXCEPT !.messages = win[w].messages + 1]]
    /\ Go(w, "cleanup")
    /\ UNCHANGED <<latest, storage, log>>

\* Mutant: a failed download falls through to the bare command.
CleanUpBare(w) ==
    /\ At(w, "cleanup") /\ Go(w, "start")
    /\ temps' = temps \ {win[w].run}
    /\ UNCHANGED <<latest, dirs, binary, log, win>>

\* finally: the temp directory goes, whatever happened.
CleanUp(w) ==
    /\ At(w, "cleanup")
    /\ temps' = temps \ {win[w].run}
    /\ Go(w, IF win[w].result = OnPath THEN "degrade" ELSE "start")
    /\ UNCHANGED <<latest, dirs, binary, log, win>>

------------------------------------------------------------------------------

Install(w) ==
    \/ MakeTemp(w) \/ Download(w) \/ Verify(w) \/ Extract(w) \/ StatDest(w)
    \/ ClearDest(w) \/ MakeDest(w) \/ Rename(w) \/ Chmod(w)
    \/ Catch(w) \/ CleanUp(w)

Prune(w) == ListServers(w) \/ PruneTag(w) \/ PruneTemp(w) \/ Pruned(w)

Advance(w) ==
    \/ CheckLatest(w) \/ LookCached(w) \/ ListCached(w) \/ TryCached(w)
    \/ Prune(w) \/ Install(w) \/ Start(w)

Next ==
    \/ PublishRelease
    \/ \E w \in Windows : Activate(w) \/ Advance(w) \/ Close(w)

Spec == Init /\ [][Next]_vars

\* The event loop of a window runs every continuation it has; the requests it
\* waits for carry timeouts.
FairSpec == Spec /\ \A w \in Windows : WF_vars(Advance(w))

------------------------------------------------------------------------------
(* Properties *)

Installing == {"download", "verify", "extract", "stat", "clear", "mkdir", "rename",
               "chmod", "catch", "cleanup", "list", "prune"}
Steps == Installing \cup {"closed", "check", "cache", "degrade", "try", "prepare",
                          "start", "running", "failed"}

Locals == [run : 0 .. MaxRuns, tag : Tags, file : Builds,
           tags : SUBSET Tags, temps : SUBSET (1 .. MaxRuns),
           found : BOOLEAN, result : 0 .. Newest, messages : 0 .. 2]

TypeOK ==
    /\ latest \in Tags
    /\ dirs \subseteq Tags
    /\ binary \in [Tags -> Builds]
    /\ temps \subseteq 1 .. MaxRuns
    /\ runs \in 0 .. MaxRuns
    /\ crowded \subseteq Windows
    /\ died \subseteq 1 .. MaxRuns
    /\ pc \in [Windows -> Steps]
    /\ win \in [Windows -> Locals]

Alone(w) == w \notin crowded

\* A resolution that names a binary of the storage names one that is there when
\* the client starts (install.ts:403-415, 453-458).
StartFinds ==
    \A w \in Windows : At(w, "start") /\ win[w].result # OnPath => Installed(win[w].result)

\* So it is when no other window resolved at the same time, whatever former
\* windows left behind when they failed or died.
AloneStartFinds ==
    \A w \in Windows :
      At(w, "start") /\ Alone(w) /\ win[w].result # OnPath => Installed(win[w].result)

\* A failed check or download never costs the server that was cached: without a
\* command on PATH a warm cache is what the window starts
\* (resolveServer, install.ts:466-479; newestCachedBinary, 185-199).
WarmSurvives ==
    \A w \in Windows :
      At(w, "start") /\ Alone(w) /\ (\E t \in Tags : Installed(t))
        => win[w].result # OnPath

\* Every activation comes to a started or a failed client, whatever the network
\* and the other windows do (activate, extension.ts:58-118).
ActivationEnds ==
    \A w \in Windows :
      At(w, "check") ~> pc[w] \in {"running", "failed", "closed"}
==============================================================================
