----------------------------- MODULE NewsMonitor -----------------------------
(***************************************************************************)
(* The release-notes monitor: news.Check scanning a paged feed down to an  *)
(* anchor, and the kb-monitor workflow that turns a result into one issue, *)
(* saves the new anchor and pushes it.                                     *)
(*                                                                         *)
(* A post is its number in order of publication, with a publication time;  *)
(* the feed shows posts newest first, PageSize to a page, and the site     *)
(* goes on publishing while a scan reads it page by page.                  *)
(***************************************************************************)
EXTENDS Integers, Sequences, FiniteSets

CONSTANTS PageSize,
          MaxFeedPages,  \* maxFeedPages
          Patches,       \* the numbers of the posts whose title is a patch's
          MaxPosts,      \* bound: posts published
          MaxFailures    \* bound: jobs that fail

ASSUME SizesAssumption ==
    PageSize \in Nat \ {0} /\ MaxFeedPages \in Nat \ {0} /\
    MaxPosts \in Nat /\ MaxFailures \in Nat

VARIABLES time,    \* [1 .. n -> Nat]: when each post was published
          anchor,  \* the committed state file: the time of the last post seen
          issues,  \* the batches of posts reported, one set per issue
          failures, \* jobs that failed
          pc,      \* the job's step
          job,     \* what the job has read
          overlooked \* history: posts the anchor passed though the scan had not
                     \* accepted them, the feed having grown under it

vars == <<time, anchor, issues, failures, pc, job, overlooked>>

Posts == 1 .. Len(time)
Newest(S) == CHOOSE p \in S : \A q \in S : q <= p

\* The changelog's top section dates the cold start before the first post.
Seed == 0

\* What a job knows: the anchor it read, the page to fetch, the posts it saw,
\* those it accepted and the first of them (0 before it). "grown" is history: a
\* post was published between two of its pages.
NoJob == [anchor |-> Seed, page |-> 1, seen |-> {}, posts |-> {}, first |-> 0,
          grown |-> FALSE]

Init ==
    /\ time = <<>>
    /\ anchor = Seed
    /\ issues = <<>>
    /\ failures = 0
    /\ pc = "idle"
    /\ job = NoJob
    /\ overlooked = {}

\* The site publishes a post, not before the last one, whatever a job does: it
\* pushes the posts of each page towards the next one.
Publish ==
    /\ Len(time) < MaxPosts
    /\ LET last == IF time = <<>> THEN Seed ELSE time[Len(time)]
       IN  \E at \in {last, last + 1} :
             /\ time = <<>> => at = last + 1
             /\ time' = Append(time, at)
    /\ job' = [job EXCEPT !.grown = @ \/ (pc = "scan" /\ job.page > 1)]
    /\ UNCHANGED <<anchor, issues, failures, pc, overlooked>>

\* The cron or a dispatch starts the job; the concurrency group admits one.
\* anchor(): the state file of the checkout, or the seed.
StartJob ==
    /\ pc = "idle"
    /\ job' = [NoJob EXCEPT !.anchor = anchor]
    /\ pc' = "scan"
    /\ UNCHANGED <<time, anchor, issues, failures, overlooked>>

\* Page n of the feed as it is now, the newest post first; beyond the last page
\* the site answers an empty page or redirects to the first.
Page(n) ==
    LET newest == Len(time) - (n - 1) * PageSize
    IN  {p \in Posts : newest - PageSize < p /\ p <= newest}
Answers(n) == IF Page(n) = {} THEN {{}, Page(1)} ELSE {Page(n)}

\* The items the loop looks at: those not seen before.
Fresh(items) == items \ job.seen
\* Mutant: the anchor's own post is taken again.
ReachedLate(items) == {p \in Fresh(items) : time[p] < job.anchor}

Reached(items) == {p \in Fresh(items) : time[p] <= job.anchor}
Taken(items) == {p \in Fresh(items) : \A r \in Reached(items) : r < p}

AtCap == job.page = MaxFeedPages

\* The posts accepted after the loop took from a page.
Accept(taken) ==
    [job EXCEPT !.posts = @ \cup taken,
                !.first = IF job.posts = {} /\ taken # {} THEN Newest(taken) ELSE @]

Conclude(taken) ==
    /\ job' = Accept(taken)
    /\ pc' = "issue"

\* One page of scanFeed and what Check makes of its stop: an empty page or one
\* that begins with a seen post ends the feed; a post not newer than the anchor
\* ends the search; the page cap without either is an error.
ScanPage ==
    /\ pc = "scan"
    /\ \E items \in Answers(job.page) :
         IF items = {} \/ Newest(items) \in job.seen
         THEN Conclude({})
         ELSE IF Reached(items) # {}
         THEN Conclude(Taken(items))
         ELSE IF AtCap
         THEN pc' = "idle" /\ UNCHANGED job
         ELSE /\ job' = [Accept(Taken(items)) EXCEPT !.page = job.page + 1,
                                                     !.seen = job.seen \cup items]
              /\ UNCHANGED pc
    /\ UNCHANGED <<time, anchor, issues, failures, overlooked>>

\* Mutant: a post a moment after the anchor counts as seen.
NewPostsLate == {p \in job.posts : p \in Patches /\ time[p] > job.anchor + 1}

NewPosts == {p \in job.posts : p \in Patches /\ time[p] > job.anchor}
LastSeen == IF job.posts = {} THEN job.anchor ELSE time[job.first]

\* The posts the anchor passes when the job saves it, without an issue.
Behind == {p \in Posts \ job.posts : job.anchor < time[p] /\ time[p] <= LastSeen}

\* One issue for the batch, none for an empty one.
CreateIssue ==
    /\ pc = "issue"
    /\ issues' = IF NewPosts = {} THEN issues ELSE Append(issues, NewPosts)
    /\ pc' = "save"
    /\ UNCHANGED <<time, anchor, failures, job, overlooked>>

\* Save the anchor state, commit and push; the job is over.
CommitState ==
    /\ pc = "save"
    /\ anchor' = LastSeen
    /\ overlooked' = IF job.grown THEN overlooked \cup Behind ELSE overlooked
    /\ pc' = "idle"
    /\ UNCHANGED <<time, issues, failures, job>>

\* A page that cannot be fetched or parsed, an issue that cannot be created, a
\* push that fails twice, a timeout: the run is red and leaves what it did.
Fail ==
    /\ failures < MaxFailures
    /\ failures' = failures + 1
    /\ pc # "idle"
    /\ pc' = "idle"
    /\ UNCHANGED <<time, anchor, issues, job, overlooked>>

Step == ScanPage \/ CreateIssue \/ CommitState

Next == Publish \/ StartJob \/ Step \/ Fail

Spec == Init /\ [][Next]_vars

\* The cron keeps starting jobs, and a job that does not fail ends.
FairSpec == Spec /\ WF_vars(StartJob) /\ WF_vars(Step)

------------------------------------------------------------------------------
(* Properties *)

TypeOK ==
    /\ time \in Seq(0 .. MaxPosts)
    /\ anchor \in 0 .. MaxPosts
    /\ issues \in Seq(SUBSET Posts)
    /\ failures \in 0 .. MaxFailures
    /\ pc \in {"idle", "scan", "issue", "save"}
    /\ job \in [anchor : 0 .. MaxPosts, page : 1 .. MaxFeedPages,
                seen : SUBSET Posts, posts : SUBSET Posts, first : {0} \cup Posts,
                grown : BOOLEAN]
    /\ overlooked \in SUBSET Posts

Reported(p) == \E i \in 1 .. Len(issues) : p \in issues[i]

\* Not the first post of its date.
Later(p) == p \in Posts /\ \E q \in Posts : q < p /\ time[q] = time[p]

\* What the code gives up: the posts below a page that moved under the scan, and
\* a post with the date of one the anchor may stand at already.
GivenUp(p) == p \in overlooked \/ Later(p)

\* No patch is silently skipped: once the anchor has passed a patch post, an
\* issue lists it, whichever jobs failed and wherever, and whatever was published
\* meanwhile (scanFeed and Check, check.go:112-226; the step order of
\* kb-monitor.yml:41-89), but for what is given up (check.go:204, 215).
NothingSkipped ==
    \A p \in Posts \cap Patches : time[p] <= anchor => Reported(p) \/ GivenUp(p)

\* A scan that ends without an error has accepted exactly the posts newer than
\* the anchor, whatever the page boundaries, the dates and the end of the feed,
\* if no post appeared between two of its pages (scanFeed, check.go:189-226).
ScanExact ==
    [][pc = "scan" /\ pc' = "issue" /\ ~job.grown
         => job'.posts = {p \in Posts : time[p] > job.anchor}]_vars

\* Every page up to the cap holds new posts only: each job ends at the cap, and
\* only a person can move the anchor on.
PastCap ==
    \A n \in 1 .. MaxFeedPages :
        /\ Page(n) # {}
        /\ \A p \in Page(n) : time[p] > anchor

\* Every patch that is not given up is reported in the end, when the jobs fail
\* finitely often and the posts between two good ones fit the page cap (Check,
\* check.go:148-155).
EventuallyReported ==
    \A p \in Patches : (p \in Posts) ~> (Reported(p) \/ GivenUp(p) \/ PastCap)
==============================================================================
