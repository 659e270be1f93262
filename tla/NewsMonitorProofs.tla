-------------------------- MODULE NewsMonitorProofs --------------------------
(***************************************************************************)
(* The release-notes monitor, for every page size, page cap, feed and      *)
(* number of failures.  Both promises rest on what the loop over the pages *)
(* knows between two of them: the posts seen are the newest ones, they are *)
(* exactly those accepted, and all are newer than the anchor (Scanned),    *)
(* unless the feed grew between two pages.                                 *)
(***************************************************************************)
EXTENDS NewsMonitor, FiniteSetTheorems, SequenceTheorems, TLAPS

\* A set of posts has a newest one.
LEMMA NewestExists ==
    ASSUME NEW n \in Nat, NEW T \in SUBSET (1 .. n), T # {}
    PROVE  Newest(T) \in T /\ \A q \in T : q <= Newest(T)
<1> DEFINE F == {x .. n : x \in T}
<1>1. F \subseteq FiniteSubsetsOf(1 .. n) /\ F # {}
  <2>1. IsFiniteSet(1 .. n)
    BY FS_Interval
  <2>2. ASSUME NEW x \in T PROVE x .. n \in SUBSET (1 .. n) /\ IsFiniteSet(x .. n)
    BY <2>1, FS_Interval
  <2> QED BY <2>2 DEF FiniteSubsetsOf
<1>2. PICK f \in F : \A g \in F : ~(<<g, f>> \in StrictSubsetOrdering(1 .. n))
  BY <1>1, FS_StrictSubsetOrderingWellFounded, WFMin
<1>3. PICK x \in T : f = x .. n
  BY <1>2
<1>4. ASSUME NEW y \in T PROVE y <= x
  <2>1. SUFFICES ASSUME x < y PROVE FALSE
    OBVIOUS
  <2>2. y .. n \subseteq x .. n /\ y .. n # x .. n
    BY <2>1
  <2>3. <<y .. n, f>> \in StrictSubsetOrdering(1 .. n)
    BY <1>3, <2>2 DEF StrictSubsetOrdering
  <2> QED BY <1>2, <2>3
<1> HIDE DEF F
<1> QED BY <1>4 DEF Newest

------------------------------------------------------------------------------

Jobs == [anchor : 0 .. MaxPosts, page : 1 .. MaxFeedPages,
         seen : SUBSET Posts, posts : SUBSET Posts, first : {0} \cup Posts,
         grown : BOOLEAN]

\* The site never dates a post before an earlier one; the first accepted post
\* is one of them.
Ordered == \A p, q \in Posts : p < q => time[p] <= time[q]
Bounded == Len(time) <= MaxPosts /\ \A p \in Posts : time[p] <= p
FirstKept == job.posts # {} => job.first \in job.posts

Typed == TypeOK /\ Ordered /\ Bounded /\ FirstKept

LEMMA AcceptTyped ==
    ASSUME Typed, NEW taken \in SUBSET Posts
    PROVE  /\ Accept(taken) \in Jobs
           /\ Accept(taken).anchor = job.anchor
           /\ Accept(taken).page = job.page
           /\ Accept(taken).seen = job.seen
           /\ Accept(taken).grown = job.grown
           /\ Accept(taken).posts = job.posts \cup taken
           /\ Accept(taken).posts # {} => Accept(taken).first \in Accept(taken).posts
<1>1. Len(time) \in Nat
  BY DEF Typed, TypeOK
<1>2. taken # {} => Newest(taken) \in taken
  BY <1>1, NewestExists DEF Posts
<1> QED BY <1>2 DEF Typed, TypeOK, FirstKept, Accept, Jobs

LEMMA AnswersArePosts ==
    ASSUME NEW n, NEW items \in Answers(n) PROVE items \in SUBSET Posts
BY DEF Answers, Page

LEMMA PublishTyped ==
    ASSUME Typed, Publish
    PROVE  /\ Typed'
           /\ Len(time') = Len(time) + 1
           /\ \A p \in Posts : time'[p] = time[p]
           /\ \A p \in Posts : time[p] <= time'[Len(time')]
           /\ (\A p \in Posts : Seed < time[p]) => Seed < time'[Len(time')]
<1>1. /\ time \in Seq(0 .. MaxPosts) /\ Len(time) \in Nat
      /\ time # <<>> => Len(time) \in Posts
      /\ \A p \in Posts : time[p] \in Nat
  BY SizesAssumption DEF Typed, TypeOK, Posts
<1> DEFINE last == IF time = <<>> THEN Seed ELSE time[Len(time)]
<1>2. PICK at \in {last, last + 1} :
        /\ time = <<>> => at = last + 1
        /\ time' = Append(time, at)
  BY DEF Publish
<1>3. last \in Nat /\ last <= Len(time) /\ \A p \in Posts : time[p] <= last
  <2>1. CASE time = <<>>
    BY <2>1 DEF Posts, Seed
  <2>2. CASE time # <<>>
    BY <1>1, <2>2 DEF Typed, Bounded, Ordered, Posts
  <2> QED BY <2>1, <2>2
<1>4. at \in 0 .. MaxPosts /\ last <= at /\ at <= Len(time) + 1
  BY <1>2, <1>3, SizesAssumption DEF Publish
<1>5. /\ time' \in Seq(0 .. MaxPosts) /\ Len(time') = Len(time) + 1
      /\ \A p \in Posts : time'[p] = time[p]
      /\ time'[Len(time) + 1] = at
  BY <1>1, <1>2, <1>4 DEF Posts
<1>6. Posts' = Posts \cup {Len(time) + 1}
  BY <1>1, <1>5 DEF Posts
<1>7. TypeOK' /\ FirstKept'
  <2>1. /\ job \in Jobs /\ pc \in {"idle", "scan", "issue", "save"}
        /\ UNCHANGED <<anchor, issues, failures, pc, overlooked>>
        /\ job' = [job EXCEPT !.grown = @ \/ (pc = "scan" /\ job.page > 1)]
    BY DEF Typed, TypeOK, Jobs, Publish
  <2>2. /\ \A f \in {"anchor", "page", "seen", "posts", "first"} : job'[f] = job[f]
        /\ job' \in Jobs
    BY <2>1 DEF Jobs
  <2>3. job' \in Jobs' /\ FirstKept'
    BY <1>6, <2>2 DEF Jobs, FirstKept, Typed
  <2>4. issues' \in Seq(SUBSET Posts') /\ overlooked' \in SUBSET Posts'
    BY <1>6, <2>1 DEF Typed, TypeOK
  <2>5. anchor' \in 0 .. MaxPosts /\ failures' \in 0 .. MaxFailures
    BY <2>1 DEF Typed, TypeOK
  <2> QED BY <1>5, <2>1, <2>3, <2>4, <2>5 DEF TypeOK, Jobs
<1>8. Ordered' /\ Bounded'
  <2>1. ASSUME NEW p \in Posts', NEW q \in Posts', p < q PROVE time'[p] <= time'[q]
    <3>1. CASE q \in Posts
      BY <1>1, <1>5, <1>6, <2>1, <3>1 DEF Typed, Ordered, Posts
    <3>2. CASE q = Len(time) + 1
      BY <1>1, <1>3, <1>4, <1>5, <1>6, <2>1, <3>2 DEF Posts
    <3> QED BY <1>6, <3>1, <3>2
  <2>2. ASSUME NEW p \in Posts' PROVE time'[p] <= p
    BY <1>1, <1>4, <1>5, <1>6 DEF Typed, Bounded, Posts
  <2>3. Len(time') <= MaxPosts
    BY <1>1, <1>5, SizesAssumption DEF Publish
  <2> QED BY <2>1, <2>2, <2>3 DEF Ordered, Bounded
<1>9. /\ \A p \in Posts : time[p] <= time'[Len(time')]
      /\ (\A p \in Posts : Seed < time[p]) => Seed < time'[Len(time')]
  <2>1. \A p \in Posts : time[p] <= time'[Len(time')]
    BY <1>1, <1>3, <1>4, <1>5
  <2>2. CASE time = <<>>
    BY <1>2, <1>5, <2>1, <2>2 DEF Seed
  <2>3. CASE time # <<>>
    BY <1>1, <1>3, <1>4, <1>5, <2>1, <2>3 DEF Seed
  <2> QED BY <2>1, <2>2, <2>3
<1> QED BY <1>5, <1>7, <1>8, <1>9 DEF Typed

LEMMA InitTyped == Init => Typed
BY SizesAssumption
   DEF Init, Typed, TypeOK, Ordered, Bounded, FirstKept, NoJob, Posts, Seed

LEMMA StepTyped == Typed /\ [Next]_vars => Typed'
<1> SUFFICES ASSUME Typed, [Next]_vars PROVE Typed'
  OBVIOUS
<1>1. CASE Publish
  BY <1>1, PublishTyped
<1>2. ASSUME job' \in Jobs, job'.posts # {} => job'.first \in job'.posts,
             UNCHANGED <<time, anchor, issues, failures, overlooked>>, pc' \in {"idle", "scan", "issue", "save"}
      PROVE  Typed'
  BY <1>2 DEF Typed, TypeOK, Ordered, Bounded, FirstKept, Jobs, Posts
<1>3. CASE StartJob
  <2>1. job' = [anchor |-> anchor, page |-> 1, seen |-> {}, posts |-> {}, first |-> 0,
                 grown |-> FALSE]
    BY <1>3 DEF StartJob, NoJob
  <2>2. anchor \in 0 .. MaxPosts /\ 1 \in 1 .. MaxFeedPages
    BY SizesAssumption DEF Typed, TypeOK
  <2>3. job' \in Jobs /\ job'.posts = {}
    BY <2>1, <2>2 DEF Jobs
  <2> QED BY <1>2, <1>3, <2>3 DEF StartJob
<1>4. CASE ScanPage
  <2>1. PICK items \in Answers(job.page) :
          IF items = {} \/ Newest(items) \in job.seen
          THEN Conclude({})
          ELSE IF Reached(items) # {}
          THEN Conclude(Taken(items))
          ELSE IF AtCap
          THEN pc' = "idle" /\ UNCHANGED job
          ELSE /\ job' = [Accept(Taken(items)) EXCEPT !.page = job.page + 1,
                                                      !.seen = job.seen \cup items]
               /\ UNCHANGED pc
    BY <1>4 DEF ScanPage
  <2>2. items \in SUBSET Posts /\ Taken(items) \in SUBSET Posts
    BY AnswersArePosts DEF Taken, Fresh
  <2>3. CASE Conclude({}) \/ Conclude(Taken(items))
    BY <1>2, <1>4, <2>2, <2>3, AcceptTyped DEF Conclude, ScanPage
  <2>4. CASE pc' = "idle" /\ UNCHANGED job
    BY <1>2, <1>4, <2>4 DEF ScanPage, Typed, TypeOK, FirstKept, Jobs
  <2>5. CASE /\ ~AtCap /\ UNCHANGED pc
             /\ job' = [Accept(Taken(items)) EXCEPT !.page = job.page + 1,
                                                    !.seen = job.seen \cup items]
    <3>1. job.page \in 1 .. MaxFeedPages /\ job.seen \in SUBSET Posts
      BY DEF Typed, TypeOK
    <3>2. job.page + 1 \in 1 .. MaxFeedPages
      BY <2>5, <3>1, SizesAssumption DEF AtCap
    <3>3. PICK j \in Jobs :
            /\ j.posts # {} => j.first \in j.posts
            /\ job' = [j EXCEPT !.page = job.page + 1, !.seen = job.seen \cup items]
      BY <2>2, <2>5, AcceptTyped
    <3>4. job' \in Jobs /\ (job'.posts # {} => job'.first \in job'.posts)
      BY <2>2, <3>1, <3>2, <3>3 DEF Jobs
    <3> QED BY <1>2, <1>4, <2>5, <3>4 DEF ScanPage
  <2> QED BY <2>1, <2>3, <2>4, <2>5
<1>5. CASE CreateIssue
  <2>1. issues' \in Seq(SUBSET Posts)
    BY <1>5 DEF CreateIssue, NewPosts, Typed, TypeOK
  <2> QED BY <1>5, <2>1 DEF CreateIssue, Typed, TypeOK, Ordered, Bounded, FirstKept, Posts
<1>6. CASE CommitState
  <2>1. LastSeen \in 0 .. MaxPosts
    <3>1. /\ job.anchor \in 0 .. MaxPosts /\ time \in Seq(0 .. MaxPosts)
          /\ job.posts # {} => job.first \in 1 .. Len(time)
      BY DEF Typed, TypeOK, FirstKept, Posts
    <3>2. \A p \in 1 .. Len(time) : time[p] \in 0 .. MaxPosts
      BY SizesAssumption DEF Typed, TypeOK
    <3> QED BY <3>1, <3>2 DEF LastSeen
  <2>2. overlooked' \in SUBSET Posts
    BY <1>6 DEF CommitState, Behind, Typed, TypeOK
  <2> QED BY <1>6, <2>1, <2>2 DEF CommitState, Typed, TypeOK, Ordered, Bounded, FirstKept, Posts
<1>7. CASE Fail
  BY <1>7, SizesAssumption DEF Fail, Typed, TypeOK, Ordered, Bounded, FirstKept, Posts
<1>8. CASE UNCHANGED vars
  BY <1>8 DEF vars, Typed, TypeOK, Ordered, Bounded, FirstKept, Posts
<1> QED BY <1>1, <1>3, <1>4, <1>5, <1>6, <1>7, <1>8 DEF Next, Step

LEMMA TypedHolds == Spec => []Typed
BY InitTyped, StepTyped, PTL DEF Spec

\* The feed, the anchor and the job keep their types (check.go:112-226).
THEOREM TypeCorrect == Spec => []TypeOK
<1>1. Typed => TypeOK
  BY DEF Typed
<1> QED BY <1>1, TypedHolds, PTL

------------------------------------------------------------------------------

\* The newest post of page n, when it is not empty.
Down(n) == Len(time) - (n - 1) * PageSize

LEMMA DownNext ==
    ASSUME NEW n \in Nat \ {0}, Len(time) \in Nat
    PROVE  /\ Down(n) \in Int /\ Down(n) <= Len(time)
           /\ Down(n + 1) = Down(n) - PageSize
           /\ Page(n) = {p \in Posts : Down(n) - PageSize < p /\ p <= Down(n)}
<1>1. (n + 1) - 1 = (n - 1) + 1 /\ n - 1 \in Nat /\ PageSize \in Nat
  BY SizesAssumption
<1>2. (n - 1) * PageSize \in Nat /\ ((n - 1) + 1) * PageSize = (n - 1) * PageSize + PageSize
  BY <1>1
<1> QED BY <1>1, <1>2 DEF Down, Page

\* Between two pages, if the feed did not grow: the posts seen are the newest
\* ones, down to the page to fetch, they are exactly those accepted, and the
\* anchor is older.
Scanned ==
    pc = "scan" /\ ~job.grown =>
      /\ job.seen = {p \in Posts : Down(job.page) < p}
      /\ job.posts = job.seen
      /\ \A p \in job.seen : time[p] > job.anchor

Accepted == {p \in Posts : time[p] > job.anchor}

\* The posts still to come begin with the next page, which is empty only when
\* there are none.
LEMMA NextPage ==
    ASSUME Typed, Scanned, pc = "scan", ~job.grown
    PROVE  LET rest == Posts \ job.seen
               page == Page(job.page)
           IN  /\ page \subseteq rest
               /\ \A p \in page, q \in rest \ page : q < p
               /\ page = {} => rest = {}
               /\ rest \ page = {p \in Posts : p <= Down(job.page + 1)}
<1> DEFINE newest == Down(job.page)
<1>1. job.page \in Nat \ {0} /\ PageSize \in Nat \ {0} /\ Len(time) \in Nat
  BY SizesAssumption DEF Typed, TypeOK
<1>2. /\ newest \in Int /\ newest <= Len(time) /\ Down(job.page + 1) = newest - PageSize
      /\ Page(job.page) = {p \in Posts : newest - PageSize < p /\ p <= newest}
  BY <1>1, DownNext
<1>3. job.seen = {p \in Posts : newest < p}
  BY DEF Scanned
<1> HIDE DEF newest
<1>4. Page(job.page) = {} => newest < 1
  <2>1. newest \in Posts => newest \in Page(job.page)
    BY <1>1, <1>2
  <2> QED BY <1>1, <1>2, <2>1 DEF Posts
<1>5. /\ Page(job.page) \subseteq Posts \ job.seen
      /\ \A p \in Page(job.page), q \in (Posts \ job.seen) \ Page(job.page) : q < p
      /\ Page(job.page) = {} => Posts \ job.seen = {}
  BY <1>1, <1>2, <1>3, <1>4 DEF Posts
<1>6. (Posts \ job.seen) \ Page(job.page) = {p \in Posts : p <= newest - PageSize}
  BY <1>1, <1>2, <1>3 DEF Posts
<1> QED BY <1>2, <1>5, <1>6

\* The feed ends where every post was seen: an empty page, or the first page
\* again in place of one out of range.
LEMMA EndOfFeed ==
    ASSUME Typed, Scanned, pc = "scan", ~job.grown, NEW items \in Answers(job.page),
           items = {} \/ Newest(items) \in job.seen
    PROVE  job.posts = Accepted
<1>1. Len(time) \in Nat
  BY DEF Typed, TypeOK
<1>2. Page(job.page) # {} => Newest(items) \in Posts \ job.seen
  <2>1. Page(job.page) # {} => items = Page(job.page)
    BY DEF Answers
  <2> QED BY <1>1, <2>1, NextPage, NewestExists DEF Page, Posts
<1>3. Page(job.page) # {} => items # {}
  BY DEF Answers
<1>4. Posts \ job.seen = {}
  BY <1>2, <1>3, NextPage
<1> QED BY <1>4 DEF Scanned, Accepted

\* A page with unseen posts is the page asked for.
LEMMA PageAnswered ==
    ASSUME Typed, Scanned, pc = "scan", ~job.grown, NEW items \in Answers(job.page),
           ~(items = {} \/ Newest(items) \in job.seen)
    PROVE  items = Page(job.page) /\ Fresh(items) = items
<1>1. Len(time) \in Nat /\ items \in SUBSET Posts
  BY AnswersArePosts DEF Typed, TypeOK
<1>2. Newest(items) \in Posts \ job.seen
  BY <1>1, NewestExists DEF Posts
<1>3. items = Page(job.page)
  BY <1>2, NextPage DEF Answers
<1> QED BY <1>3, NextPage DEF Fresh

\* A post not newer than the anchor ends the search in the right place.
LEMMA AnchorFound ==
    ASSUME Typed, Scanned, pc = "scan", ~job.grown, NEW items \in Answers(job.page),
           ~(items = {} \/ Newest(items) \in job.seen), Reached(items) # {}
    PROVE  job.posts \cup Taken(items) = Accepted
<1>1. items = Page(job.page) /\ Fresh(items) = items /\ items \subseteq Posts \ job.seen
  BY PageAnswered, NextPage
<1>2. /\ Posts \subseteq Nat /\ job.anchor \in Nat
      /\ \A p \in Posts : time[p] \in Nat
  BY SizesAssumption DEF Typed, TypeOK, Posts
<1>3. PICK r \in Reached(items) : TRUE
  OBVIOUS
<1>4. r \in items /\ time[r] <= job.anchor
  BY <1>1, <1>3 DEF Reached
<1>5. ASSUME NEW p \in Taken(items) PROVE p \in Accepted
  <2>1. p \in Posts /\ p \in items /\ (p \in Reached(items) => p < p)
    BY <1>1, <1>5 DEF Taken
  <2>2. p \notin Reached(items)
    BY <1>2, <2>1
  <2> QED BY <1>1, <1>2, <2>1, <2>2 DEF Reached, Accepted
<1>6. ASSUME NEW p \in Accepted, p \notin job.seen PROVE p \in Taken(items)
  <2>1. \A q \in Posts : time[q] <= job.anchor => q < p
    BY <1>2, <1>6 DEF Accepted, Typed, Ordered
  <2>2. p \in items
    BY <1>1, <1>2, <1>4, <1>6, <2>1, NextPage DEF Accepted
  <2> QED BY <1>1, <2>1, <2>2 DEF Taken, Reached
<1> QED BY <1>5, <1>6 DEF Scanned, Accepted

\* A page of new posts is taken whole.
LEMMA PageTaken ==
    ASSUME Typed, Scanned, pc = "scan", ~job.grown, NEW items \in Answers(job.page),
           ~(items = {} \/ Newest(items) \in job.seen), Reached(items) = {}
    PROVE  /\ Taken(items) = items /\ \A p \in items : time[p] > job.anchor
           /\ job.seen \cup items
                = {p \in Posts : Down(job.page + 1) < p}
<1>1. items = Page(job.page) /\ Fresh(items) = items /\ items \subseteq Posts \ job.seen
  BY PageAnswered, NextPage
<1>2. /\ job.anchor \in Nat /\ \A p \in Posts : time[p] \in Nat
  BY SizesAssumption DEF Typed, TypeOK, Posts
<1>3. Taken(items) = items /\ \A p \in items : time[p] > job.anchor
  BY <1>1, <1>2 DEF Taken, Reached
<1>4. /\ job.seen = {p \in Posts : Down(job.page) < p} /\ Posts \subseteq Int
      /\ Down(job.page) \in Int /\ Down(job.page + 1) \in Int
      /\ PageSize \in Nat /\ Down(job.page + 1) = Down(job.page) - PageSize
  <2>1. job.page \in Nat \ {0} /\ Len(time) \in Nat /\ PageSize \in Nat
    BY SizesAssumption DEF Typed, TypeOK
  <2>2. Down(job.page) \in Int /\ Down(job.page + 1) = Down(job.page) - PageSize
    BY <2>1, DownNext
  <2> QED BY <2>1, <2>2 DEF Scanned, Posts
<1>5. (Posts \ job.seen) \ items = {p \in Posts : p <= Down(job.page + 1)}
  BY <1>1, NextPage
<1>6. ASSUME NEW p \in Posts PROVE p \in job.seen \cup items <=> Down(job.page + 1) < p
  BY <1>4, <1>5
<1>7. job.seen \cup items \subseteq Posts
  BY <1>1, <1>4
<1> QED BY <1>3, <1>6, <1>7

------------------------------------------------------------------------------

\* What one page does to the job, whatever the site does.
LEMMA ScanMoves ==
    ASSUME Typed, ScanPage
    PROVE  /\ pc = "scan" /\ pc' \in {"idle", "scan", "issue"}
           /\ job'.anchor = job.anchor /\ job'.grown = job.grown
<1>1. PICK items \in Answers(job.page) :
        IF items = {} \/ Newest(items) \in job.seen
        THEN Conclude({})
        ELSE IF Reached(items) # {}
        THEN Conclude(Taken(items))
        ELSE IF AtCap
        THEN pc' = "idle" /\ UNCHANGED job
        ELSE /\ job' = [Accept(Taken(items)) EXCEPT !.page = job.page + 1,
                                                    !.seen = job.seen \cup items]
             /\ UNCHANGED pc
  BY DEF ScanPage
<1>2. pc = "scan" /\ Taken(items) \in SUBSET Posts
  BY AnswersArePosts DEF ScanPage, Taken, Fresh
<1>3. CASE Conclude({}) \/ Conclude(Taken(items)) \/ (pc' = "idle" /\ UNCHANGED job)
  BY <1>2, <1>3, AcceptTyped DEF Conclude
<1>4. CASE /\ UNCHANGED pc
           /\ job' = [Accept(Taken(items)) EXCEPT !.page = job.page + 1,
                                                  !.seen = job.seen \cup items]
  BY <1>2, <1>4, AcceptTyped DEF Jobs
<1> QED BY <1>1, <1>3, <1>4

\* And if the feed did not grow.
LEMMA ScanStep ==
    ASSUME Typed, Scanned, ScanPage, ~job.grown
    PROVE  Scanned' /\ (pc' = "issue" => job'.posts = Accepted)
<1>1. PICK items \in Answers(job.page) :
        IF items = {} \/ Newest(items) \in job.seen
        THEN Conclude({})
        ELSE IF Reached(items) # {}
        THEN Conclude(Taken(items))
        ELSE IF AtCap
        THEN pc' = "idle" /\ UNCHANGED job
        ELSE /\ job' = [Accept(Taken(items)) EXCEPT !.page = job.page + 1,
                                                    !.seen = job.seen \cup items]
             /\ UNCHANGED pc
  BY DEF ScanPage
<1>2. pc = "scan" /\ items \in SUBSET Posts /\ Taken(items) \in SUBSET Posts
  BY AnswersArePosts DEF ScanPage, Taken, Fresh
<1>3. CASE items = {} \/ Newest(items) \in job.seen
  <2>1. job.posts \cup {} = Accepted
    BY <1>2, <1>3, EndOfFeed
  <2> QED BY <1>1, <1>3, <2>1, AcceptTyped DEF Conclude, Scanned
<1>4. CASE ~(items = {} \/ Newest(items) \in job.seen) /\ Reached(items) # {}
  <2>1. job.posts \cup Taken(items) = Accepted
    BY <1>2, <1>4, AnchorFound
  <2> QED BY <1>1, <1>2, <1>4, <2>1, AcceptTyped DEF Conclude, Scanned
<1>5. CASE ~(items = {} \/ Newest(items) \in job.seen) /\ Reached(items) = {}
  <2>1. CASE AtCap
    BY <1>1, <1>5, <2>1 DEF Scanned
  <2>2. CASE ~AtCap
    <3>1. /\ Accept(Taken(items)) \in Jobs
          /\ Accept(Taken(items)).posts = job.seen \cup items
          /\ Accept(Taken(items)).anchor = job.anchor
          /\ \A p \in items : time[p] > job.anchor
      BY <1>2, <1>5, AcceptTyped, PageTaken DEF Scanned
    <3>2. /\ job'.page = job.page + 1 /\ job'.seen = job.seen \cup items
          /\ job'.posts = job.seen \cup items /\ job'.anchor = job.anchor
          /\ pc' = "scan" /\ time' = time
      BY <1>1, <1>2, <1>5, <2>2, <3>1 DEF Jobs, ScanPage
    <3>3. job'.seen = {p \in Posts : Down(job.page + 1) < p}
      BY <1>2, <1>5, <3>2, PageTaken
    <3> QED BY <1>2, <3>1, <3>2, <3>3 DEF Scanned, Down, Posts
  <2> QED BY <2>1, <2>2
<1> QED BY <1>3, <1>4, <1>5

\* A post published between two pages is what makes the scan inexact.
LEMMA StepScanned == Typed /\ Scanned /\ [Next]_vars => Scanned'
<1> SUFFICES ASSUME Typed, Scanned, [Next]_vars PROVE Scanned'
  OBVIOUS
<1>0. Len(time) \in Nat /\ PageSize \in Nat /\ Down(1) = Len(time)
  <2>1. Len(time) \in Nat /\ PageSize \in Nat /\ 1 - 1 = 0
    BY SizesAssumption DEF Typed, TypeOK
  <2>2. (1 - 1) * PageSize = 0
    BY <2>1
  <2> QED BY <2>1, <2>2 DEF Down
<1>1. CASE ScanPage
  <2>1. CASE job.grown
    BY <1>1, <2>1, ScanMoves DEF Scanned
  <2>2. CASE ~job.grown
    BY <1>1, <2>2, ScanStep
  <2> QED BY <2>1, <2>2
<1>2. CASE StartJob
  <2>1. job' = [anchor |-> anchor, page |-> 1, seen |-> {}, posts |-> {}, first |-> 0,
                grown |-> FALSE] /\ time' = time
    BY <1>2 DEF StartJob, NoJob
  <2>2. job'.page = 1 /\ Down(1)' = Down(1) /\ Posts' = Posts
    BY <2>1 DEF Down, Posts
  <2>3. {p \in Posts' : Down(1)' < p} = {}
    BY <1>0, <2>2 DEF Posts
  <2> QED BY <2>1, <2>2, <2>3 DEF Scanned, Down, Posts
<1>3. CASE Publish
  <2> SUFFICES ASSUME pc' = "scan", ~job'.grown
               PROVE  /\ job'.seen = {p \in Posts' : Down(job.page)' < p}
                      /\ job'.posts = job'.seen
                      /\ \A p \in job'.seen : time'[p] > job'.anchor
    BY DEF Scanned
  <2>1. pc = "scan" /\ job \in Jobs
        /\ job' = [job EXCEPT !.grown = @ \/ (pc = "scan" /\ job.page > 1)]
    BY <1>3 DEF Publish, Typed, TypeOK, Jobs
  <2>2. /\ job'.page = job.page /\ job'.seen = job.seen /\ job'.posts = job.posts
        /\ job'.anchor = job.anchor /\ job'.grown = (job.grown \/ job.page > 1)
    BY <2>1 DEF Jobs
  <2>3. ~job.grown /\ job.page = 1
    <3>1. ~job.grown /\ ~(job.page > 1)
      BY <2>2, Zenon
    <3>2. job.page \in Nat \ {0}
      BY <2>1, SizesAssumption DEF Jobs
    <3> QED BY <3>1, <3>2
  <2>4. job.seen = {} /\ job.posts = {}
    BY <1>0, <2>1, <2>3 DEF Scanned, Posts
  <2>5. Len(time') = Len(time) + 1
    BY <1>3, PublishTyped
  <2>6. Down(1)' = Len(time')
    BY <1>0, <2>5 DEF Down
  <2>7. {p \in Posts' : Down(1)' < p} = {}
    BY <1>0, <2>5, <2>6 DEF Posts
  <2> QED BY <2>2, <2>3, <2>4, <2>7
<1>4. CASE CreateIssue \/ CommitState \/ Fail
  BY <1>4 DEF CreateIssue, CommitState, Fail, Scanned
<1>5. CASE UNCHANGED vars
  BY <1>5 DEF vars, Scanned, Down, Posts
<1> QED BY <1>1, <1>2, <1>3, <1>4, <1>5 DEF Next, Step

LEMMA ScannedHolds == Spec => []Scanned
<1>1. Init => Scanned
  BY DEF Init, Scanned
<1> QED BY <1>1, StepScanned, TypedHolds, PTL DEF Spec

\* A scan that ends without an error has accepted exactly the posts newer than
\* the anchor, if no post appeared between two of its pages (scanFeed,
\* check.go:189-226); posts of one date may be any number.
THEOREM ScanExactHolds == Spec => ScanExact
<1>1. ASSUME Typed, Scanned, [Next]_vars, pc = "scan", pc' = "issue", ~job.grown
      PROVE  job'.posts = Accepted
  BY <1>1, ScanStep DEF Next, Step, Publish, StartJob, CreateIssue, CommitState, Fail, vars
<1>2. Typed /\ Scanned /\ [Next]_vars
        => [pc = "scan" /\ pc' = "issue" /\ ~job.grown
              => job'.posts = {p \in Posts : time[p] > job.anchor}]_vars
  BY <1>1 DEF Accepted
<1> QED BY <1>2, ScannedHolds, TypedHolds, PTL DEF Spec, ScanExact

------------------------------------------------------------------------------

\* Every post is dated after the seed; the anchor is the seed or the date of a
\* post, so a post published later is dated after it or shares its date.
Dated == \A p \in Posts : Seed < time[p]
AnchorKnown == anchor = Seed \/ \E p \in Posts : time[p] = anchor

\* The job that will move the anchor has read it, has accepted what lies between
\* it and its successor, but for later posts of a date and under a feed that
\* grew, and has reported the patches of it before it saves.
JobKnows ==
    /\ pc # "idle" => job.anchor = anchor
    /\ pc \in {"issue", "save"} /\ ~job.grown =>
         \A p \in Posts : job.anchor < time[p] /\ time[p] <= LastSeen
                           => p \in job.posts \/ Later(p)
    /\ pc = "save" => \A p \in NewPosts : Reported(p)

Covered == Dated /\ AnchorKnown /\ JobKnows /\ NothingSkipped

LEMMA ReportedStays ==
    ASSUME Typed, NEW S \in SUBSET Posts, NEW p,
           Reported(p) \/ p \in S
    PROVE  \E i \in 1 .. Len(Append(issues, S)) : p \in Append(issues, S)[i]
<1>1. issues \in Seq(SUBSET Posts) /\ Len(issues) \in Nat
  BY DEF Typed, TypeOK
<1>2. Len(Append(issues, S)) = Len(issues) + 1 /\ Append(issues, S)[Len(issues) + 1] = S
  BY <1>1
<1>3. \A i \in 1 .. Len(issues) : Append(issues, S)[i] = issues[i]
  BY <1>1
<1>4. CASE p \in S
  <2>1. Len(issues) + 1 \in 1 .. Len(Append(issues, S))
    BY <1>1, <1>2
  <2> QED BY <1>2, <1>4, <2>1
<1>5. CASE Reported(p)
  <2>1. PICK i \in 1 .. Len(issues) : p \in issues[i]
    BY <1>5 DEF Reported
  <2>2. i \in 1 .. Len(Append(issues, S))
    BY <1>1, <1>2
  <2> QED BY <1>3, <2>1, <2>2
<1> QED BY <1>4, <1>5

LEMMA PublishCovered ==
    ASSUME Typed, Covered, Publish
    PROVE  Covered'
<1>0. PICK new \in Nat : new = Len(time) + 1
  BY DEF Typed, TypeOK
<1>1. /\ Len(time) \in Nat /\ new \notin Posts /\ Posts' = Posts \cup {new}
      /\ \A p \in Posts : time[p] \in Nat /\ p < new /\ time'[p] = time[p]
      /\ anchor \in Nat /\ job.anchor \in Nat /\ time'[new] \in Nat
  <2>1. Len(time) \in Nat /\ \A p \in Posts : time[p] \in Nat /\ p \in Nat /\ p <= Len(time)
    BY SizesAssumption DEF Typed, TypeOK, Posts
  <2>2. Len(time') = Len(time) + 1 /\ time' \in Seq(0 .. MaxPosts)
    BY PublishTyped DEF Typed, TypeOK
  <2>3. \A p \in 1 .. Len(time') : time'[p] \in 0 .. MaxPosts
    BY <2>2, ElementOfSeq
  <2>4. Posts' = Posts \cup {new} /\ new \notin Posts
    BY <1>0, <2>1, <2>2 DEF Posts
  <2>5. anchor \in Nat /\ job.anchor \in Nat
    BY SizesAssumption DEF Typed, TypeOK
  <2> QED BY <1>0, <2>1, <2>2, <2>3, <2>4, <2>5, PublishTyped, SizesAssumption
<1>2. (\A p \in Posts : time[p] <= time'[new]) /\ Seed < time'[new]
  BY <1>0, PublishTyped DEF Covered, Dated
<1>3. /\ UNCHANGED <<anchor, issues, pc, overlooked>> /\ \A p : Reported(p)' = Reported(p)
      /\ job'.anchor = job.anchor /\ job'.posts = job.posts /\ job'.first = job.first
      /\ pc # "scan" => job'.grown = job.grown
  <2>1. job \in Jobs
    BY DEF Typed, TypeOK, Jobs
  <2> QED BY <2>1 DEF Publish, Reported, Jobs
<1>4. Dated' /\ AnchorKnown'
  BY <1>1, <1>2, <1>3 DEF Covered, Dated, AnchorKnown, Seed
\* The new post shares the date of a post it is not newer than.
<1>5. ASSUME NEW p \in Posts, time'[new] <= time[p] PROVE Later(new)'
  BY <1>1, <1>2, <1>5 DEF Later
<1>6. \A p \in Posts : Later(p) => Later(p)'
  BY <1>1 DEF Later
<1>7. NothingSkipped'
  <2> SUFFICES ASSUME NEW p \in Posts' \cap Patches, time'[p] <= anchor'
               PROVE  (Reported(p) \/ GivenUp(p))'
    BY DEF NothingSkipped
  <2>1. CASE p \in Posts
    BY <1>1, <1>3, <1>6, <2>1 DEF Covered, NothingSkipped, GivenUp
  <2>2. CASE p = new
    BY <1>1, <1>2, <1>3, <1>5, <2>2 DEF Covered, AnchorKnown, GivenUp, Seed
  <2> QED BY <1>1, <2>1, <2>2
<1>8. /\ job.posts \subseteq Posts /\ (job.posts # {} => job.first \in Posts)
  BY DEF Typed, TypeOK, FirstKept
<1>9. LastSeen' = LastSeen /\ NewPosts' = NewPosts /\ LastSeen \in Nat
  BY <1>1, <1>3, <1>8 DEF LastSeen, NewPosts
<1>10. JobKnows'
  <2>1. ASSUME pc \in {"issue", "save"}, ~job.grown, NEW p \in Posts',
               job.anchor < time'[p], time'[p] <= LastSeen
        PROVE  p \in job.posts \/ Later(p)'
    <3>1. CASE p \in Posts
      BY <1>1, <1>6, <2>1, <3>1 DEF Covered, JobKnows
    <3>2. CASE p = new
      <4>1. job.anchor < time'[new] /\ time'[new] <= LastSeen
        BY <2>1, <3>2
      <4>2. job.posts # {}
        BY <1>1, <4>1 DEF LastSeen
      <4>3. job.first \in Posts /\ time'[new] <= time[job.first]
        BY <1>8, <4>1, <4>2 DEF LastSeen
      <4> QED BY <1>5, <3>2, <4>3
    <3> QED BY <1>1, <2>1, <3>1, <3>2
  <2> QED BY <1>3, <1>9, <2>1 DEF JobKnows, Covered
<1> QED BY <1>4, <1>7, <1>10 DEF Covered

LEMMA StepCovered == Typed /\ Scanned /\ Covered /\ [Next]_vars => Covered'
<1> SUFFICES ASSUME Typed, Scanned, Covered, [Next]_vars PROVE Covered'
  OBVIOUS
<1> USE DEF Covered
<1>1. CASE Publish
  BY <1>1, PublishCovered
<1>2. UNCHANGED <<time, anchor, issues, overlooked>> => (Dated /\ AnchorKnown /\ NothingSkipped)'
  BY DEF Dated, AnchorKnown, NothingSkipped, GivenUp, Later, Reported, Posts
<1>3. CASE StartJob
  BY <1>2, <1>3 DEF StartJob, NoJob, JobKnows
<1>4. CASE ScanPage
  <2>1. /\ UNCHANGED <<time, anchor, issues, overlooked>> /\ job'.anchor = anchor
        /\ pc' \in {"idle", "scan", "issue"} /\ job'.grown = job.grown
        /\ pc' = "issue" /\ ~job.grown => job'.posts = Accepted
    BY <1>4, ScanMoves, ScanStep DEF ScanPage, JobKnows
  <2>2. job.anchor = anchor
    BY <1>4 DEF ScanPage, JobKnows
  <2>3. JobKnows'
    BY <2>1, <2>2 DEF JobKnows, Accepted, Posts
  <2> QED BY <1>2, <2>1, <2>3
<1>5. CASE CreateIssue
  <2>1. NewPosts \in SUBSET Posts
    BY DEF NewPosts, Typed, TypeOK
  <2>2. \A p : Reported(p) \/ p \in NewPosts => Reported(p)'
    <3>1. CASE NewPosts = {}
      BY <1>5, <3>1 DEF CreateIssue, Reported
    <3>2. CASE NewPosts # {}
      BY <1>5, <2>1, <3>2, ReportedStays DEF CreateIssue, Reported
    <3> QED BY <3>1, <3>2
  <2>3. UNCHANGED <<time, anchor, job, overlooked>> /\ pc = "issue" /\ pc' = "save"
    BY <1>5 DEF CreateIssue
  <2>4. /\ Posts' = Posts /\ NewPosts' = NewPosts /\ LastSeen' = LastSeen
        /\ \A p : Later(p)' = Later(p) /\ GivenUp(p)' = GivenUp(p)
    BY <2>3 DEF Posts, NewPosts, LastSeen, GivenUp, Later
  <2> QED BY <2>2, <2>3, <2>4 DEF Dated, AnchorKnown, JobKnows, NothingSkipped
<1>6. CASE CommitState
  <2>1. /\ UNCHANGED <<time, issues, job>> /\ pc = "save" /\ pc' = "idle" /\ anchor' = LastSeen
        /\ overlooked' = IF job.grown THEN overlooked \cup Behind ELSE overlooked
    BY <1>6 DEF CommitState
  <2>2. Posts' = Posts /\ \A p : Reported(p)' = Reported(p) /\ Later(p)' = Later(p)
    BY <2>1 DEF Posts, Reported, Later
  <2>3. job.anchor = anchor /\ (job.posts # {} => job.first \in Posts)
    BY <2>1 DEF JobKnows, Typed, TypeOK, FirstKept
  <2>4. AnchorKnown'
    BY <2>1, <2>2, <2>3 DEF AnchorKnown, LastSeen
  <2>5. ASSUME NEW p \in Posts \cap Patches, time[p] <= LastSeen
        PROVE  (Reported(p) \/ GivenUp(p))'
    <3>1. anchor \in Nat /\ time[p] \in Nat
      BY SizesAssumption DEF Typed, TypeOK, Posts
    <3>2. CASE time[p] <= anchor
      BY <2>1, <2>2, <3>2 DEF NothingSkipped, GivenUp
    <3>3. CASE anchor < time[p]
      <4>1. CASE p \in job.posts
        BY <2>1, <2>2, <2>3, <3>3, <4>1 DEF JobKnows, NewPosts
      <4>2. CASE p \notin job.posts /\ job.grown
        BY <2>1, <2>3, <2>5, <3>3, <4>2 DEF Behind, GivenUp
      <4>3. CASE p \notin job.posts /\ ~job.grown
        BY <2>1, <2>2, <2>3, <2>5, <3>3, <4>3 DEF JobKnows, GivenUp
      <4> QED BY <4>1, <4>2, <4>3
    <3> QED BY <3>1, <3>2, <3>3
  <2>6. NothingSkipped'
    BY <2>1, <2>2, <2>5 DEF NothingSkipped
  <2> QED BY <2>1, <2>2, <2>4, <2>6 DEF Dated, JobKnows
<1>7. CASE Fail
  BY <1>2, <1>7 DEF Fail, JobKnows
<1>8. CASE UNCHANGED vars
  BY <1>2, <1>8 DEF vars, JobKnows, Reported, Later, Posts, NewPosts, LastSeen
<1> QED BY <1>1, <1>3, <1>4, <1>5, <1>6, <1>7, <1>8 DEF Next, Step

\* No patch is silently skipped (Check, check.go:112-226; the step order of
\* kb-monitor.yml:41-89), whatever is published when and whatever fails where,
\* but for what the code gives up: posts that a scan under which the feed grew
\* did not accept, and later posts of one date (GivenUp).
THEOREM NothingSkippedHolds == Spec => []NothingSkipped
<1>1. Init => Covered
  BY DEF Init, Covered, Dated, AnchorKnown, JobKnows, NothingSkipped, Posts, Seed
<1>2. Covered => NothingSkipped
  BY DEF Covered
<1> QED BY <1>1, <1>2, StepCovered, ScannedHolds, TypedHolds, PTL DEF Spec
=============================================================================
