---------------------------- MODULE StudioProofs ----------------------------
(***************************************************************************)
(* Theorems about the job pages of the Studio, for any contents of jobs,   *)
(* scripts, voices, recordings and any number of jobs, keys and calls.     *)
(* The pages share StudioJobs: StudioStep says what any step of a page can *)
(* do to it, StudioInv is shown once to be kept by all of these, and each  *)
(* page adds what relates its own state to list, calls and jobs.           *)
(***************************************************************************)
EXTENDS StudioTts, StudioQueue, StudioAsr, StudioReview, TLAPS

-----------------------------------------------------------------------------
\* The invariant of the shared part.

Statuses == Live \cup Settled \cup {"gone"}
Views    == [status : Statuses \cup {"absent"}, rev : Nat]
Listings == [JobIds -> Views]
Records  == [what : Contents, key : Nat, effort : Nat, status : Statuses, rev : Nat]
Requested ==
  [op : {"create", "cancel", "delete", "cleanup", "revise"}, page : Pages, held : BOOLEAN,
   latest : BOOLEAN, st : {"sent", "refused", "answered"}, job : Nat,
   what : Contents \cup {NoRetry}, key : Nat, effort : Nat, seen : Views, base : Nat]
Keyed    == [source : Sources, key : Nat]
Numbered == [source : Sources, no : Nat]

\* The page remembers the key and the user the effort of the same request, by one number.
Matching(p) == \/ retry[p] = NoRetry /\ effort[p] = NoRetry
               \/ /\ retry[p] \in Keyed /\ effort[p] \in Numbered
                  /\ retry[p].source = effort[p].source /\ retry[p].key = effort[p].no
RetryInv == /\ drawn \in Nat
            /\ retry \in [SubmitPages -> Keyed \cup {NoRetry}]
            /\ effort \in [SubmitPages -> Numbered \cup {NoRetry}]
            /\ \A p \in SubmitPages : Matching(p)

JobsInv == /\ jobs \in Seq(Records) /\ Len(jobs) <= MaxJobs
           /\ \A i \in 1..Len(jobs) : jobs[i].key = jobs[i].effort

\* A list names jobs that were made; an answer on its way is one.
Accurate(v) == \A i \in JobIds : v[i] # Absent => i <= Len(jobs)
CacheInv(q) == /\ q \in [data : Listings \cup {NoData}, fetch : {"idle", "asked", "answered"},
                         answer : Listings \cup {NoData}]
               /\ \A v \in {q.data, q.answer} : v # NoData => Accurate(v)
               /\ q.fetch = "answered" => q.answer # NoData
ListInv == CacheInv(list)

\* What a call was told of its job may be old, but a job is active no longer than it is told to be.
Past(i, v) == i \in 1..Len(jobs) /\ (jobs[i].status \in Live => v.status \in Live)
CallInv(c) == /\ c \in Requested
              /\ c.op = "create" => c.what \in Contents /\ c.key = c.effort
              /\ (c.op \in {"create", "revise"} /\ c.st = "answered") => Past(c.job, c.seen)
              /\ c.held => c.page = page
CallsInv == \A c \in calls : CallInv(c)

\* A submission whose page waits for it has the page's lock, and the page follows it.
Waiting(c) == c.op = "create" /\ c.held
LockInv == \A c \in calls : Waiting(c) =>
             /\ c.page \in lock /\ c.latest
             /\ \A d \in calls : (Waiting(d) /\ d.page = c.page) => d = c

StudioInv == /\ page \in Pages
             /\ RetryInv /\ JobsInv /\ ListInv /\ CallsInv /\ LockInv
             /\ OneJobPerEffort

-----------------------------------------------------------------------------
\* What a step of a page can do to the shared part.

RetryForgotten == \/ UNCHANGED <<retry, effort>>
                  \/ \E p : /\ retry' = [retry EXCEPT ![p] = NoRetry]
                            /\ effort' = [effort EXCEPT ![p] = NoRetry]

Edits == UNCHANGED <<page, jobs, list, calls, lock, drawn>> /\ RetryForgotten
Submits(p, source, what) ==
  /\ p = page /\ Submit(p, source, what)
  /\ UNCHANGED <<page, jobs, list>>
Posts(c) == /\ CallInv(c) /\ c.op # "create" /\ c.st = "sent"
            /\ Send(c) /\ UNCHANGED <<page, jobs, list, lock, retry, effort, drawn>>
Finishes(c) == /\ calls' = calls \ {c}
               /\ lock' = IF c.op = "create" THEN Unlocked(c) ELSE lock
               /\ CacheInv(list') /\ RetryForgotten
               /\ UNCHANGED <<page, jobs, drawn>>
LetsGo(S) == /\ \A c \in S : c.op # "create"
             /\ calls' = {IF c \in S THEN [c EXCEPT !.latest = FALSE] ELSE c : c \in calls}
             /\ CacheInv(list')
             /\ UNCHANGED <<page, jobs, lock, retry, effort, drawn>>

StudioStep == \/ Edits
              \/ \E p \in SubmitPages, source \in Sources, what \in Contents : Submits(p, source, what)
              \/ \E c : Posts(c)
              \/ \E c \in calls : Finishes(c)
              \/ \E S : LetsGo(S)
              \/ Queue
              \/ ListSteps
              \/ \E p \in Pages : Navigate(p)

-----------------------------------------------------------------------------
\* The cache.

LEMMA ViewsTyped ==
  /\ Absent \in Views /\ NoData \notin Listings
  /\ \A j \in Records : Seen(j) \in Views /\ Seen(j).status = j.status
  <1>1. Absent \in Views
    BY DEF Absent, Views
  <1>2. NoData \notin Listings
    BY NoDataAssumption DEF Listings, Views, Statuses
  <1>3. \A j \in Records : Seen(j) \in Views /\ Seen(j).status = j.status
    BY DEF Seen, Views, Records
  <1>4. QED BY <1>1, <1>2, <1>3

LEMMA ListedFits ==
  ASSUME JobsInv
  PROVE  /\ Listed \in Listings /\ Listed # NoData /\ Accurate(Listed)
         /\ \A i \in 1..Len(jobs) : jobs[i].status \in Live => Listed[i].status \in Live
  <1>1. \A i \in 1..Len(jobs) : jobs[i] \in Records
    BY DEF JobsInv
  <1>2. Len(jobs) \in Nat /\ Len(jobs) <= MaxJobs /\ MaxJobs \in Nat
    BY BoundsAssumption DEF JobsInv
  <1>3. \A i \in JobIds : Listed[i] \in Views /\ (Listed[i] # Absent => i <= Len(jobs))
    BY <1>1, <1>2, ViewsTyped DEF Listed, JobIds
  <1>4. Listed \in Listings
    BY <1>3 DEF Listed, Listings
  <1>5. \A i \in 1..Len(jobs) : jobs[i].status \in Live => Listed[i] = Seen(jobs[i])
    BY <1>2 DEF Listed, JobIds, Live
  <1>6. QED BY <1>1, <1>3, <1>4, <1>5, ViewsTyped DEF Accurate

LEMMA CacheOps ==
  ASSUME NEW q, CacheInv(q)
  PROVE  /\ CacheInv(Fetched(q)) /\ CacheInv(Invalidated(q)) /\ CacheInv(Refreshed(q))
         /\ CacheInv(Failed(q))
         /\ q.fetch = "answered" => CacheInv(Landed(q))
         /\ \A v \in Listings : Accurate(v) => CacheInv(AnsweredWith(q, v)) /\ CacheInv(WithData(q, v))
  <1> DEFINE D == Listings \cup {NoData}
             Caches == [data : D, fetch : {"idle", "asked", "answered"}, answer : D]
             Fits(v) == v # NoData => Accurate(v)
             Good(r) == /\ r \in Caches /\ Fits(r.data) /\ Fits(r.answer)
                        /\ r.fetch = "answered" => r.answer # NoData
  <1>0. \A r : CacheInv(r) <=> Good(r)
    BY DEF CacheInv
  <1>1. NoData \in D /\ NoData \notin Listings /\ Listings \subseteq D
    BY ViewsTyped
  <1>2. Good(q)
    BY <1>0
  <1> HIDE DEF D, Fits
  <1>3. Fits(NoData) /\ \A v \in Listings : Accurate(v) => Fits(v)
    BY DEF Fits
  <1>4. Good(Fetched(q)) /\ Good(Failed(q))
    BY <1>1, <1>2, <1>3 DEF Fetched, Failed
  <1>5. Good(Invalidated(q))
    BY <1>1, <1>2, <1>3, <1>4 DEF Invalidated
  <1>6. q.fetch = "answered" => Good(Landed(q))
    BY <1>1, <1>2, <1>3 DEF Landed
  <1>7. ASSUME NEW v \in Listings, Accurate(v)
        PROVE  Good(AnsweredWith(q, v)) /\ Good(WithData(q, v))
    BY <1>1, <1>2, <1>3, <1>7 DEF AnsweredWith, WithData
  <1> HIDE DEF Good
  <1>8. QED BY <1>0, <1>2, <1>4, <1>5, <1>6, <1>7 DEF Refreshed

LEMMA PrependedFits ==
  ASSUME JobsInv, NEW q, CacheInv(q), NEW i \in 1..Len(jobs), NEW v \in Views
  PROVE  /\ CacheInv(Prepended(q, i, v)) /\ Prepended(q, i, v).data \in Listings
         /\ Prepended(q, i, v).data[i] = v
         /\ \A k \in JobIds \ {i} : q.data # NoData => Prepended(q, i, v).data[k] = q.data[k]
  <1> DEFINE w == [k \in JobIds |-> IF k = i THEN v ELSE IF q.data = NoData THEN Absent ELSE q.data[k]]
  <1>1. i \in JobIds
    BY BoundsAssumption DEF JobsInv, JobIds
  <1>2. \A k \in JobIds : q.data # NoData => q.data[k] \in Views
    BY DEF CacheInv, Listings
  <1>3. w \in Listings
    BY <1>2, ViewsTyped DEF Listings
  <1>4. Accurate(w)
    BY DEF Accurate, CacheInv
  <1>5. w[i] = v /\ \A k \in JobIds \ {i} : q.data # NoData => w[k] = q.data[k]
    BY <1>1
  <1>6. Prepended(q, i, v) = WithData(q, w)
    BY DEF Prepended
  <1> HIDE DEF w
  <1>7. WithData(q, w).data = w
    BY DEF WithData, CacheInv
  <1>8. QED BY <1>3, <1>4, <1>5, <1>6, <1>7, CacheOps

LEMMA ListStepsKeep ==
  ASSUME JobsInv, ListInv, ListSteps
  PROVE  CacheInv(list')
  <1>1. CASE Poll BY <1>1, CacheOps DEF Poll, ListInv
  <1>2. CASE AnswerList BY <1>2, CacheOps, ListedFits DEF AnswerList, ListInv
  <1>3. CASE LandList BY <1>3, CacheOps DEF LandList, ListInv
  <1>4. CASE FailList BY <1>4, CacheOps DEF FailList, ListInv
  <1>5. QED BY <1>1, <1>2, <1>3, <1>4 DEF ListSteps

\* The list outlives its jobs: none of them leaves the record.
LEMMA CacheStays ==
  ASSUME CacheInv(list'), Len(jobs) \in Nat, Len(jobs') \in Nat, Len(jobs) <= Len(jobs')
  PROVE  ListInv'
  <1>1. \A v : Accurate(v) => Accurate(v)'
    BY BoundsAssumption DEF Accurate, JobIds
  <1>2. QED BY <1>1 DEF ListInv, CacheInv
-----------------------------------------------------------------------------
\* The server.

\* No step takes a job's identity, makes it active again or brings it back; one job may be added,
\* of a creation whose key has no job.
JobKept(i) == /\ jobs'[i].what = jobs[i].what
              /\ jobs'[i].key = jobs[i].key /\ jobs'[i].effort = jobs[i].effort
              /\ jobs'[i].status \in Live => jobs[i].status \in Live
              /\ jobs[i].status = "gone" => jobs'[i].status = "gone"
StoreMoves == /\ jobs' \in Seq(Records) /\ Len(jobs') <= MaxJobs
              /\ \A i \in 1..Len(jobs) : JobKept(i)
              /\ \/ Len(jobs') = Len(jobs)
                 \/ LET n == Len(jobs) + 1
                    IN /\ Len(jobs') = n /\ jobs'[n].key = jobs'[n].effort
                       /\ OfKey(jobs'[n].key) = {}

LEMMA StoreStays ==
  ASSUME JobsInv, UNCHANGED jobs
  PROVE  StoreMoves
  BY DEF JobsInv, StoreMoves, JobKept

\* One job is replaced by another record of the same request.
LEMMA OneReplaced ==
  ASSUME JobsInv, NEW i \in 1..Len(jobs), NEW r \in Records, jobs' = [jobs EXCEPT ![i] = r],
         r.what = jobs[i].what, r.key = jobs[i].key, r.effort = jobs[i].effort,
         r.status \in Live => jobs[i].status \in Live, jobs[i].status = "gone" => r.status = "gone"
  PROVE  StoreMoves
  <1> DEFINE B == Records
  <1> HIDE DEF B
  <1>1. jobs \in Seq(B) /\ r \in B
    BY DEF JobsInv, B
  <1>2. jobs' \in Seq(B) /\ Len(jobs') = Len(jobs)
    BY <1>1
  <1>3. \A k \in 1..Len(jobs) : JobKept(k)
    BY <1>1 DEF JobKept
  <1>4. QED BY <1>2, <1>3 DEF StoreMoves, JobsInv, B

LEMMA StatusSet ==
  ASSUME JobsInv, NEW i, NEW s \in Statuses, NEW statuses, Has(i, statuses), "gone" \notin statuses,
         SetStatus(i, s), s \in Live => statuses \subseteq Live
  PROVE  StoreMoves
  <1> DEFINE r == [jobs[i] EXCEPT !.status = s]
  <1>1. /\ i \in 1..Len(jobs) /\ jobs[i].status \in statuses /\ jobs' = [jobs EXCEPT ![i].status = s]
        /\ jobs[i] \in Records
    BY DEF Has, SetStatus, JobsInv
  <1>2. r \in Records /\ r.what = jobs[i].what /\ r.key = jobs[i].key /\ r.effort = jobs[i].effort
        /\ r.status = s
    BY <1>1 DEF Records
  <1>3. jobs' = [jobs EXCEPT ![i] = r]
    BY <1>1
  <1> HIDE DEF r
  <1>4. QED BY <1>1, <1>2, <1>3, OneReplaced

LEMMA RevisionSet ==
  ASSUME JobsInv, NEW i, Has(i, {"succeeded"}), jobs' = [jobs EXCEPT ![i].rev = @ + 1]
  PROVE  StoreMoves
  <1> DEFINE r == [jobs[i] EXCEPT !.rev = @ + 1]
  <1>1. i \in 1..Len(jobs) /\ jobs[i] \in Records
    BY DEF Has, JobsInv
  <1>2. /\ r \in Records /\ r.what = jobs[i].what /\ r.key = jobs[i].key /\ r.effort = jobs[i].effort
        /\ r.status = jobs[i].status
    BY <1>1 DEF Records
  <1>3. jobs' = [jobs EXCEPT ![i] = r]
    OBVIOUS
  <1> HIDE DEF r
  <1>4. QED BY <1>1, <1>2, <1>3, OneReplaced

LEMMA CleanupMoves ==
  ASSUME JobsInv, NEW c, ServeCleanup(c)
  PROVE  StoreMoves
  <1>1. jobs' = [i \in 1..Len(jobs) |-> IF jobs[i].status \in Settled
                                        THEN [jobs[i] EXCEPT !.status = "gone"] ELSE jobs[i]]
    BY DEF ServeCleanup
  <1>2. ASSUME NEW i \in 1..Len(jobs) PROVE jobs'[i] \in Records /\ JobKept(i)
    <2>1. jobs[i] \in Records
      BY DEF JobsInv
    <2>2. /\ [jobs[i] EXCEPT !.status = "gone"] \in Records
          /\ [jobs[i] EXCEPT !.status = "gone"].status = "gone"
      BY <2>1 DEF Records, Statuses
    <2>3. QED BY <1>1, <2>1, <2>2 DEF JobKept, Records, Live, Settled
  <1> DEFINE B == Records
  <1>3. \A i \in 1..Len(jobs) : jobs'[i] \in B
    BY <1>2
  <1> HIDE DEF B
  <1>4. Len(jobs) \in Nat
    BY DEF JobsInv
  <1>5. jobs' \in Seq(B) /\ Len(jobs') = Len(jobs)
    BY <1>1, <1>3, <1>4
  <1>6. QED BY <1>2, <1>5 DEF StoreMoves, JobsInv, B

LEMMA CreationMoves ==
  ASSUME JobsInv, NEW c, CallInv(c), c.op = "create", OfKey(c.key) = {}, Len(jobs) < MaxJobs,
         jobs' = Append(jobs, [Made(c.what, "live") EXCEPT !.key = c.key, !.effort = c.effort])
  PROVE  /\ StoreMoves /\ Len(jobs') = Len(jobs) + 1
         /\ jobs'[Len(jobs) + 1].status = "live"
  <1> DEFINE j == [Made(c.what, "live") EXCEPT !.key = c.key, !.effort = c.effort]
             n == Len(jobs) + 1
             B == Records
  <1>1. j \in B /\ j.key = c.key /\ j.effort = c.key /\ j.status = "live"
    BY DEF Made, Records, CallInv, Requested, Statuses, Live
  <1> HIDE DEF j, B
  <1>2. jobs \in Seq(B) /\ jobs' = Append(jobs, j)
    BY DEF JobsInv, B, j
  <1>3. /\ jobs' \in Seq(B) /\ Len(jobs') = n /\ jobs'[n] = j
        /\ \A i \in 1..Len(jobs) : jobs'[i] = jobs[i]
    BY <1>1, <1>2
  <1>4. n <= MaxJobs
    BY <1>2, BoundsAssumption
  <1>5. QED BY <1>1, <1>3, <1>4 DEF StoreMoves, JobKept, B

\* The call is answered and otherwise as it was.
Answers(c, d) == /\ calls' = (calls \ {c}) \cup {d}
                 /\ d.op = c.op /\ d.page = c.page /\ d.held = c.held /\ d.latest = c.latest
                 /\ d.what = c.what /\ d.key = c.key /\ d.effort = c.effort /\ d.base = c.base
                 /\ c.st = "sent" /\ d.st # "sent"
Served(c) == c.st = "sent" /\ \E d : Answers(c, d) /\ CallInv(d)'

LEMMA AnswerFits ==
  ASSUME NEW c \in calls, CallInv(c), c.st = "sent", NEW st \in {"refused", "answered"}, NEW i \in Nat,
         NEW v \in Views, UNCHANGED page,
         calls' = (calls \ {c}) \cup {[c EXCEPT !.st = st, !.job = i, !.seen = v]},
         (c.op \in {"create", "revise"} /\ st = "answered") => Past(i, v)'
  PROVE  Served(c)
  <1> DEFINE d == [c EXCEPT !.st = st, !.job = i, !.seen = v]
  <1>1. c \in Requested
    BY DEF CallInv
  <1>2. /\ d \in Requested /\ d.op = c.op /\ d.page = c.page /\ d.held = c.held /\ d.latest = c.latest
        /\ d.what = c.what /\ d.key = c.key /\ d.effort = c.effort /\ d.base = c.base
        /\ d.st = st /\ d.job = i /\ d.seen = v
    BY <1>1 DEF Requested
  <1> HIDE DEF d
  <1>3. CallInv(d)'
    BY <1>2 DEF CallInv
  <1>4. Answers(c, d)
    BY <1>2 DEF Answers, d
  <1>5. QED BY <1>3, <1>4 DEF Served

LEMMA ReplyFits ==
  ASSUME NEW c \in calls, CallInv(c), c.st = "sent", NEW st \in {"refused", "answered"},
         UNCHANGED page, Reply(c, st), st = "answered" => c.op \notin {"create", "revise"}
  PROVE  Served(c)
  <1>1. c \in Requested
    BY DEF CallInv
  <1>2. c.job \in Nat /\ c.seen \in Views
    BY <1>1 DEF Requested
  <1>3. [c EXCEPT !.st = st] = [c EXCEPT !.st = st, !.job = c.job, !.seen = c.seen]
    BY <1>1 DEF Requested
  <1>4. QED BY <1>2, <1>3, AnswerFits DEF Reply

LEMMA CreateServed ==
  ASSUME JobsInv, NEW c \in calls, CallInv(c), ServeCreate(c)
  PROVE  StoreMoves /\ Served(c)
  <1>1. c.op = "create" /\ c.st = "sent" /\ UNCHANGED page
    BY DEF ServeCreate, ServerOnly
  <1>2. Len(jobs) \in Nat /\ \A i \in 1..Len(jobs) : jobs[i] \in Records
    BY DEF JobsInv
  <1>3. ASSUME NEW i \in OfKey(c.key), UNCHANGED jobs,
               calls' = (calls \ {c}) \cup {[c EXCEPT !.st = "answered", !.job = i, !.seen = Seen(jobs[i])]}
        PROVE  StoreMoves /\ Served(c)
    <2>1. i \in 1..Len(jobs) /\ i \in Nat
      BY <1>2 DEF OfKey
    <2>2. Seen(jobs[i]) \in Views /\ Past(i, Seen(jobs[i]))'
      BY <2>1, <1>2, <1>3, ViewsTyped DEF Past
    <2>3. QED BY <1>1, <1>3, <2>1, <2>2, AnswerFits, StoreStays
  <1>4. ASSUME OfKey(c.key) = {}, Len(jobs) < MaxJobs,
               jobs' = Append(jobs, [Made(c.what, "live") EXCEPT !.key = c.key, !.effort = c.effort]),
               calls' = (calls \ {c}) \cup {[c EXCEPT !.st = "answered", !.job = Len(jobs) + 1,
                                                      !.seen = [status |-> "live", rev |-> 0]]}
        PROVE  StoreMoves /\ Served(c)
    <2> DEFINE v == [status |-> "live", rev |-> 0]
    <2>1. StoreMoves /\ Len(jobs') = Len(jobs) + 1
      BY <1>1, <1>4, CreationMoves
    <2>2. v \in Views /\ v.status \in Live
      BY DEF Views, Statuses, Live
    <2>3. PICK n \in Nat : n = Len(jobs) + 1
      BY <1>2
    <2>4. Past(n, v)'
      BY <1>2, <2>1, <2>2, <2>3 DEF Past
    <2> HIDE DEF v
    <2>5. Served(c)
      BY <1>1, <1>4, <2>2, <2>3, <2>4, AnswerFits DEF v
    <2>6. QED BY <2>1, <2>5
  <1>5. CASE Reply(c, "refused") /\ UNCHANGED jobs
    BY <1>1, <1>5, ReplyFits, StoreStays
  <1>6. QED BY <1>3, <1>4, <1>5 DEF ServeCreate

LEMMA ReviseServed ==
  ASSUME JobsInv, NEW c \in calls, CallInv(c), ServeRevise(c)
  PROVE  StoreMoves /\ Served(c)
  <1>1. c.op = "revise" /\ c.st = "sent" /\ UNCHANGED page /\ c.base \in Nat /\ c.job \in Nat
    BY DEF ServeRevise, ServerOnly, CallInv, Requested
  <1>2. ASSUME Has(c.job, {"succeeded"}), jobs' = [jobs EXCEPT ![c.job].rev = @ + 1],
               calls' = (calls \ {c}) \cup
                 {[c EXCEPT !.st = "answered", !.seen = [status |-> "succeeded", rev |-> c.base + 1]]}
        PROVE  StoreMoves /\ Served(c)
    <2> DEFINE v == [status |-> "succeeded", rev |-> c.base + 1]
    <2>1. StoreMoves
      BY <1>2, RevisionSet
    <2>2. v \in Views
      BY <1>1 DEF Views, Statuses, Settled
    <2>3. c.job \in 1..Len(jobs) /\ jobs[c.job].status \notin Live
      BY <1>2 DEF Has, Live
    <2>4. Past(c.job, v)'
      BY <2>1, <2>3 DEF StoreMoves, JobKept, Past, JobsInv
    <2> HIDE DEF v
    <2>5. [c EXCEPT !.st = "answered", !.seen = v] = [c EXCEPT !.st = "answered", !.job = c.job, !.seen = v]
      BY DEF CallInv, Requested
    <2>6. Served(c)
      BY <1>1, <1>2, <2>2, <2>4, <2>5, AnswerFits DEF v
    <2>7. QED BY <2>1, <2>6
  <1>3. CASE Reply(c, "refused") /\ UNCHANGED jobs
    BY <1>1, <1>3, ReplyFits, StoreStays
  <1>4. QED BY <1>2, <1>3 DEF ServeRevise

LEMMA OthersServed ==
  ASSUME JobsInv, NEW c \in calls, CallInv(c), ServeCancel(c) \/ ServeDelete(c) \/ ServeCleanup(c)
  PROVE  StoreMoves /\ Served(c)
  <1>1. c.st = "sent" /\ c.op \notin {"create", "revise"} /\ UNCHANGED page
    BY DEF ServeCancel, ServeDelete, ServeCleanup, ServerOnly
  <1>2. Served(c)
    BY <1>1, ReplyFits DEF ServeCancel, ServeDelete, ServeCleanup
  <1>3. CASE ServeCancel(c)
    <2>1. ASSUME NEW s \in {"cancelling", "cancelled"}, Has(c.job, {"live"}), SetStatus(c.job, s)
          PROVE  StoreMoves
      BY <2>1, StatusSet DEF Statuses, Live, Settled
    <2>2. QED BY <1>2, <1>3, <2>1, StoreStays DEF ServeCancel
  <1>4. CASE ServeDelete(c)
    <2>1. ASSUME Has(c.job, Settled), SetStatus(c.job, "gone") PROVE StoreMoves
      BY <2>1, StatusSet DEF Statuses, Live, Settled
    <2>2. QED BY <1>2, <1>4, <2>1, StoreStays DEF ServeDelete
  <1>5. CASE ServeCleanup(c)
    BY <1>2, <1>5, CleanupMoves
  <1>6. QED BY <1>2, <1>3, <1>4, <1>5

\* What the queue does: it answers one call, or a job moves on by itself.
LEMMA QueueMoves ==
  ASSUME JobsInv, CallsInv, Queue
  PROVE  /\ StoreMoves /\ ServerOnly
         /\ calls' = calls \/ \E c \in calls : Served(c)
  <1>1. ASSUME NEW c \in calls, \/ ServeCreate(c) \/ ServeCancel(c) \/ ServeDelete(c)
                                \/ ServeCleanup(c) \/ ServeRevise(c)
        PROVE  StoreMoves /\ ServerOnly /\ Served(c)
    <2>1. CallInv(c)
      BY DEF CallsInv
    <2>2. ServerOnly
      BY <1>1 DEF ServeCreate, ServeCancel, ServeDelete, ServeCleanup, ServeRevise
    <2>3. QED BY <1>1, <2>1, <2>2, CreateServed, ReviseServed, OthersServed
  <1>2. ASSUME NEW i, WorkerEnds(i) PROVE StoreMoves
    <2>1. ASSUME NEW s \in Outcomes \cup {"cancelled"}, NEW st \in {"live", "cancelling"},
                 Has(i, {st}), SetStatus(i, s)
          PROVE  StoreMoves
      <3>1. s \in Settled /\ s \notin Live /\ s \in Statuses
        BY OutcomesAssumption DEF Settled, Live, Statuses
      <3>2. QED BY <2>1, <3>1, StatusSet
    <2>2. QED BY <1>2, <2>1 DEF WorkerEnds
  <1>3. ASSUME NEW i, OutsiderActs(i) PROVE StoreMoves
    <2>1. ASSUME Has(i, Settled), SetStatus(i, "gone") PROVE StoreMoves
      BY <2>1, StatusSet DEF Settled, Live, Statuses
    <2>2. QED BY <1>3, <2>1, RevisionSet DEF OutsiderActs
  <1>4. QED BY <1>1, <1>2, <1>3 DEF Queue, WorkerEnds, OutsiderActs
-----------------------------------------------------------------------------
\* Key and effort.

LEMMA SubmitMatches ==
  ASSUME RetryInv, NEW p \in SubmitPages, NEW source \in Sources, NEW what, Submit(p, source, what)
  PROVE  /\ RetryInv' /\ KeyFor(p, source) = EffortOf(p, source)
         /\ KeyFor(p, source) \in Nat
  <1> DEFINE k == KeyFor(p, source)
             n == EffortOf(p, source)
  <1>1. k = n /\ k \in Nat
    BY NoRetryAssumption DEF RetryInv, Matching, Keyed, Numbered, KeyFor, EffortOf
  <1>2. /\ retry' = [retry EXCEPT ![p] = [source |-> source, key |-> k]]
        /\ effort' = [effort EXCEPT ![p] = [source |-> source, no |-> n]]
        /\ drawn' \in {k, drawn}
    BY DEF Submit
  <1> HIDE DEF k, n
  <1>3. /\ [source |-> source, key |-> k] \in Keyed /\ [source |-> source, no |-> n] \in Numbered
    BY <1>1 DEF Keyed, Numbered
  <1>4. RetryInv'
    BY <1>1, <1>2, <1>3 DEF RetryInv, Matching
  <1>5. QED BY <1>1, <1>4 DEF k, n

LEMMA RetryKept ==
  ASSUME StudioInv, StudioStep
  PROVE  RetryInv'
  <1>0. RetryInv
    BY DEF StudioInv
  <1>1. ASSUME RetryForgotten, UNCHANGED drawn PROVE RetryInv'
    BY <1>0, <1>1 DEF RetryForgotten, RetryInv, Matching
  <1>2. ASSUME UNCHANGED <<retry, effort, drawn>> PROVE RetryInv'
    BY <1>1, <1>2 DEF RetryForgotten
  <1>3. ASSUME NEW p \in SubmitPages, NEW source \in Sources, NEW what \in Contents,
               Submits(p, source, what)
        PROVE  RetryInv'
    BY <1>0, <1>3, SubmitMatches DEF Submits
  <1>4. CASE Edits \/ \E c \in calls : Finishes(c)
    BY <1>1, <1>4 DEF Edits, Finishes
  <1>5. CASE (\E c : Posts(c)) \/ \E S : LetsGo(S)
    BY <1>2, <1>5 DEF Posts, LetsGo
  <1>6. CASE Queue
    BY <1>2, <1>6, QueueMoves DEF ServerOnly, StudioInv
  <1>7. CASE ListSteps
    BY <1>2, <1>7 DEF ListSteps, Poll, AnswerList, LandList, FailList
  <1>8. CASE \E p \in Pages : Navigate(p)
    BY <1>0, <1>8 DEF Navigate, RetryInv, Matching
  <1>9. QED BY <1>3, <1>4, <1>5, <1>6, <1>7, <1>8 DEF StudioStep

-----------------------------------------------------------------------------
\* Jobs.

LEMMA StoreMovesOnly ==
  ASSUME StudioInv, StudioStep
  PROVE  StoreMoves
  <1>1. CASE UNCHANGED jobs
    BY <1>1, StoreStays DEF StudioInv
  <1>2. CASE Queue
    BY <1>2, QueueMoves DEF StudioInv
  <1>3. CASE ListSteps
    BY <1>1, <1>3 DEF ListSteps, Poll, AnswerList, LandList, FailList
  <1>4. QED BY <1>1, <1>2, <1>3
            DEF StudioStep, Edits, Submits, Posts, Finishes, LetsGo, Navigate

LEMMA JobsKept ==
  ASSUME JobsInv, OneJobPerEffort, StoreMoves
  PROVE  JobsInv' /\ OneJobPerEffort' /\ Len(jobs) \in Nat /\ Len(jobs') \in Nat /\ Len(jobs) <= Len(jobs')
  <1>1. Len(jobs) \in Nat /\ Len(jobs') \in Nat
    BY DEF JobsInv, StoreMoves
  <1>2. CASE Len(jobs') = Len(jobs)
    BY <1>1, <1>2 DEF JobsInv, StoreMoves, JobKept, OneJobPerEffort
  <1>3. CASE Len(jobs') = Len(jobs) + 1 /\ jobs'[Len(jobs) + 1].key = jobs'[Len(jobs) + 1].effort
             /\ OfKey(jobs'[Len(jobs) + 1].key) = {}
    <2> DEFINE n == Len(jobs) + 1
    <2>1. JobsInv'
      BY <1>1, <1>3 DEF JobsInv, StoreMoves, JobKept
    <2>2. \A i \in 1..Len(jobs) : jobs'[i].effort = jobs'[n].effort => jobs'[i].status = "gone"
      BY <1>3 DEF JobsInv, StoreMoves, JobKept, OfKey
    <2>3. OneJobPerEffort'
      BY <1>1, <1>3, <2>2 DEF StoreMoves, JobKept, OneJobPerEffort
    <2>4. QED BY <1>1, <1>3, <2>1, <2>3
  <1>4. QED BY <1>1, <1>2, <1>3 DEF StoreMoves

LEMMA ListKept ==
  ASSUME StudioInv, StudioStep
  PROVE  ListInv'
  <1>1. ListInv /\ JobsInv
    BY DEF StudioInv
  <1>2. CacheInv(list')
    <2>1. CASE UNCHANGED list
      BY <1>1, <2>1 DEF ListInv
    <2>2. CASE ListSteps
      BY <1>1, <2>2, ListStepsKeep
    <2>3. CASE Queue
      BY <1>1, <2>1, <2>3, QueueMoves DEF ServerOnly, StudioInv
    <2>4. CASE \E p \in Pages : Navigate(p)
      BY <1>1, <2>4, CacheOps DEF Navigate, ListInv
    <2>5. QED BY <2>1, <2>2, <2>3, <2>4 DEF StudioStep, Edits, Submits, Posts, Finishes, LetsGo
  <1>3. Len(jobs) \in Nat /\ Len(jobs') \in Nat /\ Len(jobs) <= Len(jobs')
    BY StoreMovesOnly, JobsKept DEF StudioInv
  <1>4. QED BY <1>2, <1>3, CacheStays

-----------------------------------------------------------------------------
\* Calls.

\* A call that is let go by its observer is otherwise the same.
Let(c) == [c EXCEPT !.latest = FALSE]
LEMMA LetFits ==
  ASSUME NEW c, CallInv(c)
  PROVE  /\ CallInv(Let(c))
         /\ Let(c).op = c.op /\ Let(c).page = c.page /\ Let(c).held = c.held /\ Let(c).st = c.st
         /\ Let(c).what = c.what /\ Let(c).effort = c.effort /\ Let(c).base = c.base
  <1>1. c \in Requested
    BY DEF CallInv
  <1> DEFINE d == Let(c)
  <1>2. /\ d \in Requested /\ d.op = c.op /\ d.page = c.page /\ d.held = c.held /\ d.st = c.st
        /\ d.what = c.what /\ d.key = c.key /\ d.effort = c.effort /\ d.base = c.base
        /\ d.job = c.job /\ d.seen = c.seen
    BY <1>1 DEF Let, Requested
  <1> HIDE DEF d
  <1>3. CallInv(d)
    BY <1>2 DEF CallInv
  <1>4. QED BY <1>2, <1>3 DEF d

\* Sending changes the calls of the same kind at most in what is followed.
LEMMA SendFits ==
  ASSUME CallsInv, NEW c, CallInv(c), Send(c)
  PROVE  \A d \in calls' : \/ d = c
                           \/ d \in calls
                           \/ \E b \in Pending(c.page, c.op) : d = Let(b)
  BY DEF Send, Let

LEMMA CreationFits ==
  ASSUME RetryInv, NEW p \in SubmitPages, NEW source \in Sources, NEW what \in Contents,
         Submits(p, source, what)
  PROVE  \E c : /\ CallInv(c) /\ Send(c)
                /\ Waiting(c) /\ c.page = p /\ c.latest /\ c.st = "sent" /\ c.what = what
  <1> DEFINE k == KeyFor(p, source)
             n == EffortOf(p, source)
             c == [Call(p, "create", 0) EXCEPT !.what = what, !.key = k, !.effort = n]
  <1>1. k = n /\ k \in Nat /\ p = page
    BY SubmitMatches DEF Submits
  <1>2. Send(c)
    BY DEF Submits, Submit
  <1> HIDE DEF k, n
  <1>3. /\ c \in Requested /\ c.op = "create" /\ c.held = TRUE /\ c.page = p /\ c.latest = TRUE
        /\ c.st = "sent" /\ c.what = what /\ c.key = c.effort
    BY <1>1, ViewsTyped DEF Call, Requested, Pages
  <1> HIDE DEF c
  <1>4. CallInv(c)
    BY <1>1, <1>3 DEF CallInv
  <1>5. QED BY <1>2, <1>3, <1>4 DEF Waiting

LEMMA CallStays ==
  ASSUME JobsInv, StoreMoves, UNCHANGED page, NEW c, CallInv(c)
  PROVE  CallInv(c)'
  <1>1. ASSUME NEW i, NEW v, Past(i, v) PROVE Past(i, v)'
    BY <1>1 DEF Past, StoreMoves, JobKept, JobsInv
  <1>2. QED BY <1>1 DEF CallInv

Orphan(c) == [c EXCEPT !.held = FALSE]
LEMMA OrphanFits ==
  ASSUME UNCHANGED jobs, NEW c, CallInv(c)
  PROVE  /\ CallInv(Orphan(c))' /\ ~Orphan(c).held
         /\ Orphan(c).op = c.op /\ Orphan(c).page = c.page /\ Orphan(c).st = c.st
         /\ Orphan(c).what = c.what /\ Orphan(c).effort = c.effort /\ Orphan(c).base = c.base
         /\ ~c.held => Orphan(c) = c
  <1> DEFINE d == Orphan(c)
  <1>1. c \in Requested
    BY DEF CallInv
  <1>2. /\ d \in Requested /\ d.op = c.op /\ d.page = c.page /\ d.held = FALSE /\ d.st = c.st
        /\ d.what = c.what /\ d.key = c.key /\ d.effort = c.effort /\ d.base = c.base
        /\ d.job = c.job /\ d.seen = c.seen /\ (~c.held => d = c)
    BY <1>1 DEF Orphan, Requested
  <1> HIDE DEF d
  <1>3. CallInv(d)'
    BY <1>2 DEF CallInv, Past
  <1>4. QED BY <1>2, <1>3 DEF d

\* A page that is left lets go of all its calls.
LEMMA NavigateFits ==
  ASSUME CallsInv, NEW p, Navigate(p)
  PROVE  /\ UNCHANGED jobs /\ lock' = {}
         /\ \A d \in calls' : \E c \in calls :
              /\ d = Orphan(c) /\ CallInv(c) /\ CallInv(d)'
              /\ ~d.held /\ d.op = c.op /\ d.page = c.page /\ d.st = c.st
              /\ d.what = c.what /\ d.effort = c.effort /\ d.base = c.base /\ (~c.held => d = c)
  <1>1. UNCHANGED jobs /\ lock' = {} /\ \A d \in calls' : \E c \in calls : d = Orphan(c)
    BY DEF Navigate, Orphaned, Orphan
  <1>2. \A c \in calls : CallInv(c)
    BY DEF CallsInv
  <1>3. QED BY <1>1, <1>2, OrphanFits

LEMMA CallsKept ==
  ASSUME StudioInv, StudioStep
  PROVE  CallsInv'
  <1>1. JobsInv /\ StoreMoves /\ CallsInv /\ RetryInv
    BY StoreMovesOnly DEF StudioInv
  <1>2. ASSUME UNCHANGED page, NEW d, CallInv(d) PROVE CallInv(d)'
    BY <1>1, <1>2, CallStays
  <1>3. ASSUME UNCHANGED page, \A d \in calls' : CallInv(d) PROVE CallsInv'
    BY <1>2, <1>3 DEF CallsInv
  <1>4. CASE UNCHANGED <<page, calls>>
    BY <1>1, <1>3, <1>4 DEF CallsInv
  <1>5. ASSUME NEW c, CallInv(c), Send(c), UNCHANGED page PROVE CallsInv'
    <2>1. \A d \in Pending(c.page, c.op) : CallInv(Let(d))
      BY <1>1, LetFits DEF Pending, CallsInv
    <2>2. QED BY <1>1, <1>3, <1>5, <2>1, SendFits DEF CallsInv
  <1>6. ASSUME NEW p \in SubmitPages, NEW source \in Sources, NEW what \in Contents,
               Submits(p, source, what)
        PROVE  CallsInv'
    BY <1>1, <1>5, <1>6, CreationFits DEF Submits
  <1>7. ASSUME NEW c, Posts(c) PROVE CallsInv'
    BY <1>5, <1>7 DEF Posts
  <1>8. ASSUME NEW c \in calls, Finishes(c) PROVE CallsInv'
    BY <1>1, <1>3, <1>8 DEF Finishes, CallsInv
  <1>9. ASSUME NEW S, LetsGo(S) PROVE CallsInv'
    BY <1>1, <1>3, <1>9, LetFits DEF LetsGo, CallsInv, Let
  <1>10. CASE Queue
    <2>1. UNCHANGED page /\ (calls' = calls \/ \E c \in calls : Served(c))
      BY <1>1, <1>10, QueueMoves DEF ServerOnly
    <2>2. QED BY <1>1, <1>2, <1>4, <2>1 DEF Served, Answers, CallsInv
  <1>11. CASE ListSteps
    BY <1>4, <1>11 DEF ListSteps, Poll, AnswerList, LandList, FailList
  <1>12. ASSUME NEW p \in Pages, Navigate(p) PROVE CallsInv'
    BY <1>1, <1>12, NavigateFits DEF CallsInv
  <1>13. CASE Edits
    BY <1>4, <1>13 DEF Edits
  <1>14. QED BY <1>6, <1>7, <1>8, <1>9, <1>10, <1>11, <1>12, <1>13 DEF StudioStep

-----------------------------------------------------------------------------
\* Locks.

LEMMA LockKept ==
  ASSUME StudioInv, StudioStep
  PROVE  LockInv'
  <1>1. LockInv /\ CallsInv /\ JobsInv /\ RetryInv
    BY DEF StudioInv
  <1>2. ASSUME lock' = lock, \A d \in calls' : Waiting(d) => d \in calls PROVE LockInv'
    BY <1>1, <1>2 DEF LockInv
  <1>3. CASE Edits
    BY <1>2, <1>3 DEF Edits
  <1>4. ASSUME NEW p \in SubmitPages, NEW source \in Sources, NEW what \in Contents,
               Submits(p, source, what)
        PROVE  LockInv'
    <2>1. PICK c : CallInv(c) /\ Send(c) /\ Waiting(c) /\ c.page = p /\ c.latest
      BY <1>1, <1>4, CreationFits
    <2>2. p \notin lock /\ lock' = lock \cup {p}
      BY <1>4 DEF Submits, Submit
    <2>3. \A d \in calls : Waiting(d) => d.page # p
      BY <1>1, <2>2 DEF LockInv
    <2>4. Pending(p, "create") = {} /\ c.op = "create"
      BY <2>1, <2>3 DEF Pending, Waiting
    <2>5. \A d \in calls' : d = c \/ d \in calls
      BY <1>1, <2>1, <2>4, SendFits
    <2>6. QED BY <1>1, <2>1, <2>2, <2>3, <2>5 DEF LockInv
  <1>5. ASSUME NEW c, Posts(c) PROVE LockInv'
    <2>1. CallInv(c) /\ Send(c) /\ c.op # "create" /\ lock' = lock
      BY <1>5 DEF Posts
    <2>2. \A d \in Pending(c.page, c.op) : Let(d).op = c.op
      BY <1>1, LetFits DEF Pending, CallsInv
    <2>3. \A d \in calls' : Waiting(d) => d \in calls
      BY <1>1, <2>1, <2>2, SendFits DEF Waiting
    <2>4. QED BY <1>2, <2>1, <2>3
  <1>6. ASSUME NEW c \in calls, Finishes(c) PROVE LockInv'
    <2>1. calls' = calls \ {c} /\ lock' = IF c.op = "create" THEN Unlocked(c) ELSE lock
      BY <1>6 DEF Finishes
    <2>2. ASSUME NEW d \in calls, d # c, Waiting(d) PROVE d.page \in lock'
      BY <1>1, <2>1, <2>2 DEF LockInv, Unlocked, Waiting
    <2>3. QED BY <1>1, <2>1, <2>2 DEF LockInv
  <1>7. ASSUME NEW S, LetsGo(S) PROVE LockInv'
    <2>1. /\ \A c \in S : c.op # "create" /\ lock' = lock
          /\ calls' = {IF c \in S THEN Let(c) ELSE c : c \in calls}
      BY <1>7 DEF LetsGo, Let
    <2>2. \A c \in calls : Let(c).op = c.op
      BY <1>1, LetFits DEF CallsInv
    <2>3. \A d \in calls' : Waiting(d) => d \in calls
      BY <2>1, <2>2 DEF Waiting
    <2>4. QED BY <1>2, <1>7, <2>3 DEF LetsGo
  <1>8. CASE Queue
    <2>1. lock' = lock /\ (calls' = calls \/ \E c \in calls : Served(c))
      BY <1>1, <1>8, QueueMoves DEF ServerOnly
    <2>2. CASE calls' = calls
      BY <1>2, <2>1, <2>2
    <2>3. ASSUME NEW c \in calls, NEW d, Answers(c, d) PROVE LockInv'
      <3>1. /\ calls' = (calls \ {c}) \cup {d} /\ (Waiting(d) <=> Waiting(c))
            /\ d.page = c.page /\ d.latest = c.latest
        BY <2>3 DEF Answers, Waiting
      <3>2. QED BY <1>1, <2>1, <3>1 DEF LockInv
    <2>4. QED BY <2>1, <2>2, <2>3 DEF Served
  <1>9. CASE ListSteps
    BY <1>2, <1>9 DEF ListSteps, Poll, AnswerList, LandList, FailList
  <1>10. ASSUME NEW p \in Pages, Navigate(p) PROVE LockInv'
    BY <1>1, <1>10, NavigateFits DEF LockInv, Waiting
  <1>11. QED BY <1>3, <1>4, <1>5, <1>6, <1>7, <1>8, <1>9, <1>10 DEF StudioStep

-----------------------------------------------------------------------------
LEMMA StudioKept ==
  ASSUME StudioInv, StudioStep
  PROVE  StudioInv'
  <1>1. page' \in Pages
    <2>1. CASE ListSteps
      BY <2>1 DEF ListSteps, Poll, AnswerList, LandList, FailList, StudioInv
    <2>2. CASE Queue
      BY <2>2, QueueMoves DEF ServerOnly, StudioInv
    <2>3. QED BY <2>1, <2>2
              DEF StudioStep, Edits, Submits, Posts, Finishes, LetsGo, Navigate, StudioInv
  <1>2. JobsInv' /\ OneJobPerEffort'
    BY StoreMovesOnly, JobsKept DEF StudioInv
  <1>3. QED BY <1>1, <1>2, RetryKept, ListKept, CallsKept, LockKept DEF StudioInv

\* The Studio opens with an empty queue, or with one ended job that nobody on the page asked for.
LEMMA StudioStarts ==
  ASSUME JobsInit, jobs = <<>> \/ \E w \in Contents : jobs = <<Made(w, "succeeded")>>
  PROVE  StudioInv
  <1>1. RetryInv
    BY DEF JobsInit, RetryInv, Matching
  <1>2. ListInv
    BY ViewsTyped DEF JobsInit, NoQuery, ListInv, CacheInv
  <1>3. CallsInv /\ LockInv /\ page \in Pages
    BY DEF JobsInit, CallsInv, LockInv, Pages
  <1>4. JobsInv /\ OneJobPerEffort
    <2>1. CASE jobs = <<>>
      BY <2>1, BoundsAssumption DEF JobsInv, OneJobPerEffort
    <2>2. ASSUME NEW w \in Contents, jobs = <<Made(w, "succeeded")>>
          PROVE  JobsInv /\ OneJobPerEffort
      <3>1. Made(w, "succeeded") \in Records /\ Made(w, "succeeded").key = Made(w, "succeeded").effort
        BY DEF Made, Records, Statuses, Settled
      <3>2. QED BY <2>2, <3>1, BoundsAssumption DEF JobsInv, OneJobPerEffort
    <2>3. QED BY <2>1, <2>2
  <1>5. QED BY <1>1, <1>2, <1>3, <1>4 DEF StudioInv
-----------------------------------------------------------------------------
\* Steps that all pages have.

LEMMA AcceptedFits ==
  ASSUME NEW c \in calls, c.op = "create", Accepted(c), CacheInv(list'), UNCHANGED <<page, jobs, drawn>>
  PROVE  Finishes(c)
  <1>1. RetryForgotten
    BY DEF Accepted, RetryForgotten
  <1>2. QED BY <1>1 DEF Accepted, Finishes

LEMMA RejectedFits ==
  ASSUME StudioInv, NEW c \in calls, c.op = "create", Rejected(c),
         UNCHANGED <<page, jobs, list, effort, drawn>>
  PROVE  Finishes(c)
  <1>1. retry' = retry
    BY DEF Rejected, RetryAfterError, StudioInv, RetryInv
  <1>2. QED BY <1>1 DEF Rejected, Finishes, RetryForgotten, StudioInv, ListInv

LEMMA AnsweredFits ==
  ASSUME StudioInv, NEW c \in calls, c.op # "create", calls' = calls \ {c}, CacheInv(list'),
         UNCHANGED <<page, jobs, lock, retry, effort, drawn>>
  PROVE  Finishes(c)
  BY DEF Finishes, RetryForgotten

\* A request about one job, or about none.
LEMMA CallPosted ==
  ASSUME StudioInv, NEW op \in {"cancel", "delete", "cleanup"}, NEW i \in Nat, Send(Call(page, op, i)),
         UNCHANGED <<page, jobs, list, lock, retry, effort, drawn>>
  PROVE  Posts(Call(page, op, i))
  <1> DEFINE c == Call(page, op, i)
  <1>1. c \in Requested /\ c.op = op /\ c.st = "sent" /\ c.page = page
    BY ViewsTyped DEF Call, Requested, StudioInv
  <1> HIDE DEF c
  <1>2. CallInv(c)
    BY <1>1 DEF CallInv
  <1>3. QED BY <1>1, <1>2 DEF Posts, c

LEMMA EditsOnly ==
  ASSUME UNCHANGED jobVars
  PROVE  StudioStep
  BY DEF jobVars, StudioStep, Edits, RetryForgotten

-----------------------------------------------------------------------------
(***************************************************************************)
(* The Generate page.                                                      *)
(***************************************************************************)
FormInv == form \in Forms /\ voices \in Seq(Voices)

\* A job the page was told of stands in its list as active while it is, and in the list that is
\* on its way.
Visible(q, i) == /\ q.data # NoData /\ q.data[i].status \in Live
                 /\ q.fetch = "answered" => q.answer[i].status \in Live
Known(i) == /\ i \in 1..Len(jobs)
            /\ jobs[i].status \in Live => Visible(list, i)
ToldInv == (told # {} => page = "generate") /\ \A i \in told : Known(i)

\* None of the jobs the page was told of is made from this and still active.
Fresh(what) == \A i \in told : ~(jobs[i].what = what /\ jobs[i].status \in Live)

TtsInv == StudioInv /\ FormInv /\ ToldInv

\* A form that takes a known voice, and the language that goes with it, is a form.
LEMMA VoiceTaken ==
  ASSUME NEW f \in Forms, NEW v \in Voices
  PROVE  [f EXCEPT !.voice = v, !.settings.tongue = NativeTongue[v]] \in Forms
  <1>1. NativeTongue[v] \in Tongues
    BY FormAssumption
  <1>2. [f.settings EXCEPT !.tongue = NativeTongue[v]] \in Settings
    BY <1>1 DEF Forms, Settings
  <1>3. QED BY <1>2 DEF Forms

LEMMA SelectionTyped ==
  ASSUME NEW f \in Forms, NEW vs \in Seq(Voices)
  PROVE  Selection(f, vs) \in Forms
  <1>1. CASE vs = <<>> \/ InList(f.voice, vs)
    BY <1>1 DEF Selection
  <1>2. CASE vs # <<>>
    <2>1. vs[1] \in Voices
      BY <1>2
    <2>2. QED BY <2>1, VoiceTaken DEF Selection
  <1>3. QED BY <1>1, <1>2

LEMMA RememberedTyped ==
  ASSUME NEW f \in Forms
  PROVE  Remembered(f) \in Forms
  <1> DEFINE t == IF f.voice = NoVoice THEN f.settings.tongue ELSE NativeTongue[f.voice]
  <1>1. t \in Tongues
    BY FormAssumption DEF Forms, Settings
  <1>2. [tongue |-> t, mode |-> DefaultMode] \in Settings
    BY <1>1, FormAssumption DEF Settings
  <1> HIDE DEF t
  <1>3. [f EXCEPT !.settings = [tongue |-> t, mode |-> DefaultMode]] \in Forms
    BY <1>2 DEF Forms
  <1>4. QED BY <1>3 DEF Remembered, t

\* The form is one the server may be asked for.
LEMMA FormKept ==
  ASSUME FormInv, [StudioNext]_ttsVars
  PROVE  FormInv'
  <1>1. CASE GenerateSteps
    <2>1. CASE EditScript \/ UseSample \/ TextImported
      <3>1. PICK s \in Scripts \cup {Blank} : form' = [form EXCEPT !.script = s]
        BY <2>1 DEF EditScript, UseSample, TextImported, Typed
      <3>2. form' \in Forms
        BY <3>1 DEF FormInv, Forms
      <3>3. QED BY <2>1, <3>2 DEF EditScript, UseSample, TextImported, EditOnly, FormInv
    <2>2. CASE ChangeSettings
      BY <2>2 DEF ChangeSettings, EditOnly, FormInv, Forms
    <2>3. CASE SelectVoice
      <3>1. PICK n \in 1..Len(voices) :
              form' = [form EXCEPT !.voice = voices[n], !.settings.tongue = NativeTongue[voices[n]]]
        BY <2>3 DEF SelectVoice
      <3>2. voices[n] \in Voices
        BY DEF FormInv
      <3>3. form' \in Forms
        BY <3>1, <3>2, VoiceTaken DEF FormInv
      <3>4. QED BY <2>3, <3>3 DEF SelectVoice, EditOnly, FormInv
    <2>4. CASE VoicesLand
      BY <2>4, SelectionTyped, VoiceListsAssumption DEF VoicesLand, FormInv
    <2>5. CASE Generate \/ \E c \in calls : RenderQueued(c) \/ RenderRefused(c)
      BY <2>5 DEF Generate, RenderQueued, RenderRefused, FormInv
    <2>6. QED BY <1>1, <2>1, <2>2, <2>3, <2>4, <2>5 DEF GenerateSteps
  <1>2. CASE OpenGenerate
    <2>1. PICK s \in Scripts \cup {form.script} : GenerateOpens(s)
      BY <1>2 DEF OpenGenerate
    <2>2. form' \in Forms
      BY <2>1 DEF GenerateOpens, FormInv, Forms
    <2>3. QED BY <2>1, <2>2 DEF GenerateOpens, FormInv
  <1>3. CASE LeaveGenerate
    BY <1>3, RememberedTyped DEF LeaveGenerate, GenerateLeft, FormInv
  <1>4. CASE UNCHANGED generateVars \/ UNCHANGED ttsVars
    BY <1>4 DEF generateVars, ttsVars, FormInv
  <1>5. QED BY <1>1, <1>2, <1>3, <1>4 DEF StudioNext

\* What the step of RenderQueued leaves in the list.
LEMMA QueuedFits ==
  ASSUME StudioInv, NEW c \in calls, RenderQueued(c)
  PROVE  /\ c.op = "create" /\ Past(c.job, c.seen) /\ c.seen \in Views
         /\ list' = Refreshed(Prepended(list, c.job, c.seen))
         /\ Finishes(c)
  <1>1. c.op = "create" /\ c.st = "answered" /\ CallInv(c)
    BY DEF RenderQueued, Succeeds, StudioInv, CallsInv
  <1>2. Past(c.job, c.seen) /\ c.seen \in Views
    BY <1>1 DEF CallInv, Requested
  <1>3. list' = Refreshed(Prepended(list, c.job, c.seen))
    BY DEF RenderQueued, AfterCreate
  <1>4. CacheInv(list')
    BY <1>2, <1>3, PrependedFits, CacheOps DEF StudioInv, ListInv, Past
  <1>5. QED BY <1>1, <1>2, <1>3, <1>4, AcceptedFits DEF RenderQueued

LEMMA TtsSteps ==
  ASSUME StudioInv, FormInv, [StudioNext]_ttsVars
  PROVE  StudioStep
  <1>1. CASE EditScript \/ UseSample \/ SelectVoice \/ ChangeSettings \/ TextImported \/ VoicesLand
    BY <1>1, EditsOnly DEF EditScript, UseSample, SelectVoice, ChangeSettings, TextImported, EditOnly,
       VoicesLand
  <1>2. CASE Generate
    <2>1. form \in Sources /\ Posted(form) \in Contents /\ "generate" \in SubmitPages
      BY ContentsAssumption DEF FormInv, Sources, SubmitPages
    <2>2. Submits("generate", form, Posted(form))
      BY <1>2 DEF Generate, OnGenerate, Submits
    <2>3. QED BY <2>1, <2>2 DEF StudioStep
  <1>3. ASSUME NEW c \in calls, RenderQueued(c) PROVE StudioStep
    BY <1>3, QueuedFits DEF StudioStep
  <1>4. ASSUME NEW c \in calls, RenderRefused(c) PROVE StudioStep
    BY <1>4, RejectedFits DEF RenderRefused, StudioStep
  <1>5. CASE Queue \/ ListSteps
    BY <1>5 DEF StudioStep
  <1>6. CASE OpenGenerate \/ LeaveGenerate
    <2>1. "generate" \in Pages /\ "other" \in Pages
      BY DEF Pages, SubmitPages
    <2>2. QED BY <1>6, <2>1 DEF OpenGenerate, LeaveGenerate, StudioStep
  <1>7. CASE UNCHANGED ttsVars
    BY <1>7, EditsOnly DEF ttsVars, jobVars
  <1>8. QED BY <1>1, <1>2, <1>3, <1>4, <1>5, <1>6, <1>7 DEF StudioNext, GenerateSteps

LEMMA VisibleStays ==
  ASSUME NEW q, CacheInv(q), NEW i, Visible(q, i)
  PROVE  /\ Visible(Fetched(q), i) /\ Visible(Invalidated(q), i) /\ Visible(Failed(q), i)
         /\ q.fetch = "answered" => Visible(Landed(q), i)
         /\ \A v : v[i].status \in Live => Visible(AnsweredWith(q, v), i)
  <1>1. q = [data |-> q.data, fetch |-> q.fetch, answer |-> q.answer]
    BY DEF CacheInv
  <1>2. QED BY <1>1 DEF Visible, CacheInv, Fetched, Invalidated, Failed, Landed, AnsweredWith
\* A job that was told of is told of still, whatever the step does to jobs and list.
LEMMA KnownStays ==
  ASSUME JobsInv, StoreMoves, NEW i, Known(i),
         jobs[i].status \in Live => (Visible(list, i) => Visible(list', i))
  PROVE  Known(i)'
  <1>1. i \in 1..Len(jobs) /\ i \in 1..Len(jobs') /\ (jobs'[i].status \in Live => jobs[i].status \in Live)
    BY DEF Known, JobsInv, StoreMoves, JobKept
  <1>2. Visible(list', i) => Visible(list, i)'
    BY DEF Visible
  <1>3. QED BY <1>1, <1>2 DEF Known

LEMMA ToldKept ==
  ASSUME TtsInv, [StudioNext]_ttsVars
  PROVE  ToldInv'
  <1>1. JobsInv /\ ListInv /\ ToldInv /\ CallsInv /\ CacheInv(list)
    BY DEF TtsInv, StudioInv, ListInv
  <1>2. StoreMoves
    BY TtsSteps, StoreMovesOnly DEF TtsInv
  <1>3. ASSUME UNCHANGED <<page, told>>, \A i \in told : Known(i)' PROVE ToldInv'
    BY <1>1, <1>3 DEF ToldInv
  <1>4. ASSUME UNCHANGED <<page, list, told>> PROVE ToldInv'
    <2>1. \A i \in told : Known(i)'
      BY <1>1, <1>2, <1>4, KnownStays DEF ToldInv
    <2>2. QED BY <1>3, <1>4, <2>1
  <1>5. CASE EditScript \/ UseSample \/ SelectVoice \/ ChangeSettings \/ TextImported \/ VoicesLand
             \/ Generate \/ (\E c \in calls : RenderRefused(c)) \/ UNCHANGED ttsVars
    BY <1>4, <1>5 DEF EditScript, UseSample, SelectVoice, ChangeSettings, TextImported, EditOnly,
       VoicesLand, Generate, RenderRefused, jobVars, ttsVars
  <1>6. ASSUME NEW c \in calls, RenderQueued(c) PROVE ToldInv'
    <2> DEFINE q == Prepended(list, c.job, c.seen)
    <2>1. /\ Past(c.job, c.seen) /\ c.seen \in Views /\ c.job \in 1..Len(jobs)
          /\ list' = Refreshed(q) /\ UNCHANGED <<page, jobs>>
          /\ told' = IF c.held THEN told \cup {c.job} ELSE told
      BY <1>6, QueuedFits DEF RenderQueued, TtsInv, Past
    <2>2. c.held => page = "generate"
      BY <1>1, <1>6 DEF RenderQueued, CallsInv, CallInv
    <2>3. CASE told' = {}
      BY <2>3 DEF ToldInv
    <2>4. CASE told' # {}
      <3>1. page = "generate"
        BY <1>1, <2>1, <2>2, <2>4 DEF ToldInv
      <3>2. q.data \in Listings /\ q.data # NoData
        BY <1>1, <2>1, PrependedFits, ViewsTyped
      <3>3. list' = Invalidated(q)
        BY <2>1, <3>1 DEF Refreshed, Observed
      <3> HIDE DEF q
      <3>4. list'.data = q.data /\ list'.fetch = "asked"
        <4>1. CacheInv(q)
          BY <1>1, <2>1, PrependedFits DEF q
        <4>2. QED BY <3>2, <3>3, <4>1 DEF Invalidated, CacheInv
      <3>5. ASSUME NEW i \in told' PROVE Known(i)'
        <4>1. CASE i = c.job
          <5>1. q.data[i] = c.seen
            BY <1>1, <2>1, <4>1, PrependedFits DEF q
          <5>2. QED BY <2>1, <3>2, <3>4, <4>1, <5>1 DEF Known, Visible, Past
        <4>2. CASE i # c.job
          <5>1. i \in told /\ Known(i)
            BY <1>1, <2>1, <3>5, <4>2 DEF ToldInv
          <5>2. i \in JobIds \ {c.job}
            BY <1>1, <4>2, <5>1, BoundsAssumption DEF Known, JobsInv, JobIds
          <5>3. list.data # NoData => q.data[i] = list.data[i]
            BY <1>1, <2>1, <5>2, PrependedFits DEF q
          <5>4. QED BY <2>1, <3>2, <3>4, <5>1, <5>3 DEF Known, Visible
        <4>3. QED BY <4>1, <4>2
      <3>6. QED BY <2>1, <3>1, <3>5 DEF ToldInv
    <2>5. QED BY <2>3, <2>4
  <1>7. CASE Queue /\ UNCHANGED generateVars
    <2>1. UNCHANGED <<page, list, told>>
      BY <1>1, <1>7, QueueMoves DEF ServerOnly, generateVars
    <2>2. QED BY <1>4, <2>1
  <1>8. CASE ListSteps /\ UNCHANGED generateVars
    <2>1. UNCHANGED <<page, jobs, told>>
      BY <1>8 DEF ListSteps, Poll, AnswerList, LandList, FailList, generateVars
    <2>2. ASSUME NEW i, i \in 1..Len(jobs), jobs[i].status \in Live, Visible(list, i)
          PROVE  Visible(list', i)
      <3>1. CASE Poll \/ LandList \/ FailList
        BY <1>1, <2>2, <3>1, VisibleStays DEF Poll, LandList, FailList
      <3>2. CASE AnswerList
        BY <1>1, <2>2, <3>2, VisibleStays, ListedFits DEF AnswerList
      <3>3. QED BY <1>8, <3>1, <3>2 DEF ListSteps
    <2>3. \A i \in told : Known(i)'
      BY <1>1, <1>2, <2>2, KnownStays DEF ToldInv, Known
    <2>4. QED BY <1>3, <2>1, <2>3
  <1>9. CASE OpenGenerate \/ LeaveGenerate
    BY <1>9 DEF OpenGenerate, LeaveGenerate, GenerateOpens, GenerateLeft, ToldInv
  <1>10. QED BY <1>5, <1>6, <1>7, <1>8, <1>9 DEF StudioNext, GenerateSteps

\* What handleGenerate() submits is nothing the page was told of, which is all in its list, if it
\* comes back as it was sent: then findActiveRenderJob() knows it again.
LEMMA GeneratesFresh ==
  ASSUME TtsInv, Generate, ReturnsAsSent(form)
  PROVE  Fresh(Posted(form))
  <1>1. ASSUME NEW i \in told, jobs[i].status \in Live PROVE Shown(i).status \in Live /\ i \in JobIds
    BY <1>1, BoundsAssumption DEF TtsInv, StudioInv, ToldInv, Known, Visible, Shown, JobsInv, JobIds
  <1>2. \A i \in JobIds : Shown(i).status \in Live => jobs[i].what # form
    BY DEF Generate, CanGenerate, ActiveRequestJob
  <1>3. QED BY <1>1, <1>2 DEF Fresh, ReturnsAsSent

\* The calls of a step that submit something: those there were, or the one Generate makes.
LEMMA AskingMoves ==
  ASSUME TtsInv, [StudioNext]_ttsVars, ~(OpenGenerate \/ LeaveGenerate)
  PROVE  \A d \in calls' : (d.op = "create" /\ d.page = "generate" /\ d.st = "sent") =>
            d \in calls \/ (Generate /\ d.what = Posted(form))
  <1>1. JobsInv /\ CallsInv /\ LockInv /\ RetryInv
    BY DEF TtsInv, StudioInv
  <1>2. CASE Generate
    <2>1. form \in Sources /\ Posted(form) \in Contents /\ "generate" \in SubmitPages
      BY ContentsAssumption DEF TtsInv, FormInv, Sources, SubmitPages
    <2>2. Submits("generate", form, Posted(form))
      BY <1>2 DEF Generate, OnGenerate, Submits
    <2>3. PICK c : CallInv(c) /\ Send(c) /\ Waiting(c) /\ c.page = "generate" /\ c.what = Posted(form)
      BY <1>1, <2>1, <2>2, CreationFits
    <2>4. Pending("generate", "create") = {}
      BY <1>1, <2>2 DEF Submits, Submit, LockInv, Pending, Waiting
    <2>5. \A d \in calls' : d = c \/ d \in calls
      BY <1>1, <2>3, <2>4, SendFits DEF Waiting
    <2>6. QED BY <1>2, <2>3, <2>5
  <1>3. CASE Queue
    <2>1. calls' = calls \/ \E c \in calls : Served(c)
      BY <1>1, <1>3, QueueMoves
    <2>2. QED BY <2>1 DEF Served, Answers
  <1>4. CASE calls' \subseteq calls
    BY <1>4
  <1>5. CASE ListSteps
    BY <1>5 DEF ListSteps, Poll, AnswerList, LandList, FailList
  <1>6. QED BY <1>2, <1>3, <1>4, <1>5 DEF StudioNext, GenerateSteps, EditScript, UseSample, SelectVoice,
       ChangeSettings, TextImported, EditOnly, VoicesLand, RenderQueued, RenderRefused, Accepted, Rejected,
       jobVars, ttsVars

LEMMA TtsKept ==
  ASSUME TtsInv, [StudioNext]_ttsVars
  PROVE  TtsInv'
  BY TtsSteps, StudioKept, FormKept, ToldKept DEF TtsInv

LEMMA TtsStarts ==
  ASSUME StudioInit
  PROVE  TtsInv
  <1>1. StudioInv
    BY StudioStarts DEF StudioInit
  <1>2. DefaultMode \in Modes
    BY FormAssumption
  <1>3. FormInv /\ ToldInv
    BY <1>2 DEF StudioInit, GenerateInit, FormInv, Forms, Settings, ToldInv
  <1>4. QED BY <1>1, <1>3 DEF TtsInv

\* A request sent again after an error, refused or unanswered, never makes a second job.
THEOREM EffortsMakeOneJob == TtsSpec => []OneJobPerEffort
  <1>1. TtsInv => OneJobPerEffort
    BY DEF TtsInv, StudioInv
  <1>2. QED BY <1>1, TtsStarts, TtsKept, PTL DEF TtsSpec

\* While it stays open, the Generate page submits no form for which it has been told of a job that
\* is still active, if the job comes back with the text that was sent: such a job stays in its list,
\* also when older lists land (setQueryData, invalidateQueries).
THEOREM NoRenderTwice == TtsSpec => NoSecondRender
  <1> DEFINE Step == \A c \in calls' \ calls :
                       (c.op = "create" /\ c.page = "generate" /\ c.held /\ c.st = "sent"
                          /\ ReturnsAsSent(form))
                         => ~\E i \in told : jobs[i].what = c.what /\ jobs[i].status \in Live
  <1>1. ASSUME TtsInv, [StudioNext]_ttsVars PROVE Step
    <2>1. CASE OpenGenerate \/ LeaveGenerate
      <3>1. \A d \in calls' : ~d.held
        BY <1>1, <2>1, NavigateFits DEF OpenGenerate, LeaveGenerate, TtsInv, StudioInv
      <3>2. QED BY <3>1
    <2>2. CASE ~(OpenGenerate \/ LeaveGenerate)
      BY <1>1, <2>2, AskingMoves, GeneratesFresh DEF Fresh
    <2>3. QED BY <2>1, <2>2
  <1>2. TtsInv /\ [StudioNext]_ttsVars => [Step]_ttsVars
    BY <1>1
  <1>3. QED BY <1>2, TtsStarts, TtsKept, PTL DEF TtsSpec, NoSecondRender
-----------------------------------------------------------------------------
(***************************************************************************)
(* The Jobs page.                                                          *)
(***************************************************************************)
QueueInv == StudioInv /\ target \in Nat

LEMMA ListedJob ==
  ASSUME JobsInv, ListInv, NEW i \in JobIds, Shown(i) # Absent
  PROVE  /\ i \in 1..Len(jobs) /\ jobs[i] \in Records
         /\ Shown(i) = list.data[i] /\ list.data # NoData /\ list.data \in Listings
  <1>1. Shown(i) = list.data[i] /\ list.data # NoData /\ list.data \in Listings
    BY DEF Shown, ListInv, CacheInv
  <1>2. i <= Len(jobs)
    BY <1>1 DEF ListInv, CacheInv, Accurate
  <1>3. QED BY <1>1, <1>2, BoundsAssumption DEF JobIds, JobsInv

LEMMA RunAgainSubmits ==
  ASSUME StudioInv, RunAgain
  PROVE  \E p \in SubmitPages, source \in Sources, what \in Contents : Submits(p, source, what)
  <1>1. inspected \in JobIds /\ Shown(inspected) # Absent
    BY DEF RunAgain, Inspecting, Listing
  <1>2. jobs[inspected].what \in Contents
    BY <1>1, ListedJob DEF StudioInv, Records
  <1>3. inspected \in Sources /\ "jobs" \in SubmitPages
    BY <1>1, BoundsAssumption DEF JobIds, Sources, SubmitPages
  <1>4. Submits("jobs", inspected, jobs[inspected].what)
    BY DEF RunAgain, OnJobs, Submits
  <1>5. QED BY <1>2, <1>3, <1>4

LEMMA QueueSteps ==
  ASSUME QueueInv, [QueueNext]_queueVars
  PROVE  StudioStep
  <1>1. StudioInv /\ CacheInv(list)
    BY DEF QueueInv, StudioInv, ListInv
  <1>2. CASE JobsViewUser
    <2>1. ASSUME NEW i \in JobIds, Inspect(i) \/ AskDelete(i) PROVE StudioStep
      BY <2>1, EditsOnly DEF Inspect, AskDelete, LocalOnly
    <2>2. CASE CloseInspector \/ CloseDelete \/ AskCleanup \/ CloseCleanup
      BY <2>2, EditsOnly DEF CloseInspector, CloseDelete, AskCleanup, CloseCleanup, LocalOnly
    <2>3. ASSUME NEW op \in {"cancel", "delete", "cleanup"}, NEW i \in Nat,
                 OnJobs, Send(Call("jobs", op, i)), CallOnly
          PROVE  StudioStep
      BY <1>1, <2>3, CallPosted DEF OnJobs, CallOnly, StudioStep
    <2>4. ASSUME NEW i \in JobIds, CancelJob(i) PROVE StudioStep
      <3>1. i \in Nat
        BY BoundsAssumption DEF JobIds
      <3>2. QED BY <2>3, <2>4, <3>1 DEF CancelJob
    <2>5. CASE ConfirmDelete
      BY <2>3, <2>5 DEF ConfirmDelete, QueueInv
    <2>6. CASE ConfirmCleanup
      BY <2>3, <2>6 DEF ConfirmCleanup
    <2>7. CASE RunAgain
      BY <1>1, <2>7, RunAgainSubmits DEF StudioStep
    <2>8. CASE Refresh
      <3>1. calls = {IF c \in {} THEN [c EXCEPT !.latest = FALSE] ELSE c : c \in calls}
        OBVIOUS
      <3>2. LetsGo({})
        BY <1>1, <2>8, <3>1, CacheOps DEF Refresh, LetsGo
      <3>3. QED BY <3>2 DEF StudioStep
    <2>9. QED BY <1>2, <2>1, <2>2, <2>4, <2>5, <2>6, <2>7, <2>8 DEF JobsViewUser
  <1>3. ASSUME NEW c \in calls, JobCancelled(c) \/ JobDeleted(c) \/ QueueCleaned(c) \/ ActionFailed(c)
        PROVE  StudioStep
    <2>1. /\ c.op # "create" /\ calls' = calls \ {c} /\ (list' = Refreshed(list) \/ list' = list)
          /\ UNCHANGED <<page, jobs, lock, retry, effort, drawn>>
      BY <1>3 DEF JobCancelled, JobDeleted, QueueCleaned, ActionFailed, OfJobs
    <2>2. Finishes(c)
      BY <1>1, <2>1, CacheOps, AnsweredFits
    <2>3. QED BY <2>2 DEF StudioStep
  <1>4. ASSUME NEW c \in calls, RunAgainAccepted(c) PROVE StudioStep
    <2>1. Finishes(c)
      BY <1>1, <1>4, CacheOps, AcceptedFits DEF RunAgainAccepted, OfJobs
    <2>2. QED BY <2>1 DEF StudioStep
  <1>5. ASSUME NEW c \in calls, RunAgainFailed(c) PROVE StudioStep
    BY <1>1, <1>5, RejectedFits DEF RunAgainFailed, OfJobs, StudioStep
  <1>6. CASE Queue \/ ListSteps
    BY <1>6 DEF StudioStep
  <1>7. CASE JobsMove("jobs") \/ JobsMove("other")
    <2>1. "jobs" \in Pages /\ "other" \in Pages
      BY DEF Pages, SubmitPages
    <2>2. QED BY <1>7, <2>1 DEF JobsMove, StudioStep
  <1>8. CASE UNCHANGED queueVars
    BY <1>8, EditsOnly DEF queueVars, jobVars
  <1>9. QED BY <1>2, <1>3, <1>4, <1>5, <1>6, <1>7, <1>8 DEF QueueNext, JobsViewAnswers

LEMMA QueueKept ==
  ASSUME QueueInv, [QueueNext]_queueVars
  PROVE  QueueInv'
  <1>1. StudioInv'
    BY QueueSteps, StudioKept DEF QueueInv
  <1>2. target' = target \/ target' = 0 \/ target' \in JobIds
    BY DEF QueueNext, JobsViewUser, Inspect, CancelJob, AskDelete, CloseInspector, CloseDelete,
       ConfirmDelete, AskCleanup, CloseCleanup, ConfirmCleanup, RunAgain, Refresh, JobsViewAnswers,
       JobCancelled, JobDeleted, QueueCleaned, ActionFailed, RunAgainAccepted, RunAgainFailed, Closed,
       JobsMove, JobsViewReset, jobsViewVars, queueVars
  <1>3. target' \in Nat
    BY <1>2, BoundsAssumption DEF QueueInv, JobIds
  <1>4. QED BY <1>1, <1>3 DEF QueueInv

\* Running a job again, and again after an error, makes one job of it.
THEOREM RunsAgainOnce == QueueSpec => []OneJobPerEffort
  <1>1. QueueInit => QueueInv
    BY StudioStarts DEF QueueInit, JobsViewInit, QueueInv
  <1>2. QueueInv => OneJobPerEffort
    BY DEF QueueInv, StudioInv
  <1>3. QED BY <1>1, <1>2, QueueKept, PTL DEF QueueSpec

-----------------------------------------------------------------------------
(***************************************************************************)
(* The Transcribe page.                                                    *)
(***************************************************************************)

\* While an upload is on its way the page still stages what was uploaded, and shows no other
\* job as accepted.
UploadFits(c) == /\ c.page = "transcribe"
                 /\ c.held => staged = c.what.file /\ accepted = NothingAccepted
UploadsInv == \A c \in calls : c.op = "create" => UploadFits(c)
AsrInv == StudioInv /\ staged \in Files \cup {NoFile} /\ UploadsInv

LEMMA UploadedFits ==
  ASSUME StudioInv, NEW c \in calls, UploadAccepted(c)
  PROVE  Finishes(c)
  <1>1. c.op = "create" /\ c.st = "answered" /\ CallInv(c)
    BY DEF UploadAccepted, OfTranscribe, Succeeds, StudioInv, CallsInv
  <1>2. c.job \in 1..Len(jobs) /\ c.seen \in Views
    BY <1>1 DEF CallInv, Past, Requested
  <1>3. CacheInv(list')
    BY <1>2, PrependedFits, CacheOps DEF UploadAccepted, StudioInv, ListInv
  <1>4. QED BY <1>1, <1>3, AcceptedFits DEF UploadAccepted

LEMMA UploadSubmits ==
  ASSUME AsrInv, QueueSelectedFile
  PROVE  LET r == [file |-> staged, language |-> language]
         IN Submits("transcribe", r, r) /\ r \in Contents /\ r \in Sources /\ "transcribe" \in SubmitPages
  <1> DEFINE r == [file |-> staged, language |-> language]
  <1>1. r \in Contents
    BY RecognisedAssumption, RequestsAssumption DEF QueueSelectedFile, AsrInv, Requests
  <1>2. Submits("transcribe", r, r)
    BY DEF QueueSelectedFile, OnTranscribe, Submits
  <1>3. QED BY <1>1, <1>2 DEF Sources, SubmitPages

LEMMA AsrSteps ==
  ASSUME AsrInv, [AsrNext]_asrVars
  PROVE  StudioStep
  <1>1. StudioInv /\ CacheInv(list)
    BY DEF AsrInv, StudioInv, ListInv
  <1>2. ASSUME NEW f, Stage(f) PROVE StudioStep
    BY <1>2 DEF Stage, StudioStep, Edits, RetryForgotten
  <1>3. ASSUME NEW l, SelectLanguage(l) PROVE StudioStep
    BY <1>3, EditsOnly DEF SelectLanguage, jobVars
  <1>4. CASE QueueSelectedFile
    BY <1>4, UploadSubmits DEF StudioStep
  <1>5. ASSUME NEW i \in JobIds, CancelTranscription(i) PROVE StudioStep
    <2>1. i \in Nat
      BY BoundsAssumption DEF JobIds
    <2>2. QED BY <1>1, <1>5, <2>1, CallPosted DEF CancelTranscription, OnTranscribe, StudioStep
  <1>6. ASSUME NEW p \in {"transcribe", "other"}, Navigate(p) PROVE StudioStep
    <2>1. p \in Pages
      BY DEF Pages, SubmitPages
    <2>2. QED BY <1>6, <2>1 DEF StudioStep
  <1>7. ASSUME NEW c \in calls, UploadAccepted(c) PROVE StudioStep
    BY <1>1, <1>7, UploadedFits DEF StudioStep
  <1>8. ASSUME NEW c \in calls, UploadFailed(c) PROVE StudioStep
    BY <1>1, <1>8, RejectedFits DEF UploadFailed, OfTranscribe, StudioStep
  <1>9. ASSUME NEW c \in calls, Cancelled(c) \/ CancelFailed(c) PROVE StudioStep
    <2>1. /\ c.op # "create" /\ calls' = calls \ {c} /\ (list' = Refreshed(list) \/ list' = list)
          /\ UNCHANGED <<page, jobs, lock, retry, effort, drawn>>
      BY <1>9 DEF Cancelled, CancelFailed, OfTranscribe
    <2>2. Finishes(c)
      BY <1>1, <2>1, CacheOps, AnsweredFits
    <2>3. QED BY <2>2 DEF StudioStep
  <1>10. CASE Queue \/ ListSteps
    BY <1>10 DEF StudioStep
  <1>11. CASE UNCHANGED asrVars
    BY <1>11, EditsOnly DEF asrVars, jobVars
  <1>12. QED BY <1>2, <1>3, <1>4, <1>5, <1>6, <1>7, <1>8, <1>9, <1>10, <1>11
             DEF AsrNext, TranscribeSteps, SendToGenerate, OpenTranscribe, LeaveTranscribe

\* Nothing else is staged while the page waits.
LEMMA WaitingStages ==
  ASSUME AsrInv, NEW c \in calls, Waiting(c)
  PROVE  Uploading
  BY DEF AsrInv, UploadsInv, StudioInv, LockInv, UploadFits, Waiting, Uploading, Followed, Pending

LEMMA UploadsKept ==
  ASSUME AsrInv, [AsrNext]_asrVars
  PROVE  UploadsInv'
  <1>1. StudioInv /\ CallsInv /\ LockInv /\ RetryInv /\ JobsInv
    BY DEF AsrInv, StudioInv
  <1>2. ASSUME UNCHANGED <<staged, accepted>>, \A d \in calls' : d.op = "create" => d \in calls PROVE UploadsInv'
    BY <1>2 DEF AsrInv, UploadsInv, UploadFits
  <1>3. ASSUME \A c \in calls : ~Waiting(c), \A d \in calls' : d.op = "create" => d \in calls PROVE UploadsInv'
    BY <1>3 DEF AsrInv, UploadsInv, UploadFits, Waiting
  <1>4. ASSUME NEW f, Stage(f) PROVE UploadsInv'
    <2>1. \A c \in calls : ~Waiting(c)
      BY <1>4, WaitingStages DEF Stage, CanStage
    <2>2. QED BY <1>3, <1>4, <2>1 DEF Stage
  <1>5. ASSUME NEW l, SelectLanguage(l) PROVE UploadsInv'
    BY <1>2, <1>5 DEF SelectLanguage, jobVars
  <1>6. CASE QueueSelectedFile
    <2> DEFINE r == [file |-> staged, language |-> language]
    <2>1. Submits("transcribe", r, r) /\ r \in Contents /\ r \in Sources /\ "transcribe" \in SubmitPages
      BY <1>6, UploadSubmits
    <2>2. r.file = staged
      OBVIOUS
    <2> HIDE DEF r
    <2>3. PICK c : CallInv(c) /\ Send(c) /\ Waiting(c) /\ c.page = "transcribe" /\ c.what = r
      BY <1>1, <2>1, CreationFits
    <2>4. \A d \in calls : ~Waiting(d)
      BY <1>6, WaitingStages DEF QueueSelectedFile
    <2>5. Pending("transcribe", "create") = {}
      BY <2>4 DEF Pending, Waiting
    <2>6. \A d \in calls' : d = c \/ d \in calls
      BY <1>1, <2>3, <2>5, SendFits DEF Waiting
    <2>7. QED BY <1>6, <2>2, <2>3, <2>4, <2>6 DEF AsrInv, UploadsInv, UploadFits, Waiting, QueueSelectedFile
  <1>7. ASSUME NEW i \in JobIds, CancelTranscription(i) PROVE UploadsInv'
    <2> DEFINE c == Call("transcribe", "cancel", i)
    <2>1. Posts(c)
      <3>1. i \in Nat
        BY BoundsAssumption DEF JobIds
      <3>2. QED BY <1>1, <1>7, <3>1, CallPosted DEF CancelTranscription, OnTranscribe
    <2> HIDE DEF c
    <2>2. \A d \in Pending(c.page, c.op) : Let(d).op = c.op
      BY <1>1, LetFits DEF Pending, CallsInv
    <2>3. \A d \in calls' : d.op = "create" => d \in calls
      BY <1>1, <2>1, <2>2, SendFits DEF Posts
    <2>4. QED BY <1>2, <1>7, <2>3 DEF CancelTranscription, transcribeVars
  <1>8. ASSUME NEW p, Navigate(p) PROVE UploadsInv'
    BY <1>1, <1>8, NavigateFits DEF AsrInv, UploadsInv, UploadFits
  <1>9. ASSUME NEW c \in calls, UploadAccepted(c) PROVE UploadsInv'
    <2>1. calls' = calls \ {c} /\ c.op = "create" /\ c.page = "transcribe"
      BY <1>9 DEF UploadAccepted, Accepted, OfTranscribe
    <2>2. CASE ~c.held
      BY <1>2, <1>9, <2>1, <2>2 DEF UploadAccepted
    <2>3. CASE c.held
      BY <1>1, <2>1, <2>3 DEF LockInv, Waiting, AsrInv, UploadsInv, UploadFits
    <2>4. QED BY <2>2, <2>3
  <1>10. ASSUME NEW c \in calls, UploadFailed(c) \/ Cancelled(c) \/ CancelFailed(c) PROVE UploadsInv'
    BY <1>2, <1>10 DEF UploadFailed, Rejected, Cancelled, CancelFailed, transcribeVars
  <1>11. CASE Queue /\ UNCHANGED transcribeVars
    <2>1. calls' = calls \/ \E c \in calls : Served(c)
      BY <1>1, <1>11, QueueMoves
    <2>2. QED BY <1>11, <2>1 DEF Served, Answers, AsrInv, UploadsInv, UploadFits, transcribeVars
  <1>12. CASE ListSteps /\ UNCHANGED transcribeVars
    BY <1>2, <1>12 DEF ListSteps, Poll, AnswerList, LandList, FailList, transcribeVars
  <1>13. CASE UNCHANGED asrVars
    BY <1>2, <1>13 DEF asrVars
  <1>14. QED
    BY <1>4, <1>5, <1>6, <1>7, <1>8, <1>9, <1>10, <1>11, <1>12, <1>13
       DEF AsrNext, TranscribeSteps, SendToGenerate, OpenTranscribe, LeaveTranscribe

LEMMA AsrKept ==
  ASSUME AsrInv, [AsrNext]_asrVars
  PROVE  AsrInv'
  <1>1. staged' \in Files \cup {NoFile}
    BY DEF AsrInv, AsrNext, TranscribeSteps, Stage, SelectLanguage, QueueSelectedFile, CancelTranscription,
       SendToGenerate, UploadAccepted, UploadFailed, Cancelled, CancelFailed, OpenTranscribe,
       TranscribeOpens, LeaveTranscribe, TranscribeLeft, transcribeVars, asrVars
  <1>2. QED BY <1>1, AsrSteps, StudioKept, UploadsKept DEF AsrInv

LEMMA AsrStarts ==
  ASSUME AsrInit
  PROVE  AsrInv
  BY StudioStarts DEF AsrInit, JobsInit, TranscribeInit, AsrInv, UploadsInv

\* An upload sent again after an error makes one job.
THEOREM UploadsOnce == AsrSpec => []OneJobPerEffort
  <1>1. AsrInv => OneJobPerEffort
    BY DEF AsrInv, StudioInv
  <1>2. QED BY <1>1, AsrStarts, AsrKept, PTL DEF AsrSpec

\* The answer to an upload takes away the recording that was uploaded and no other.
THEOREM UploadsTakeTheirOwn == AsrSpec => AcceptedTakesItsOwn
  <1> DEFINE Step == \A c \in calls :
                       (c.op = "create" /\ c.held /\ c.st = "answered" /\ c \notin calls' /\ accepted'.job = c.job)
                         => staged \in {c.what.file, NoFile}
  <1>1. ASSUME AsrInv, [AsrNext]_asrVars PROVE Step
    BY <1>1 DEF AsrInv, UploadsInv, UploadFits
  <1>2. AsrInv /\ [AsrNext]_asrVars => [Step]_asrVars
    BY <1>1
  <1>3. QED BY <1>2, AsrStarts, AsrKept, PTL DEF AsrSpec, AcceptedTakesItsOwn
-----------------------------------------------------------------------------
(***************************************************************************)
(* The transcript editor.                                                  *)
(***************************************************************************)

\* What is being edited was taken over from the revision that is listed now, and a save names
\* as its base the revision its text was taken from.
Drafts == [editing : BOOLEAN, changed : BOOLEAN, valid : BOOLEAN, from : Nat]
DraftInv == /\ reviewing \in JobIds \cup {0} /\ draft \in Drafts
            /\ draft.editing => Job # Absent /\ draft.from = Job.rev
SavesInv == \A c \in calls : c.op = "revise" => c.effort = c.base
EditorInv == StudioInv /\ DraftInv /\ SavesInv

LEMMA JobTyped ==
  ASSUME StudioInv, reviewing \in JobIds \cup {0}
  PROVE  Job \in Views
  <1>1. CASE reviewing = 0 \/ list.data = NoData
    BY <1>1, ViewsTyped DEF Job, Shown
  <1>2. CASE reviewing # 0 /\ list.data # NoData
    BY <1>2 DEF Job, Shown, StudioInv, ListInv, CacheInv, Listings
  <1>3. QED BY <1>1, <1>2

LEMMA NoDraftTyped == NoDraft \in Drafts /\ ~NoDraft.editing
  BY DEF NoDraft, Drafts

\* The effect on the listed job keeps the draft only where the revision is the same.
LEMMA EffectKeeps ==
  ASSUME EditorInv, UNCHANGED reviewing,
         \/ DialogEffect(DraftStays)
         \/ DialogEffect(draft' = [draft EXCEPT !.editing = FALSE] /\ warned' = FALSE)
  PROVE  DraftInv'
  <1>1. JobAfter = Job'
    BY DEF JobAfter, Job, Shown
  <1>2. CASE Replaced(Job, JobAfter)
    BY <1>2, NoDraftTyped DEF DialogEffect, EditorInv, DraftInv
  <1>3. CASE ~Replaced(Job, JobAfter)
    <2>1. Job'.rev = Job.rev /\ (Job = Absent <=> Job' = Absent)
      BY <1>1, <1>3 DEF Replaced, Another
    <2>2. CASE draft' = draft
      BY <2>1, <2>2 DEF EditorInv, DraftInv
    <2>3. CASE draft' = [draft EXCEPT !.editing = FALSE]
      <3>1. draft' \in Drafts /\ ~draft'.editing
        BY <2>3 DEF EditorInv, DraftInv, Drafts
      <3>2. QED BY <3>1 DEF EditorInv, DraftInv
    <2>4. QED BY <1>3, <2>2, <2>3 DEF DialogEffect, DraftStays
  <1>4. QED BY <1>2, <1>3

LEMMA SavedFits ==
  ASSUME StudioInv, NEW c \in calls, Saved(c)
  PROVE  Finishes(c)
  <1>1. c.op = "revise" /\ c.st = "answered" /\ CallInv(c) /\ CacheInv(list) /\ JobsInv
    BY DEF Saved, Succeeds, StudioInv, CallsInv, ListInv
  <1>2. c.job \in 1..Len(jobs) /\ c.job \in JobIds /\ c.seen \in Views
    BY <1>1, BoundsAssumption DEF CallInv, Past, Requested, JobsInv, JobIds
  <1>3. CacheInv(list')
    <2>1. CASE Shown(c.job) = Absent
      BY <1>1, <2>1 DEF Saved
    <2>2. CASE Shown(c.job) # Absent
      <3> DEFINE v == [list.data EXCEPT ![c.job] = c.seen]
      <3>1. list.data \in Listings /\ Accurate(list.data)
        BY <1>1, <1>2, <2>2, ListedJob DEF StudioInv, CacheInv
      <3>2. v \in Listings /\ Accurate(v)
        BY <1>2, <3>1 DEF Listings, Accurate
      <3>3. list' = WithData(list, v)
        BY <2>2 DEF Saved
      <3>4. QED BY <1>1, <3>2, <3>3, CacheOps
    <2>3. QED BY <2>1, <2>2
  <1>4. QED BY <1>1, <1>3, AnsweredFits DEF Saved

LEMMA SavePosts ==
  ASSUME EditorInv, Save
  PROVE  \E c : Posts(c) /\ c.op = "revise" /\ c.effort = c.base
  <1> DEFINE c == [Call(page, "revise", reviewing) EXCEPT !.base = Job.rev, !.effort = draft.from]
  <1>1. draft.from = Job.rev /\ Job.rev \in Nat /\ reviewing \in Nat /\ page \in Pages
    BY JobTyped, BoundsAssumption
       DEF Save, CanSave, Dirty, EditorInv, DraftInv, StudioInv, Views, JobIds
  <1>2. Send(c) /\ UNCHANGED <<page, jobs, list, lock, retry, effort, drawn>>
    BY DEF Save, NoCall
  <1>3. /\ c \in Requested /\ c.op = "revise" /\ c.st = "sent" /\ c.page = page
        /\ c.effort = draft.from /\ c.base = Job.rev
    BY <1>1, ViewsTyped DEF Call, Requested
  <1> HIDE DEF c
  <1>4. Posts(c)
    BY <1>2, <1>3 DEF Posts, CallInv
  <1>5. QED BY <1>1, <1>3, <1>4

LEMMA LetGoFits ==
  ASSUME LetGo, CacheInv(list'), UNCHANGED <<page, jobs, lock, retry, effort, drawn>>
  PROVE  LetsGo(Pending(page, "revise"))
  BY DEF LetGo, LetsGo, Pending

LEMMA EditorSteps ==
  ASSUME EditorInv, [EditorNext]_editorVars
  PROVE  StudioStep
  <1>1. StudioInv /\ CacheInv(list)
    BY DEF EditorInv, StudioInv, ListInv
  <1>2. ASSUME NEW i \in JobIds, OpenReview(i) PROVE StudioStep
    BY <1>2, EditsOnly DEF OpenReview, Review
  <1>3. CASE Type \/ RequestClose \/ KeepEditing \/ DiscardAndClose
    BY <1>3, EditsOnly DEF Type, RequestClose, KeepEditing, DiscardAndClose, jobVars
  <1>4. CASE StartEditing \/ DiscardEdits \/ ReloadLatest
    <2>1. LetGo /\ UNCHANGED <<page, jobs, lock, retry, effort, drawn>> /\ CacheInv(list')
      BY <1>1, <1>4, CacheOps DEF StartEditing, DiscardEdits, ReloadLatest, NoCall
    <2>2. QED BY <2>1, LetGoFits DEF StudioStep
  <1>5. CASE Save
    BY <1>5, SavePosts DEF StudioStep
  <1>6. ASSUME NEW c \in calls, Saved(c) PROVE StudioStep
    BY <1>1, <1>6, SavedFits DEF StudioStep
  <1>7. ASSUME NEW c \in calls, SaveFailed(c) PROVE StudioStep
    BY <1>1, <1>7, AnsweredFits DEF SaveFailed, NoCall, StudioStep
  <1>8. CASE ListLands \/ Queue \/ Poll \/ AnswerList \/ FailList
    BY <1>8 DEF ListLands, ListSteps, StudioStep
  <1>9. CASE EditorMove("jobs") \/ EditorMove("other")
    <2>1. "jobs" \in Pages /\ "other" \in Pages
      BY DEF Pages, SubmitPages
    <2>2. QED BY <1>9, <2>1 DEF EditorMove, StudioStep
  <1>10. CASE UNCHANGED editorVars
    BY <1>10, EditsOnly DEF editorVars, jobVars
  <1>11. QED BY <1>2, <1>3, <1>4, <1>5, <1>6, <1>7, <1>8, <1>9, <1>10 DEF EditorNext, ReviewSteps

LEMMA DraftKept ==
  ASSUME EditorInv, [EditorNext]_editorVars
  PROVE  DraftInv'
  <1>0. DraftInv
    BY DEF EditorInv
  <1>1. ASSUME UNCHANGED <<list, reviewing, draft>> PROVE DraftInv'
    BY <1>0, <1>1 DEF DraftInv, Job, Shown
  <1>2. ASSUME draft' = NoDraft, reviewing' \in JobIds \cup {0} PROVE DraftInv'
    BY <1>2, NoDraftTyped DEF DraftInv
  <1>3. ASSUME NEW i \in JobIds, OpenReview(i) PROVE DraftInv'
    BY <1>2, <1>3 DEF OpenReview, Review
  <1>4. CASE StartEditing
    <2>1. Job \in Views /\ Job # Absent /\ UNCHANGED <<list, reviewing>>
      BY <1>0, <1>4, JobTyped DEF StartEditing, NoCall, DialogOpen, EditorInv, DraftInv
    <2>2. draft' \in Drafts /\ draft'.from = Job.rev
      BY <1>4, <2>1 DEF StartEditing, NoDraft, Drafts, Views
    <2>3. Job' = Job
      BY <2>1 DEF Job, Shown
    <2>4. QED BY <1>0, <2>1, <2>2, <2>3 DEF DraftInv
  <1>5. CASE Type
    <2>1. draft' \in Drafts /\ draft'.from = draft.from /\ draft'.editing = draft.editing
      BY <1>0, <1>5 DEF Type, DraftInv, Drafts
    <2>2. UNCHANGED <<list, reviewing>> /\ Job' = Job
      BY <1>5 DEF Type, jobVars, Job, Shown
    <2>3. QED BY <1>0, <2>1, <2>2 DEF DraftInv
  <1>6. CASE DiscardEdits \/ DiscardAndClose \/ RequestClose
    BY <1>0, <1>1, <1>2, <1>6 DEF DiscardEdits, DiscardAndClose, RequestClose, jobVars, DraftInv
  <1>7. CASE ReloadLatest
    <2>1. draft' \in Drafts /\ ~draft'.editing /\ reviewing' = reviewing
      BY <1>0, <1>7 DEF ReloadLatest, DraftInv, Drafts
    <2>2. QED BY <1>0, <2>1 DEF DraftInv
  <1>8. CASE Save \/ KeepEditing
    BY <1>1, <1>8 DEF Save, KeepEditing, NoCall, reviewVars, jobVars
  <1>9. ASSUME NEW c \in calls, Saved(c) PROVE DraftInv'
    <2>1. CASE c.held
      BY <1>9, <2>1, EffectKeeps DEF Saved, DialogEffect
    <2>2. CASE ~c.held
      BY <1>9, <2>2, EffectKeeps DEF Saved, DialogEffect
    <2>3. QED BY <2>1, <2>2
  <1>10. ASSUME NEW c \in calls, SaveFailed(c) PROVE DraftInv'
    BY <1>1, <1>10 DEF SaveFailed, NoCall, reviewVars
  <1>11. CASE ListLands
    BY <1>11, EffectKeeps DEF ListLands
  <1>12. CASE (Poll \/ AnswerList \/ FailList) /\ UNCHANGED reviewVars
    <2>1. list'.data = list.data /\ UNCHANGED <<reviewing, draft>>
      <3>1. CacheInv(list)
        BY DEF EditorInv, StudioInv, ListInv
      <3>2. QED BY <1>12, <3>1 DEF Poll, AnswerList, FailList, Fetched, AnsweredWith, Failed, reviewVars, CacheInv
    <2>2. Job' = Job
      BY <2>1 DEF Job, Shown
    <2>3. QED BY <1>0, <2>1, <2>2 DEF DraftInv
  <1>13. CASE Queue /\ UNCHANGED reviewVars
    <2>1. UNCHANGED list
      BY <1>13, QueueMoves DEF EditorInv, StudioInv, ServerOnly
    <2>2. QED BY <1>1, <1>13, <2>1 DEF reviewVars
  <1>14. CASE EditorMove("jobs") \/ EditorMove("other")
    BY <1>2, <1>14 DEF EditorMove
  <1>15. CASE UNCHANGED editorVars
    BY <1>1, <1>15 DEF editorVars
  <1>16. QED BY <1>3, <1>4, <1>5, <1>6, <1>7, <1>8, <1>9, <1>10, <1>11, <1>12, <1>13, <1>14, <1>15
             DEF EditorNext, ReviewSteps

LEMMA SavesKept ==
  ASSUME EditorInv, [EditorNext]_editorVars
  PROVE  SavesInv'
  <1>1. StudioInv /\ CallsInv /\ JobsInv /\ SavesInv
    BY DEF EditorInv, StudioInv
  <1>2. ASSUME calls' \subseteq calls PROVE SavesInv'
    BY <1>1, <1>2 DEF SavesInv
  <1>3. \A c \in calls : Let(c).op = c.op /\ Let(c).effort = c.effort /\ Let(c).base = c.base
    BY <1>1, LetFits DEF CallsInv
  <1>4. ASSUME LetGo PROVE SavesInv'
    <2>1. \A d \in calls' : d \in calls \/ \E c \in calls : d = Let(c)
      BY <1>4 DEF LetGo, Let
    <2>2. QED BY <1>1, <1>3, <2>1 DEF SavesInv
  <1>5. CASE Save
    <2>1. PICK c : Posts(c) /\ c.op = "revise" /\ c.effort = c.base
      BY <1>5, SavePosts
    <2>2. \A d \in calls' : d = c \/ d \in calls \/ \E b \in calls : d = Let(b)
      BY <1>1, <2>1, SendFits DEF Posts, Pending
    <2>3. QED BY <1>1, <1>3, <2>1, <2>2 DEF SavesInv
  <1>6. CASE Queue
    <2>1. calls' = calls \/ \E c \in calls : Served(c)
      BY <1>1, <1>6, QueueMoves
    <2>2. QED BY <1>1, <2>1 DEF Served, Answers, SavesInv
  <1>7. ASSUME NEW p, Navigate(p) PROVE SavesInv'
    BY <1>1, <1>7, NavigateFits DEF SavesInv
  <1>8. QED BY <1>2, <1>4, <1>5, <1>6, <1>7
            DEF EditorNext, ReviewSteps, OpenReview, Review, StartEditing, Type, DiscardEdits, RequestClose,
                KeepEditing, DiscardAndClose, ReloadLatest, Saved, SaveFailed, ListLands, LandList, Poll,
                AnswerList, FailList, EditorMove, jobVars, editorVars

LEMMA EditorKept ==
  ASSUME EditorInv, [EditorNext]_editorVars
  PROVE  EditorInv'
  BY EditorSteps, StudioKept, DraftKept, SavesKept DEF EditorInv

LEMMA EditorStarts ==
  ASSUME EditorInit
  PROVE  EditorInv
  BY StudioStarts, NoDraftTyped DEF EditorInit, JobsInit, ReviewInit, EditorInv, DraftInv, SavesInv

\* The server replaces a revision only by a text that was made from that revision, whatever lists
\* land and other tabs write between the start of editing and the save.
THEOREM OverwritesSeen == EditorSpec => NoBlindOverwrite
  <1> DEFINE Step == \A i \in JobIds : \A c \in calls :
                       (/\ c.op = "revise" /\ c.job = i /\ c.st = "sent" /\ c \notin calls'
                        /\ Has(i, {"succeeded"}) /\ jobs'[i].rev = jobs[i].rev + 1)
                         => c.effort = jobs[i].rev
  <1>1. ASSUME EditorInv, [EditorNext]_editorVars, NEW i \in JobIds, NEW c \in calls,
               c.op = "revise", c.job = i, c.st = "sent", c \notin calls',
               Has(i, {"succeeded"}), jobs'[i].rev = jobs[i].rev + 1
        PROVE  c.effort = jobs[i].rev
    <2>1. jobs' # jobs
      <3>1. JobsInv /\ i \in 1..Len(jobs)
        BY <1>1 DEF Has, EditorInv, StudioInv
      <3>2. jobs[i] \in Records
        BY <3>1 DEF JobsInv
      <3>3. jobs[i].rev \in Nat
        BY <3>2 DEF Records
      <3>4. QED BY <1>1, <3>3
    <2>2. Queue
      BY <1>1, <2>1
         DEF EditorNext, ReviewSteps, OpenReview, Review, StartEditing, Type, DiscardEdits, Save, RequestClose,
             KeepEditing, DiscardAndClose, ReloadLatest, Saved, SaveFailed, ListLands, LandList, Poll,
             AnswerList, FailList, EditorMove, Navigate, NoCall, jobVars, editorVars
    <2>3. c.effort = c.base
      BY <1>1 DEF EditorInv, SavesInv
    <2>4. \/ \E d \in calls : ServeCreate(d) \/ ServeCancel(d) \/ ServeDelete(d) \/ ServeCleanup(d)
                              \/ ServeRevise(d)
          \/ calls' = calls
      BY <2>2 DEF Queue, WorkerEnds, OutsiderActs
    <2>5. PICK d \in calls : ServeCreate(d) \/ ServeCancel(d) \/ ServeDelete(d) \/ ServeCleanup(d)
                             \/ ServeRevise(d)
      BY <1>1, <2>4
    <2>6. d = c
      BY <1>1, <2>5 DEF ServeCreate, ServeCancel, ServeDelete, ServeCleanup, ServeRevise, Reply
    <2>7. ServeRevise(c)
      BY <1>1, <2>5, <2>6 DEF ServeCreate, ServeCancel, ServeDelete, ServeCleanup
    <2>8. QED BY <1>1, <2>1, <2>3, <2>7 DEF ServeRevise
  <1>2. EditorInv /\ [EditorNext]_editorVars => [Step]_<<calls, jobs>>
    BY <1>1
  <1>3. QED BY <1>2, EditorStarts, EditorKept, PTL DEF EditorSpec, NoBlindOverwrite
=============================================================================
