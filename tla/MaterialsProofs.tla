-------------------------- MODULE MaterialsProofs --------------------------
(***************************************************************************)
(* Materials, for any number of sources, requests and workers, any limits  *)
(* and any number of faults: what shows as ready can be read, what was     *)
(* purged leaves nothing behind but what the code gives up on, and, as     *)
(* long as fewer things go wrong than a job has attempts, no deletion is   *)
(* forgotten.                                                              *)
(*                                                                         *)
(* The invariant has one part per pair of things that meet: the rows and   *)
(* what is stored for them, the requests and the files they put before     *)
(* their rows, the jobs and who holds them, the ingests, and the purges.   *)
(***************************************************************************)
EXTENDS Materials, FiniteSetTheorems, Sums, TLAPS

Keys == {o.key : o \in Offers} \cup {NoKey}
Contents == {o.content : o \in Offers} \cup {"none", "demo"}

RowRecords ==
    [row: {"none", "live", "deleted", "gone"}, kind: {"none", "file", "web"},
     key: Keys, content: Contents, size: Nat,
     status: {"none", "processing", "ready", "failed"}, file: BOOLEAN,
     version: 0..MaxVersions]

JobRecords == [status: {"none", "done", "failed"} \cup Queue,
               attempts: 0..JobAttempts]

RequestRecords ==
    [pc: {"idle", "put", "insert"}, offer: Offers \cup {"none"},
     id: Sources \cup {"none"}, met: Nat]

WorkerRecords == [pc: {"idle", "retry", "failentity"} \cup Dispatched,
                  job: JobIds \cup {"none"}]

Tables ==
    /\ topic \in {"none", "live", "demo", "deleted", "gone"}
    /\ src \in [Sources -> RowRecords]
    /\ versions \in [Sources -> SUBSET (1..MaxVersions)]
    /\ files \subseteq Sources
    /\ jobs \in [JobIds -> JobRecords]
    /\ request \in [Requests -> RequestRecords]
    /\ worker \in [Workers -> WorkerRecords]
    /\ stray \subseteq Sources
    /\ unswept \subseteq files
    /\ faults \in 0..MaxFaults
    /\ IsFiniteSet(Accepted)

PurgeJobs == {PurgeSource(s) : s \in Sources} \cup {PurgeTopic}

-----------------------------------------------------------------------------
(* The rows.                                                               *)

\* A row, its versions and its file.  A row that shows is readable if it is
\* ready; one that may be extracted has room for a version.
RowOK(s) ==
    /\ src[s].row = "none" => versions[s] = {}
    /\ topic = "none" => src[s].row = "none"
    /\ src[s].row = "gone" => topic = "gone"
    /\ topic = "gone" => s \notin Rows
    /\ s \in Rows => src[s].kind \in {"file", "web"}
    /\ \E n \in 0..MaxVersions : versions[s] = 1..n
    /\ src[s].status = "processing" => MaxVersions \notin versions[s]
    /\ Visible(s) /\ src[s].kind = "file" => src[s].file /\ s \in files
    /\ Visible(s) /\ src[s].status = "ready" =>
          /\ src[s].version /= 0 /\ src[s].version \in versions[s]
          /\ src[s].file /\ s \in files

(* The requests.                                                           *)

RequestOK(q) ==
    request[q].pc /= "idle" =>
        /\ request[q].offer \in Offers /\ request[q].id \in Sources
        /\ src[request[q].id].row = "none" /\ topic /= "none"
        /\ request[q].pc = "put" => request[q].offer.kind = "file"
        /\ request[q].pc = "insert" /\ request[q].offer.kind = "file" =>
              request[q].id \in files

\* No two requests have the same id.
OneRequest ==
    \A p, q \in Accepted : request[p].id = request[q].id => p = q

\* The files that no removal left behind.
Stored == files \ unswept

\* A file without a row belongs to the request that stored it.
FileOwned(s) ==
    src[s].row = "none" /\ s \in Stored \ stray =>
        \E q \in Requests : request[q].pc = "insert" /\ request[q].id = s

(* The jobs.                                                               *)

Holds(w) == worker[w].pc \notin {"idle", "failentity"}
Purging == {"purge", "erase", "finish"}

\* A held job is running, and a job has one holder.
HolderOK(w) ==
    /\ worker[w].pc /= "idle" => worker[w].job \in JobIds
    /\ Holds(w) => jobs[worker[w].job].status = "running"
    /\ worker[w].pc \in Ingesting \cup {"load", "failentity"} =>
          \E s \in Sources : worker[w].job = Ingest(s)
    /\ worker[w].pc \in {"purge", "erase"} => worker[w].job \in PurgeJobs

OneHolder == \A v, w \in Workers :
                 Holds(v) /\ Holds(w) /\ worker[v].job = worker[w].job => v = w

\* A purge job has no more attempts than one plus the faults, and not that
\* one unless a worker is at it: every retry of a purge costs a fault.
AttemptsOK(j) ==
    /\ jobs[j].status = "queued" => jobs[j].attempts <= faults
    /\ jobs[j].status = "running" =>
          \/ jobs[j].attempts <= faults
          \/ /\ jobs[j].attempts <= faults + 1
             /\ \E w \in Workers : worker[w].pc \in Purging
                                   /\ worker[w].job = j
    /\ MaxFaults < JobAttempts => jobs[j].status /= "failed"

\* Jobs exist for what there is to do only, and what is deleted has its job.
SourceJobsOK(s) ==
    /\ jobs[Ingest(s)].status /= "none" => src[s].row /= "none"
    /\ jobs[PurgeSource(s)].status /= "none" =>
          src[s].row \in {"deleted", "gone"}
    /\ src[s].row = "deleted" => jobs[PurgeSource(s)].status /= "none"

TopicJobOK ==
    /\ jobs[PurgeTopic].status /= "none" <=> topic \in {"deleted", "gone"}
    /\ jobs[PurgeTopic].status = "done" => topic = "gone"

(* The ingests.                                                            *)

\* An ingest past its look at the row may add a version; on a row that still
\* shows it has what it is about to record.
IngestOK(w, s) ==
    worker[w].pc \in Ingesting /\ worker[w].job = Ingest(s) =>
        /\ MaxVersions \notin versions[s]
        /\ Visible(s) =>
              /\ worker[w].pc = "read" => src[s].kind = "file"
              /\ worker[w].pc = "record" => s \in files
              /\ worker[w].pc = "extract" => src[s].file /\ s \in files

(* The purges.                                                             *)

\* Nothing is left of a source but what a removal left behind, and no ingest
\* is about to add anything.
Swept(s) == s \in stray \/ (s \notin Stored /\ s \notin Underway)
Clean(s) == Swept(s) /\ (s \in stray \/ versions[s] = {})

TopicPurgeOK(w) ==
    /\ worker[w].pc = "erase" /\ worker[w].job = PurgeTopic =>
          topic = "deleted" /\ \A s \in Rows : Swept(s)
    /\ worker[w].pc = "finish" /\ worker[w].job = PurgeTopic => topic = "gone"

PurgeOK(w, s) ==
    /\ worker[w].pc = "erase" /\ worker[w].job = PurgeSource(s) => Swept(s)
    /\ worker[w].pc = "finish" /\ worker[w].job = PurgeSource(s) => Clean(s)

PurgedOK(s) ==
    src[s].row = "gone" \/ jobs[PurgeSource(s)].status = "done" => Clean(s)

-----------------------------------------------------------------------------

RowsOK == \A s \in Sources : RowOK(s)
RequestsOK == /\ \A q \in Requests : RequestOK(q)
              /\ OneRequest
              /\ \A s \in Sources : FileOwned(s)
HoldersOK == (\A w \in Workers : HolderOK(w)) /\ OneHolder
JobsOK == /\ \A j \in PurgeJobs : AttemptsOK(j)
          /\ \A s \in Sources : SourceJobsOK(s)
          /\ TopicJobOK
IngestsOK == \A w \in Workers, s \in Sources : IngestOK(w, s)
PurgesOK == /\ \A w \in Workers : TopicPurgeOK(w)
            /\ \A w \in Workers, s \in Sources : PurgeOK(w, s)
            /\ \A s \in Sources : PurgedOK(s)

IInv == /\ Tables
        /\ RowsOK
        /\ RequestsOK
        /\ HoldersOK
        /\ JobsOK
        /\ IngestsOK
        /\ PurgesOK

-----------------------------------------------------------------------------
(* Lemmas about the identifiers and the records.                           *)

\* The ids of two jobs differ unless they are for the same thing.
LEMMA Ids ==
    /\ \A s, r \in Sources : Ingest(s) = Ingest(r) => s = r
    /\ \A s, r \in Sources : PurgeSource(s) = PurgeSource(r) => s = r
    /\ \A s, r \in Sources : Ingest(s) /= PurgeSource(r)
    /\ \A s \in Sources : Ingest(s) /= PurgeTopic
    /\ \A s \in Sources : PurgeSource(s) /= PurgeTopic
    /\ \A s \in Sources : Ingest(s)[1] = "ingest" /\ Ingest(s)[2] = s
    /\ \A s \in Sources : PurgeSource(s)[1] /= "ingest"
                          /\ PurgeSource(s)[2] = s
    /\ PurgeTopic[1] /= "ingest"
  BY DEF Ingest, PurgeSource, PurgeTopic

\* A job is an ingest or a purge.
LEMMA Jobs ==
    /\ \A s \in Sources : Ingest(s) \in JobIds /\ Ingest(s) \notin PurgeJobs
    /\ \A s \in Sources : PurgeSource(s) \in JobIds
                          /\ PurgeSource(s) \in PurgeJobs
    /\ PurgeTopic \in JobIds /\ PurgeTopic \in PurgeJobs
    /\ \A j \in JobIds : \/ \E s \in Sources : j = Ingest(s)
                         \/ \E s \in Sources : j = PurgeSource(s)
                         \/ j = PurgeTopic
    /\ \A j \in PurgeJobs : \/ \E s \in Sources : j = PurgeSource(s)
                            \/ j = PurgeTopic
  BY Ids DEF JobIds, PurgeJobs

\* The initial records are well formed.
LEMMA Blank ==
    /\ NoRow \in RowRecords /\ NoJob \in JobRecords
    /\ NoRequest \in RequestRecords /\ NoWork \in WorkerRecords
  BY LimitsAssumption DEF NoRow, RowRecords, Keys, Contents, NoJob,
     JobRecords, NoRequest, RequestRecords, NoWork, WorkerRecords

\* Closing a job keeps a record of a job.
LEMMA ClosedIsJob ==
    \A status \in {"done", "failed"} :
        /\ Closed(status) \in JobRecords
        /\ Closed(status).status = status
  BY LimitsAssumption DEF Closed, JobRecords

\* What Enqueued() does to a job, and to no other.
LEMMA Enqueueing ==
    ASSUME NEW js \in [JobIds -> JobRecords], NEW j \in JobIds
    PROVE  /\ Enqueued(js, j) \in [JobIds -> JobRecords]
           /\ \A i \in JobIds \ {j} : Enqueued(js, j)[i] = js[i]
           /\ js[j].status \in Queue => Enqueued(js, j)[j] = js[j]
           /\ js[j].status \notin Queue =>
                 /\ Enqueued(js, j)[j].status = "queued"
                 /\ Enqueued(js, j)[j].attempts = 0
<1>1. [status |-> "queued", attempts |-> 0] \in JobRecords
  BY LimitsAssumption DEF JobRecords, Queue
<1> QED
  BY <1>1 DEF Enqueued

\* What CancelQueued() does to a job, and to no other.
LEMMA Canceling ==
    ASSUME NEW js \in [JobIds -> JobRecords], NEW j \in JobIds
    PROVE  /\ CancelQueued(js, j) \in [JobIds -> JobRecords]
           /\ \A i \in JobIds \ {j} : CancelQueued(js, j)[i] = js[i]
           /\ js[j].status = "queued" =>
                 CancelQueued(js, j)[j].status = "done"
           /\ js[j].status /= "queued" => CancelQueued(js, j)[j] = js[j]
  BY ClosedIsJob DEF CancelQueued

-----------------------------------------------------------------------------
(* Steps that leave a part of the invariant alone.                         *)

OnlyWorker(w) == \A v \in Workers \ {w} : worker'[v] = worker[v]

\* The worker w, busy so far, goes to l and keeps its job.
Moves(w, l) == /\ worker' \in [Workers -> WorkerRecords]
               /\ worker'[w].pc = l /\ worker'[w].job = worker[w].job
               /\ OnlyWorker(w)

\* The worker w is done.
Rests(w) == /\ worker' \in [Workers -> WorkerRecords]
            /\ worker'[w].pc = "idle"
            /\ OnlyWorker(w)

\* Goto and Release in these terms.
LEMMA Going ==
    ASSUME Tables, NEW w \in Workers,
           NEW l \in {"idle", "retry", "failentity"} \cup Dispatched
    PROVE  (Goto(w, l) => Moves(w, l)) /\ (Release(w) => Rests(w))
  BY Blank DEF Tables, WorkerRecords, Goto, Release, Moves, Rests, OnlyWorker,
     NoWork

SameSource(s) == /\ src'[s] = src[s] /\ versions'[s] = versions[s]
                 /\ s \in files' <=> s \in files

\* The requests do not notice a step that neither inserts a row nor touches a
\* file that has none.
LEMMA RequestsRest ==
    ASSUME IInv, request' = request, topic /= "none" => topic' /= "none",
           \A s \in Sources : src'[s].row = "none" <=> src[s].row = "none",
           \A s \in Sources : src[s].row = "none" =>
                                  /\ s \in files' <=> s \in files
                                  /\ s \in unswept => s \in unswept',
           stray \subseteq stray'
    PROVE  RequestsOK' /\ IsFiniteSet(Accepted')
<1>1. Accepted' = Accepted
  BY DEF Accepted
<1>2. ASSUME NEW q \in Requests PROVE RequestOK(q)'
  BY DEF IInv, RequestsOK, RequestOK
<1>3. OneRequest'
  BY <1>1 DEF IInv, RequestsOK, OneRequest
<1>4. ASSUME NEW s \in Sources PROVE FileOwned(s)'
  BY DEF IInv, RequestsOK, FileOwned, Stored
<1> QED
  BY <1>1, <1>2, <1>3, <1>4 DEF RequestsOK, IInv, Tables

\* A worker goes on with the job it holds, or drops one it no longer holds.
LEMMA HoldersRest ==
    ASSUME IInv, NEW w \in Workers, OnlyWorker(w), jobs' = jobs,
           Holds(w)' => Holds(w),
           worker'[w].pc /= "idle" =>
               worker[w].pc /= "idle" /\ worker'[w].job = worker[w].job,
           worker'[w].pc \in Ingesting \cup {"load", "failentity"} =>
               worker[w].pc \in Ingesting \cup {"load"},
           worker'[w].pc \in {"purge", "erase"} => worker[w].pc = "purge"
    PROVE  HoldersOK'
<1>1. ASSUME NEW v \in Workers PROVE HolderOK(v)'
  <2>1. HolderOK(v)
    BY DEF IInv, HoldersOK
  <2>2. CASE v = w
    <3>1. worker'[w].pc /= "idle" => worker'[w].job \in JobIds
      BY <2>1, <2>2 DEF HolderOK
    <3>2. Holds(w)' => jobs'[worker'[w].job].status = "running"
      BY <2>1, <2>2 DEF HolderOK, Holds
    <3>3. worker'[w].pc \in Ingesting \cup {"load", "failentity"} =>
              \E s \in Sources : worker'[w].job = Ingest(s)
      <4>1. "idle" \notin Ingesting
        BY DEF Ingesting
      <4> QED
        BY <2>1, <2>2, <4>1 DEF HolderOK
    <3>4. worker'[w].pc \in {"purge", "erase"} =>
              worker'[w].job \in PurgeJobs
      BY <2>1, <2>2 DEF HolderOK
    <3> QED
      BY <2>2, <3>1, <3>2, <3>3, <3>4 DEF HolderOK
  <2>3. CASE v /= w
    BY <2>1, <2>3 DEF HolderOK, Holds, OnlyWorker
  <2> QED
    BY <2>2, <2>3
<1>2. \A v \in Workers : Holds(v)' => Holds(v) /\ worker'[v].job = worker[v].job
  BY DEF Holds, OnlyWorker
<1>3. OneHolder'
  <2> SUFFICES ASSUME NEW u \in Workers, NEW v \in Workers, Holds(u)',
                      Holds(v)', worker'[u].job = worker'[v].job
               PROVE  u = v
    BY DEF OneHolder
  <2> QED
    BY <1>2 DEF IInv, HoldersOK, OneHolder
<1> QED
  BY <1>1, <1>3 DEF HoldersOK

\* What the purge jobs rest on, in a step that changes no job: rows and topic
\* go on, and a worker at a purge stays at it.
LEMMA JobsRest ==
    ASSUME IInv, NEW w \in Workers, OnlyWorker(w), jobs' = jobs,
           faults' \in {faults, faults + 1},
           topic' = topic \/ (topic = "deleted" /\ topic' = "gone"),
           \A s \in Sources :
               /\ src'[s].row = "none" => src[s].row = "none"
               /\ src[s].row \in {"deleted", "gone"} =>
                     src'[s].row \in {"deleted", "gone"}
               /\ src'[s].row = "deleted" => src[s].row = "deleted",
           worker[w].pc \in Purging /\ worker[w].job \in PurgeJobs =>
               worker'[w].pc \in Purging /\ worker'[w].job = worker[w].job
    PROVE  JobsOK'
<1>1. ASSUME NEW j \in PurgeJobs PROVE AttemptsOK(j)'
  <2>1. AttemptsOK(j)
    BY DEF IInv, JobsOK
  <2>2. ASSUME NEW v \in Workers, worker[v].pc \in Purging, worker[v].job = j
        PROVE  worker'[v].pc \in Purging /\ worker'[v].job = j
    BY <2>2 DEF OnlyWorker
  <2>3. jobs[j].attempts \in Int /\ faults \in Int
    BY Jobs, LimitsAssumption DEF IInv, Tables, JobRecords
  <2> QED
    BY <2>1, <2>2, <2>3 DEF AttemptsOK
<1>2. ASSUME NEW s \in Sources PROVE SourceJobsOK(s)'
  BY DEF IInv, JobsOK, SourceJobsOK
<1>3. TopicJobOK'
  BY DEF IInv, JobsOK, TopicJobOK
<1> QED
  BY <1>1, <1>2, <1>3 DEF JobsOK

\* A step on one row.
LEMMA ContentRest ==
    ASSUME IInv, NEW r \in Sources, topic' = topic,
           \A s \in Sources \ {r} : SameSource(s),
           RowOK(r)',
           \A v \in Workers :
               /\ IngestOK(v, r)'
               /\ worker'[v] = worker[v] \/ \A s \in Sources : IngestOK(v, s)'
    PROVE  RowsOK' /\ IngestsOK'
<1>1. ASSUME NEW s \in Sources PROVE RowOK(s)'
  <2>1. CASE s /= r
    BY <2>1 DEF IInv, RowsOK, RowOK, SameSource, Visible, Rows
  <2> QED
    BY <2>1
<1>2. ASSUME NEW v \in Workers, NEW s \in Sources PROVE IngestOK(v, s)'
  <2>1. CASE s /= r /\ worker'[v] = worker[v]
    BY <2>1 DEF IInv, IngestsOK, IngestOK, SameSource, Visible
  <2> QED
    BY <2>1
<1> QED
  BY <1>1, <1>2 DEF RowsOK, IngestsOK

\* A step that changes no row, file or version and starts no ingest.
LEMMA ContentStays ==
    ASSUME IInv, UNCHANGED <<topic, src, versions, files>>,
           \A v \in Workers : worker'[v].pc \in Ingesting =>
                                  worker'[v] = worker[v]
    PROVE  RowsOK' /\ IngestsOK'
<1>1. RowsOK'
  BY DEF IInv, RowsOK, RowOK, Visible, Rows
<1>2. ASSUME NEW v \in Workers, NEW s \in Sources PROVE IngestOK(v, s)'
  BY DEF IInv, IngestsOK, IngestOK, Visible
<1> QED
  BY <1>1, <1>2 DEF IngestsOK

\* A step of no worker: jobs that are not running are queued anew or dropped.
LEMMA QueueStep ==
    ASSUME IInv, worker' = worker, faults' \in {faults, faults + 1},
           \A j \in JobIds :
               \/ jobs'[j] = jobs[j]
               \/ /\ jobs[j].status /= "running"
                  /\ jobs'[j].status = "queued" /\ jobs'[j].attempts = 0
               \/ /\ jobs[j].status = "queued" /\ j \notin PurgeJobs
                  /\ jobs'[j].status = "done"
    PROVE  HoldersOK' /\ \A j \in PurgeJobs : AttemptsOK(j)'
<1>1. ASSUME NEW v \in Workers PROVE HolderOK(v)'
  <2>1. HolderOK(v)
    BY DEF IInv, HoldersOK
  <2>2. Holds(v) => worker[v].job \in JobIds /\ jobs'[worker[v].job] = jobs[worker[v].job]
    BY <2>1 DEF HolderOK, Holds
  <2> QED
    BY <2>1, <2>2 DEF HolderOK, Holds
<1>2. OneHolder'
  BY DEF IInv, HoldersOK, OneHolder, Holds
<1>3. ASSUME NEW j \in PurgeJobs PROVE AttemptsOK(j)'
  <2>1. AttemptsOK(j) /\ j \in JobIds
    BY Jobs DEF IInv, JobsOK
  <2>2. jobs[j].attempts \in Int /\ faults \in Nat
    BY <2>1, LimitsAssumption DEF IInv, Tables, JobRecords
  <2>3. CASE jobs'[j] = jobs[j]
    BY <2>1, <2>2, <2>3 DEF AttemptsOK
  <2>4. CASE jobs'[j].status = "queued" /\ jobs'[j].attempts = 0
    BY <2>2, <2>4 DEF AttemptsOK
  <2> QED
    BY <2>1, <2>3, <2>4
<1> QED
  BY <1>1, <1>2, <1>3 DEF HoldersOK

\* What is swept or clean stays so, unless an ingest is at it.
Kept(s) == (Swept(s) => Swept(s)') /\ (Clean(s) => Clean(s)')

\* What a step must not do to a source for it to stay swept and clean.
LEMMA Keeping ==
    ASSUME NEW s \in Sources, stray \subseteq stray',
           s \in Underway' => s \in Underway,
           s \in Stored' => s \in Stored \/ s \in Underway,
           versions'[s] \subseteq versions[s] \/ s \in Underway
    PROVE  Kept(s)
  BY DEF Kept, Swept, Clean

\* Ingests under way stay the same or become fewer when no worker starts one.
LEMMA UnderwayShrinks ==
    ASSUME \A v \in Workers : worker'[v].pc \in Ingesting =>
               worker[v].pc \in Ingesting /\ worker'[v].job = worker[v].job
    PROVE  Underway' \subseteq Underway
  BY DEF Underway

\* What was purged or is being purged, in a step that keeps it: what the step
\* erases or finishes is clean, and a worker it moves is where it should be.
LEMMA PurgesRest ==
    ASSUME IInv, topic = "gone" => topic' = "gone",
           \A s \in Sources :
               src[s].row \in {"deleted", "gone"}
                   \/ (topic = "deleted" /\ s \in Rows) => Kept(s),
           \A s \in Sources : topic = "deleted" /\ s \in Rows' => s \in Rows,
           \A s \in Sources :
               src'[s].row = "gone" => src[s].row = "gone" \/ Clean(s)',
           \A s \in Sources : jobs'[PurgeSource(s)].status = "done" =>
               jobs[PurgeSource(s)].status = "done" \/ Clean(s)',
           \A v \in Workers :
               worker'[v].pc \in {"erase", "finish"} /\ worker'[v].job \in PurgeJobs =>
                   \/ /\ worker'[v] = worker[v]
                      /\ topic' = topic \/ topic /= "deleted"
                                        \/ worker[v].job /= PurgeTopic
                   \/ TopicPurgeOK(v)' /\ \A s \in Sources : PurgeOK(v, s)'
    PROVE  PurgesOK'
<1>1. ASSUME NEW v \in Workers PROVE TopicPurgeOK(v)'
  <2> SUFFICES ASSUME worker'[v].pc \in {"erase", "finish"},
                      worker'[v].job = PurgeTopic, ~TopicPurgeOK(v)'
               PROVE  FALSE
    BY DEF TopicPurgeOK
  <2>1. worker'[v] = worker[v] /\ TopicPurgeOK(v)
        /\ (topic' = topic \/ topic /= "deleted")
    BY Jobs DEF IInv, PurgesOK
  <2>2. \A s \in Rows' : s \in Sources
    BY DEF Rows
  <2> QED
    BY <2>1, <2>2 DEF TopicPurgeOK, Kept
<1>2. ASSUME NEW v \in Workers, NEW s \in Sources PROVE PurgeOK(v, s)'
  <2> SUFFICES ASSUME worker'[v].pc \in {"erase", "finish"},
                      worker'[v].job = PurgeSource(s), ~PurgeOK(v, s)'
               PROVE  FALSE
    BY DEF PurgeOK
  <2>1. worker'[v] = worker[v] /\ PurgeOK(v, s) /\ HolderOK(v)
    BY Jobs DEF IInv, PurgesOK, HoldersOK
  <2>2. jobs[PurgeSource(s)].status = "running"
    BY <2>1 DEF HolderOK, Holds
  <2>3. src[s].row \in {"deleted", "gone"}
    BY <2>2 DEF IInv, JobsOK, SourceJobsOK
  <2> QED
    BY <2>1, <2>3 DEF PurgeOK, Kept
<1>3. ASSUME NEW s \in Sources PROVE PurgedOK(s)'
  <2> SUFFICES ASSUME src'[s].row = "gone"
                      \/ jobs'[PurgeSource(s)].status = "done",
                      ~Clean(s)'
               PROVE  FALSE
    BY DEF PurgedOK
  <2>1. Clean(s)
    BY DEF IInv, PurgesOK, PurgedOK
  <2>2. src[s].row \in {"deleted", "gone"}
    BY DEF IInv, JobsOK, SourceJobsOK
  <2> QED
    BY <2>1, <2>2 DEF Kept
<1> QED
  BY <1>1, <1>2, <1>3 DEF PurgesOK

-----------------------------------------------------------------------------
(* The steps of an ingest.                                                 *)

\* An ingest has a source, whose row was inserted.
LEMMA AtIngest ==
    ASSUME IInv, NEW w \in Workers, worker[w].pc \in Ingesting \cup {"load"}
    PROVE  \E s \in Sources :
               /\ worker[w].job = Ingest(s) /\ Ref(w) = s
               /\ Holds(w) /\ src[s].row /= "none"
               /\ worker[w].pc \in Ingesting => s \in Underway
<1>1. HolderOK(w) /\ Holds(w)
  BY DEF IInv, HoldersOK, Holds, Ingesting
<1>2. PICK s \in Sources : worker[w].job = Ingest(s)
  BY <1>1 DEF HolderOK
<1>3. jobs[Ingest(s)].status = "running"
  BY <1>1, <1>2 DEF HolderOK
<1>4. src[s].row /= "none"
  BY <1>3 DEF IInv, JobsOK, SourceJobsOK
<1>5. Ref(w) = s
  BY <1>2, Ids DEF Ref
<1> QED
  BY <1>1, <1>2, <1>4, <1>5 DEF Underway

\* A step of the ingest of s by w: it changes nothing but what is stored for
\* s, and that only once it is under way.
LEMMA IngestMoves ==
    ASSUME IInv, NEW w \in Workers, NEW s \in Sources,
           worker[w].pc \in Ingesting \cup {"load"}, worker[w].job = Ingest(s),
           NEW l \in Ingesting \cup {"finish", "retry"}, Moves(w, l),
           UNCHANGED <<topic, jobs, request, stray, unswept, faults>>,
           src' \in [Sources -> RowRecords],
           versions' \in [Sources -> SUBSET (1..MaxVersions)],
           files' \subseteq Sources, files \subseteq files',
           \A r \in Sources \ {s} : SameSource(r),
           src'[s].row = src[s].row, src[s].row /= "none",
           SameSource(s) \/ s \in Underway,
           l \in Ingesting => IngestOK(w, s)' /\ (s \in Underway \/ Visible(s)),
           RowOK(s)'
    PROVE  IInv'
<1> DEFINE p == worker[w].pc
<1>1. \A r \in Sources : src'[r].row = src[r].row
  BY DEF SameSource
<1>2. RequestsOK' /\ IsFiniteSet(Accepted')
  <2>1. \A r \in Sources : src[r].row = "none" => (r \in files' <=> r \in files)
    BY DEF SameSource
  <2> QED
    BY <1>1, <2>1, RequestsRest
<1>3. Tables'
  BY <1>2 DEF IInv, Tables, Moves
<1>4. worker'[w].pc = l /\ worker'[w].job = Ingest(s) /\ OnlyWorker(w)
  BY DEF Moves
<1>5. HoldersOK'
  <2>1. Holds(w) /\ p \notin {"idle", "purge"} /\ l \notin {"idle", "load", "failentity", "purge", "erase"}
    BY DEF Holds, Ingesting
  <2> QED
    BY <1>4, <2>1, HoldersRest
<1>6. JobsOK'
  <2>1. worker[w].job \notin PurgeJobs
    BY Jobs
  <2> QED
    BY <1>1, <1>4, <2>1, JobsRest
<1>7. RowsOK' /\ IngestsOK'
  <2>1. ASSUME NEW r \in Sources PROVE IngestOK(w, r)'
    <3>1. CASE r = s /\ l \in Ingesting
      BY <3>1
    <3>2. CASE r /= s \/ l \notin Ingesting
      <4>1. ~(worker'[w].pc \in Ingesting /\ worker'[w].job = Ingest(r))
        BY <1>4, <3>2, Ids
      <4> QED
        BY <4>1 DEF IngestOK
    <3> QED
      BY <3>1, <3>2
  <2>2. ASSUME NEW v \in Workers \ {w} PROVE IngestOK(v, s)'
    <3> SUFFICES ASSUME worker[v].pc \in Ingesting, worker[v].job = Ingest(s)
                 PROVE  FALSE
      BY <1>4 DEF OnlyWorker, IngestOK
    <3>1. Holds(v) /\ Holds(w)
      BY DEF Holds, Ingesting
    <3> QED
      BY <3>1 DEF IInv, HoldersOK, OneHolder
  <2> QED
    BY <1>4, <2>1, <2>2, ContentRest DEF OnlyWorker
<1>8. PurgesOK'
  <2>1. ASSUME NEW r \in Sources, src[r].row \in {"deleted", "gone"} \/ topic = "deleted"
        PROVE  Kept(r)
    <3>1. r \in Underway' => r \in Underway
      <4> SUFFICES ASSUME NEW v \in Workers, worker'[v].pc \in Ingesting,
                          worker'[v].job = Ingest(r)
                   PROVE  r \in Underway
        BY DEF Underway
      <4>1. CASE v /= w
        BY <1>4, <4>1 DEF OnlyWorker, Underway
      <4>2. CASE v = w
        <5>1. r = s /\ l \in Ingesting
          BY <1>4, <4>2, Ids
        <5> QED
          BY <2>1, <5>1 DEF Visible, Open
      <4> QED
        BY <4>1, <4>2
    <3>2. r \in Stored' => r \in Stored \/ r \in Underway
      BY DEF SameSource, Stored
    <3>3. versions'[r] \subseteq versions[r] \/ r \in Underway
      BY DEF SameSource
    <3> QED
      BY <3>1, <3>2, <3>3, Keeping
  <2>2. \A r \in Rows' : r \in Rows
    BY <1>1 DEF Rows
  <2>3. \A v \in Workers : worker'[v].pc \in {"erase", "finish"} /\ worker'[v].job \in PurgeJobs
                               => worker'[v] = worker[v]
    BY <1>4, Jobs DEF OnlyWorker
  <2> QED
    BY <1>1, <2>1, <2>2, <2>3, PurgesRest
<1> QED
  BY <1>2, <1>3, <1>5, <1>6, <1>7, <1>8 DEF IInv

\* Load: an ingest begins on a row that shows and has room for a version.
LEMMA LoadStep ==
    ASSUME IInv, NEW w \in Workers, Load(w)
    PROVE  IInv'
<1>1. PICK s \in Sources : /\ worker[w].job = Ingest(s) /\ Ref(w) = s
                           /\ src[s].row /= "none"
  BY AtIngest DEF Load, Doing
<1> DEFINE begins == Visible(s) /\ src[s].status = "processing"
           l == IF begins THEN IF src[s].kind = "web" THEN "fetch" ELSE "read"
                ELSE "finish"
<1>2. /\ worker[w].pc = "load" /\ Goto(w, l)
      /\ UNCHANGED <<topic, src, versions, jobs, files, request, stray, unswept, faults>>
  BY <1>1 DEF Load, Doing, dbVars
<1>3. l \in Ingesting \cup {"finish", "retry"} /\ (l \in Ingesting => begins)
      /\ l \notin {"record", "extract"}
  BY DEF Ingesting
<1>4. begins /\ l = "read" => src[s].kind = "file"
  BY DEF IInv, RowsOK, RowOK, Visible, Rows
<1> HIDE DEF l
<1>5. Moves(w, l)
  BY <1>2, <1>3, Going DEF IInv, Dispatched
<1>6. RowOK(s) /\ RowOK(s)'
  BY <1>2 DEF IInv, RowsOK, RowOK, Visible, Rows
<1>7. l \in Ingesting => IngestOK(w, s)'
  BY <1>2, <1>3, <1>4, <1>5, <1>6 DEF IngestOK, RowOK, Moves
<1>8. \A r \in Sources : SameSource(r)
  BY <1>2 DEF SameSource
<1> QED
  BY <1>1, <1>2, <1>3, <1>5, <1>6, <1>7, <1>8, IngestMoves DEF IInv, Tables

\* Read: the file of an uploaded source is there.
LEMMA ReadStep ==
    ASSUME IInv, NEW w \in Workers, Read(w)
    PROVE  IInv'
<1>1. PICK s \in Sources : /\ worker[w].job = Ingest(s) /\ Ref(w) = s
                           /\ src[s].row /= "none" /\ s \in Underway
  BY AtIngest DEF Read, Doing, Ingesting
<1>2. PICK l \in {"extract", "retry"} :
          /\ worker[w].pc = "read" /\ Goto(w, l)
          /\ l = "extract" => s \in files
          /\ UNCHANGED <<topic, src, versions, jobs, files, request, stray, unswept, faults>>
  BY <1>1 DEF Read, Doing, dbVars
<1>3. l \in Ingesting \cup {"finish", "retry"} /\ worker[w].pc \in Ingesting
  BY <1>2 DEF Ingesting
<1>4. Moves(w, l)
  BY <1>2, <1>3, Going DEF IInv, Dispatched
<1>5. RowOK(s) /\ RowOK(s)' /\ IngestOK(w, s)
  BY <1>2 DEF IInv, RowsOK, RowOK, Visible, Rows, IngestsOK
<1>6. l \in Ingesting => l = "extract" /\ s \in files
  BY <1>2 DEF Ingesting
<1>7. l \in Ingesting => IngestOK(w, s)'
  BY <1>1, <1>2, <1>3, <1>4, <1>5, <1>6 DEF IngestOK, RowOK, Moves, Visible
<1>8. \A r \in Sources : SameSource(r)
  BY <1>2 DEF SameSource
<1> QED
  BY <1>1, <1>2, <1>3, <1>4, <1>5, <1>7, <1>8, IngestMoves DEF IInv, Tables

\* An ingest that ends in an error is tried again, or its row is marked.
LEMMA ErrorStep ==
    ASSUME IInv, NEW w \in Workers, worker[w].pc \in Ingesting,
           ExtractionError(w),
           UNCHANGED <<topic, versions, jobs, files, request, stray, unswept, faults>>
    PROVE  IInv'
<1>1. PICK s \in Sources : /\ worker[w].job = Ingest(s) /\ Ref(w) = s
                           /\ src[s].row /= "none" /\ s \in Underway
  BY AtIngest
<1>2. RowOK(s)
  BY DEF IInv, RowsOK
<1>3. CASE Goto(w, "retry") /\ UNCHANGED src
  <2>1. Moves(w, "retry")
    BY <1>3, Going DEF IInv
  <2>2. RowOK(s)'
    BY <1>2, <1>3 DEF RowOK, Visible, Rows
  <2>3. \A r \in Sources : SameSource(r)
    BY <1>3 DEF SameSource
  <2>4. "retry" \notin Ingesting
    BY DEF Ingesting
  <2> QED
    BY <1>1, <1>3, <2>1, <2>2, <2>3, <2>4, IngestMoves DEF IInv, Tables
<1>4. CASE MarkFailed(w) /\ Goto(w, "finish")
  <2>1. Moves(w, "finish")
    BY <1>4, Going DEF IInv, Dispatched
  <2> DEFINE row == [src[s] EXCEPT !.status = IF s \in Rows THEN "failed" ELSE @]
  <2>2. src[s] \in RowRecords
    BY DEF IInv, Tables
  <2>3. src' = [src EXCEPT ![s] = row]
    BY <1>1, <1>4, <2>2 DEF MarkFailed, IInv, Tables, RowRecords
  <2>4. /\ row \in RowRecords
        /\ row.row = src[s].row /\ row.kind = src[s].kind
        /\ row.file = src[s].file
        /\ s \in Rows => row.status = "failed"
    BY <2>2 DEF RowRecords
  <2>5. s \notin Rows => row.status = src[s].status
    BY <2>2 DEF RowRecords
  <2> HIDE DEF row
  <2>6. src' \in [Sources -> RowRecords] /\ src'[s] = row
        /\ \A r \in Sources \ {s} : src'[r] = src[r]
    BY <2>3, <2>4 DEF IInv, Tables
  <2>7. s \in Rows' <=> s \in Rows
    BY <2>4, <2>6 DEF Rows
  <2>8. RowOK(s)'
    BY <1>2, <2>4, <2>5, <2>6, <2>7 DEF RowOK, Visible, Rows
  <2>9. \A r \in Sources \ {s} : SameSource(r)
    BY <2>6 DEF SameSource
  <2>10. "finish" \notin Ingesting
    BY DEF Ingesting
  <2> QED
    BY <1>1, <2>1, <2>4, <2>6, <2>8, <2>9, <2>10, IngestMoves DEF IInv, Tables
<1> QED
  BY <1>3, <1>4 DEF ExtractionError

\* Fetch: the snapshot of an article is stored.
LEMMA FetchStep ==
    ASSUME IInv, NEW w \in Workers, Fetch(w)
    PROVE  IInv'
<1>1. /\ worker[w].pc = "fetch" /\ worker[w].pc \in Ingesting
      /\ UNCHANGED <<topic, versions, jobs, request, stray, unswept, faults>>
  BY DEF Fetch, Doing, Ingesting
<1>2. CASE ExtractionError(w) /\ UNCHANGED files
  BY <1>1, <1>2, ErrorStep
<1>3. CASE files' = files \cup {Ref(w)} /\ Goto(w, "record") /\ UNCHANGED src
  <2>1. PICK s \in Sources : /\ worker[w].job = Ingest(s) /\ Ref(w) = s
                             /\ src[s].row /= "none" /\ s \in Underway
    BY <1>1, AtIngest
  <2>2. Moves(w, "record") /\ "record" \in Ingesting
    BY <1>3, Going DEF IInv, Dispatched, Ingesting
  <2>3. RowOK(s) /\ IngestOK(w, s)
    BY DEF IInv, RowsOK, IngestsOK
  <2>4. RowOK(s)'
    BY <1>1, <1>3, <2>1, <2>3 DEF RowOK, Visible, Rows
  <2>5. IngestOK(w, s)'
    BY <1>1, <1>3, <2>1, <2>2, <2>3 DEF IngestOK, Moves, Visible
  <2>6. \A r \in Sources \ {s} : SameSource(r)
    BY <1>1, <1>3, <2>1 DEF SameSource
  <2> QED
    BY <1>1, <1>3, <2>1, <2>2, <2>4, <2>5, <2>6, IngestMoves DEF IInv, Tables
<1> QED
  BY <1>2, <1>3 DEF Fetch

\* Record: the row of an article learns of its file.
LEMMA RecordStep ==
    ASSUME IInv, NEW w \in Workers, Record(w)
    PROVE  IInv'
<1>1. /\ worker[w].pc = "record" /\ worker[w].pc \in Ingesting
      /\ UNCHANGED <<topic, versions, files, jobs, request, stray, unswept, faults>>
  BY DEF Record, Doing, Ingesting
<1>2. PICK s \in Sources : /\ worker[w].job = Ingest(s) /\ Ref(w) = s
                           /\ src[s].row /= "none" /\ s \in Underway
  BY <1>1, AtIngest
<1>3. Moves(w, "extract") /\ "extract" \in Ingesting
  BY Going DEF IInv, Dispatched, Ingesting, Record
<1>4. RowOK(s) /\ IngestOK(w, s) /\ src[s] \in RowRecords
  BY DEF IInv, RowsOK, IngestsOK, Tables
<1> DEFINE row == IF s \in Rows
                    THEN [src[s] EXCEPT !.file = TRUE, !.size = WebSize]
                    ELSE src[s]
<1>5. src' = [src EXCEPT ![s] = row]
  BY <1>2, <1>4 DEF Record, IInv, Tables, RowRecords
<1>6. /\ row \in RowRecords
      /\ row.row = src[s].row /\ row.kind = src[s].kind
      /\ row.status = src[s].status /\ row.version = src[s].version
      /\ s \in Rows => row.file
  BY <1>4, LimitsAssumption DEF RowRecords
<1> HIDE DEF row
<1>7. src' \in [Sources -> RowRecords] /\ src'[s] = row
      /\ \A r \in Sources \ {s} : src'[r] = src[r]
  BY <1>5, <1>6 DEF IInv, Tables
<1>8. /\ s \in Rows' <=> s \in Rows
      /\ Visible(s)' <=> Visible(s)
      /\ Visible(s) => s \in Rows
  BY <1>1, <1>6, <1>7 DEF Rows, Visible
<1>9. RowOK(s)'
  BY <1>1, <1>4, <1>6, <1>7, <1>8 DEF RowOK
<1>10. IngestOK(w, s)'
  BY <1>1, <1>2, <1>3, <1>4, <1>6, <1>7, <1>8 DEF IngestOK, Moves
<1>11. \A r \in Sources \ {s} : SameSource(r)
  BY <1>1, <1>7 DEF SameSource
<1> QED
  BY <1>1, <1>2, <1>3, <1>6, <1>7, <1>9, <1>10, <1>11, IngestMoves
     DEF IInv, Tables

\* The number of versions, when they are those up to some n.
LEMMA NextVersion ==
    ASSUME NEW n \in Nat, NEW V, V = 1..n
    PROVE  Cardinality(V) + 1 = n + 1 /\ V \cup {n + 1} = 1..(n + 1)
<1>1. Cardinality(1..n) = n
  BY FS_Interval
<1> QED
  BY <1>1

\* Extract: the new version is the next one, there is room for it, and the
\* row that becomes ready has its file.
LEMMA ExtractStep ==
    ASSUME IInv, NEW w \in Workers, Extract(w)
    PROVE  IInv'
<1>1. /\ worker[w].pc = "extract" /\ worker[w].pc \in Ingesting
      /\ UNCHANGED <<topic, files, jobs, request, stray, unswept, faults>>
  BY DEF Extract, Doing, Ingesting
<1>2. PICK s \in Sources : /\ worker[w].job = Ingest(s) /\ Ref(w) = s
                           /\ src[s].row /= "none" /\ s \in Underway
  BY <1>1, AtIngest
<1>3. RowOK(s) /\ IngestOK(w, s) /\ src[s] \in RowRecords
  BY DEF IInv, RowsOK, IngestsOK, Tables
<1> DEFINE n == Cardinality(versions[s]) + 1
<1>4. CASE ExtractionError(w) /\ UNCHANGED versions
  BY <1>1, <1>4, ErrorStep
<1>5. CASE /\ s \in Rows
           /\ versions' = [versions EXCEPT ![s] = @ \cup {n}]
           /\ src' = [src EXCEPT ![s].status = "ready", ![s].version = n]
           /\ Goto(w, "finish")
  <2>1. Moves(w, "finish") /\ "finish" \notin Ingesting
    BY <1>5, Going DEF IInv, Dispatched, Ingesting
  <2>2. PICK k \in 0..MaxVersions : versions[s] = 1..k
    BY <1>3 DEF RowOK
  <2>3. MaxVersions \notin versions[s]
    BY <1>1, <1>2, <1>3 DEF IngestOK
  <2>4. k \in Nat /\ k < MaxVersions /\ n = k + 1
        /\ versions[s] \cup {n} = 1..n
    <3>1. MaxVersions \in Nat /\ MaxVersions >= 1 /\ k \in Nat /\ k <= MaxVersions
      BY LimitsAssumption
    <3>2. k /= MaxVersions
      BY <2>2, <2>3, <3>1
    <3>3. Cardinality(versions[s]) + 1 = k + 1 /\ versions[s] \cup {k + 1} = 1..(k + 1)
      BY <2>2, <3>1, NextVersion
    <3> QED
      BY <3>1, <3>2, <3>3
  <2>5. n \in 0..MaxVersions /\ n /= 0 /\ n \in 1..n
        /\ 1..n \subseteq 1..MaxVersions
    BY <2>4, LimitsAssumption
  <2> HIDE DEF n
  <2> DEFINE row == [src[s] EXCEPT !.status = "ready", !.version = n]
  <2>6. src' = [src EXCEPT ![s] = row]
    BY <1>3, <1>5 DEF IInv, Tables, RowRecords
  <2>7. /\ row \in RowRecords
        /\ row.row = src[s].row /\ row.kind = src[s].kind
        /\ row.file = src[s].file
        /\ row.status = "ready" /\ row.version = n
    BY <1>3, <2>5 DEF RowRecords
  <2> HIDE DEF row
  <2>8. src' \in [Sources -> RowRecords] /\ src'[s] = row
        /\ \A r \in Sources \ {s} : src'[r] = src[r]
    BY <2>6, <2>7 DEF IInv, Tables
  <2>9. versions' \in [Sources -> SUBSET (1..MaxVersions)] /\ versions'[s] = 1..n
        /\ \A r \in Sources \ {s} : versions'[r] = versions[r]
    BY <1>5, <2>4, <2>5 DEF IInv, Tables
  <2>10. /\ s \in Rows' <=> s \in Rows
         /\ Visible(s)' <=> Visible(s)
    BY <1>1, <2>7, <2>8 DEF Rows, Visible
  <2>11. Visible(s) => src[s].file /\ s \in files
    BY <1>1, <1>2, <1>3 DEF IngestOK
  <2>12. topic /= "gone" /\ src[s].row /= "gone"
    BY <1>3, <1>5 DEF RowOK, Rows
  <2>13. RowOK(s)'
    BY <1>1, <1>2, <1>3, <2>5, <2>7, <2>8, <2>9, <2>10, <2>11, <2>12 DEF RowOK
  <2>14. \A r \in Sources \ {s} : SameSource(r)
    BY <1>1, <2>8, <2>9 DEF SameSource
  <2> QED
    BY <1>1, <1>2, <2>1, <2>7, <2>8, <2>9, <2>13, <2>14, IngestMoves
       DEF IInv, Tables
<1>6. CASE Goto(w, "retry") /\ UNCHANGED <<versions, src>>
  <2>1. Moves(w, "retry") /\ "retry" \notin Ingesting
    BY <1>6, Going DEF IInv, Ingesting
  <2>2. RowOK(s)'
    BY <1>1, <1>3, <1>6 DEF RowOK, Visible, Rows
  <2>3. \A r \in Sources : SameSource(r)
    BY <1>1, <1>6 DEF SameSource
  <2> QED
    BY <1>1, <1>2, <1>6, <2>1, <2>2, <2>3, IngestMoves DEF IInv, Tables
<1> QED
  BY <1>2, <1>4, <1>5, <1>6 DEF Extract

-----------------------------------------------------------------------------
(* The steps of a purge.                                                   *)

\* A purge has its topic or its source, which is deleted or already gone; what
\* it is to remove does not show any more.
LEMMA AtPurge ==
    ASSUME IInv, NEW w \in Workers, worker[w].pc \in {"purge", "erase"}
    PROVE  /\ Holds(w) /\ worker[w].job \in PurgeJobs
           /\ Doomed(w) \subseteq Rows /\ Doomed(w) \subseteq Sources
           /\ \A s \in Doomed(w) : ~Visible(s)
           /\ \/ /\ worker[w].job = PurgeTopic
                 /\ topic \in {"deleted", "gone"}
                 /\ Doomed(w) = IF topic = "deleted" THEN Rows ELSE {}
              \/ \E s \in Sources :
                    /\ worker[w].job = PurgeSource(s)
                    /\ worker[w].job /= PurgeTopic
                    /\ src[s].row \in {"deleted", "gone"}
                    /\ Doomed(w) = IF src[s].row = "deleted" THEN {s} ELSE {}
<1>1. HolderOK(w) /\ Holds(w) /\ worker[w].job \in PurgeJobs
  BY DEF IInv, HoldersOK, HolderOK, Holds
<1>2. jobs[worker[w].job].status = "running"
  BY <1>1 DEF HolderOK
<1>3. CASE worker[w].job = PurgeTopic
  <2>1. topic \in {"deleted", "gone"}
    BY <1>2, <1>3 DEF IInv, JobsOK, TopicJobOK
  <2> QED
    BY <1>1, <1>3, <2>1 DEF Doomed, Rows, Visible, Open
<1>4. CASE worker[w].job /= PurgeTopic
  <2>1. PICK s \in Sources : worker[w].job = PurgeSource(s)
    BY <1>1, <1>4, Jobs
  <2>2. src[s].row \in {"deleted", "gone"} /\ Ref(w) = s
    BY <1>2, <2>1, Ids DEF IInv, JobsOK, SourceJobsOK, Ref
  <2>3. Doomed(w) = IF src[s].row = "deleted" THEN {s} ELSE {}
    BY <1>4, <2>2 DEF Doomed, Rows
  <2> QED
    BY <1>1, <1>4, <2>1, <2>2, <2>3 DEF Rows, Visible
<1> QED
  BY <1>3, <1>4

\* What a removal leaves of the files: those it was not for, and those it
\* could not remove.
Removes(removed) ==
    /\ files' \subseteq files /\ unswept' \subseteq files'
    /\ Stored' = Stored \ removed
    /\ \A s \in Sources \ removed : /\ s \in files' <=> s \in files
                                    /\ s \in unswept' <=> s \in unswept
    /\ faults' \in {faults, faults + 1} /\ faults' \in 0..MaxFaults

\* delete_source() leaves that.
LEMMA Removing ==
    ASSUME NEW removed, DeleteSources(removed), unswept \subseteq files,
           faults \in 0..MaxFaults
    PROVE  Removes(removed)
<1>1. PICK kept \in SUBSET (removed \cap files) :
          /\ files' = (files \ removed) \cup kept
          /\ unswept' = (unswept \ removed) \cup kept
          /\ faults' = faults \/ (faults < MaxFaults /\ faults' = faults + 1)
  BY DEF DeleteSources
<1>2. faults' \in {faults, faults + 1} /\ faults' \in 0..MaxFaults
  BY <1>1, LimitsAssumption
<1> QED
  BY <1>1, <1>2 DEF Removes, Stored

\* Sweep: the files go, and sources still being ingested are noted.
LEMMA SweepStep ==
    ASSUME IInv, NEW w \in Workers, Sweep(w)
    PROVE  IInv'
<1> DEFINE idle == Doomed(w) = {} /\ (worker[w].job = PurgeTopic => topic /= "deleted")
           l == IF idle THEN "finish" ELSE "erase"
<1>1. /\ worker[w].pc = "purge" /\ Goto(w, l)
      /\ DeleteSources(Doomed(w))
      /\ stray' = stray \cup (Doomed(w) \cap Underway)
      /\ UNCHANGED <<topic, src, versions, jobs, request>>
  BY DEF Sweep, Doing, dbVars
<1>16. Removes(Doomed(w))
  BY <1>1, Removing DEF IInv, Tables
<1>2. l \in {"finish", "erase"} /\ (l = "finish" <=> idle)
  OBVIOUS
<1> HIDE DEF l
<1>3. Moves(w, l)
  BY <1>1, <1>2, Going DEF IInv, Dispatched
<1>4. worker'[w].pc = l /\ worker'[w].job = worker[w].job /\ OnlyWorker(w)
  BY <1>3 DEF Moves
<1>5. /\ Holds(w) /\ worker[w].job \in PurgeJobs
      /\ Doomed(w) \subseteq Rows /\ Doomed(w) \subseteq Sources
      /\ \A s \in Doomed(w) : ~Visible(s)
  BY <1>1, AtPurge
<1>6. "finish" \notin Ingesting /\ "erase" \notin Ingesting
  BY DEF Ingesting
<1>7. RequestsOK' /\ IsFiniteSet(Accepted')
  <2>1. \A s \in Sources : src[s].row = "none" => s \notin Doomed(w)
    BY <1>5 DEF Rows
  <2> QED
    BY <1>1, <1>16, <2>1, RequestsRest DEF Removes
<1>8. Tables'
  BY <1>1, <1>3, <1>5, <1>7, <1>16 DEF IInv, Tables, Moves, Removes
<1>9. HoldersOK'
  BY <1>1, <1>2, <1>4, <1>5, <1>6, HoldersRest
<1>10. JobsOK'
  BY <1>1, <1>2, <1>4, <1>16, JobsRest DEF Purging, Removes
<1>11. \A s \in Sources : Visible(s) => (s \in files' <=> s \in files)
  BY <1>5, <1>16 DEF Removes
<1>12. RowsOK'
  <2>1. ASSUME NEW s \in Sources PROVE RowOK(s)'
    BY <1>1, <1>11 DEF IInv, RowsOK, RowOK, Visible, Rows
  <2> QED
    BY <2>1 DEF RowsOK
<1>13. \A v \in Workers : worker'[v].pc \in Ingesting => worker'[v] = worker[v]
  BY <1>2, <1>4, <1>6 DEF OnlyWorker
<1>14. IngestsOK'
  <2>1. ASSUME NEW v \in Workers, NEW s \in Sources PROVE IngestOK(v, s)'
    BY <1>1, <1>11, <1>13 DEF IInv, IngestsOK, IngestOK, Visible
  <2> QED
    BY <2>1 DEF IngestsOK
<1>15. PurgesOK'
  <2>1. Underway' \subseteq Underway
    BY <1>13, UnderwayShrinks
  <2>2. \A s \in Sources : Kept(s)
    BY <1>1, <1>16, <2>1, Keeping DEF Removes
  <2>3. \A s \in Doomed(w) : Swept(s)'
    BY <1>1, <1>16, <2>1 DEF Swept, Removes
  <2>4. TopicPurgeOK(w)' /\ \A s \in Sources : PurgeOK(w, s)'
    <3>1. CASE worker[w].job = PurgeTopic
      <4>1. topic \in {"deleted", "gone"} /\ (topic = "deleted" => Doomed(w) = Rows)
        BY <1>1, <3>1, AtPurge
      <4>2. l = "erase" => topic = "deleted"
        BY <1>2, <3>1, <4>1, <1>1, AtPurge
      <4>3. l = "finish" => topic = "gone"
        BY <1>2, <3>1, <4>1
      <4>4. Rows' = Rows
        BY <1>1 DEF Rows
      <4>5. TopicPurgeOK(w)'
        BY <1>1, <1>4, <2>3, <4>1, <4>2, <4>3, <4>4 DEF TopicPurgeOK
      <4> QED
        BY <1>4, <3>1, <4>5, Ids DEF PurgeOK
    <3>2. CASE worker[w].job /= PurgeTopic
      <4>1. PICK s \in Sources : /\ worker[w].job = PurgeSource(s)
                                 /\ src[s].row \in {"deleted", "gone"}
                                 /\ Doomed(w) = IF src[s].row = "deleted" THEN {s} ELSE {}
        BY <1>1, <3>2, AtPurge
      <4>2. l = "erase" => Swept(s)'
        BY <1>2, <2>3, <3>2, <4>1
      <4>3. l = "finish" => src[s].row = "gone"
        BY <1>2, <4>1
      <4>4. l = "finish" => Clean(s)'
        BY <2>2, <4>3 DEF IInv, PurgesOK, PurgedOK, Kept
      <4>5. ASSUME NEW r \in Sources PROVE PurgeOK(w, r)'
        BY <1>4, <4>1, <4>2, <4>4, Ids DEF PurgeOK
      <4>6. TopicPurgeOK(w)'
        BY <1>4, <3>2 DEF TopicPurgeOK
      <4> QED
        BY <4>5, <4>6
    <3> QED
      BY <3>1, <3>2
  <2>5. Rows' = Rows
    BY <1>1 DEF Rows
  <2> QED
    BY <1>1, <1>4, <2>2, <2>4, <2>5, PurgesRest DEF OnlyWorker
<1> QED
  BY <1>7, <1>8, <1>9, <1>10, <1>12, <1>14, <1>15 DEF IInv

\* Erase: what was swept is clean once its versions are gone.
LEMMA EraseStep ==
    ASSUME IInv, NEW w \in Workers, Erase(w)
    PROVE  IInv'
<1> DEFINE topical == worker[w].job = PurgeTopic
           D == Doomed(w)
<1>1. /\ worker[w].pc = "erase" /\ Goto(w, "finish")
      /\ topic' = IF topical THEN "gone" ELSE topic
      /\ UNCHANGED <<files, jobs, request, stray, unswept, faults>>
  BY DEF Erase, Doing
<1>2. Moves(w, "finish")
  BY <1>1, Going DEF IInv, Dispatched
<1>3. worker'[w].pc = "finish" /\ worker'[w].job = worker[w].job /\ OnlyWorker(w)
  BY <1>2 DEF Moves
<1>4. /\ Holds(w) /\ worker[w].job \in PurgeJobs
      /\ D \subseteq Rows /\ D \subseteq Sources
      /\ \A s \in D : ~Visible(s)
  BY <1>1, AtPurge
<1>5. topical => topic = "deleted" /\ D = Rows
  <2>1. TopicPurgeOK(w)
    BY DEF IInv, PurgesOK
  <2> QED
    BY <1>1, <2>1, AtPurge, Ids DEF TopicPurgeOK
<1>6. ~topical => \E s \in Sources : /\ worker[w].job = PurgeSource(s)
                                     /\ src[s].row \in {"deleted", "gone"}
                                     /\ D = IF src[s].row = "deleted" THEN {s} ELSE {}
  BY <1>1, AtPurge
<1>7. \A s \in D : Swept(s)
  <2>1. CASE topical
    BY <1>1, <1>5, <2>1 DEF IInv, PurgesOK, TopicPurgeOK
  <2>2. CASE ~topical
    BY <1>1, <1>6, <2>2 DEF IInv, PurgesOK, PurgeOK
  <2> QED
    BY <2>1, <2>2
<1>8. \A s \in D : ~topical => src[s].row = "deleted"
  BY <1>6
<1>9. /\ src' \in [Sources -> RowRecords]
      /\ \A s \in Sources \ D : src'[s] = src[s]
      /\ \A s \in D : topical => /\ src'[s].row = "gone"
                                 /\ src'[s].status = "none"
      /\ \A s \in D : ~topical => /\ src'[s].row = "deleted"
                                  /\ src'[s].kind = src[s].kind
                                  /\ src'[s].status = src[s].status
  <2> DEFINE gone == [NoRow EXCEPT !.row = "gone"]
             tomb(s) == [src[s] EXCEPT !.file = FALSE, !.size = 0,
                            !.version = 0, !.content = "none"]
  <2>1. src' = [s \in Sources |-> IF s \notin D THEN src[s]
                                  ELSE IF topical THEN gone ELSE tomb(s)]
    BY DEF Erase
  <2>2. gone \in RowRecords /\ gone.row = "gone" /\ gone.status = "none"
    BY Blank DEF NoRow, RowRecords
  <2>3. ASSUME NEW s \in Sources
        PROVE  /\ tomb(s) \in RowRecords /\ tomb(s).row = src[s].row
               /\ tomb(s).kind = src[s].kind /\ tomb(s).status = src[s].status
    <3>1. src[s] \in RowRecords /\ "none" \in Contents /\ 0 \in 0..MaxVersions
      BY LimitsAssumption DEF IInv, Tables, Contents
    <3> QED
      BY <3>1 DEF RowRecords
  <2>4. \A s \in Sources : src[s] \in RowRecords
    BY DEF IInv, Tables
  <2> HIDE DEF gone, tomb, D, topical
  <2>5. D \subseteq Sources
    BY <1>4
  <2> QED
    BY <1>8, <2>1, <2>2, <2>3, <2>4, <2>5
<1>10. /\ versions' \in [Sources -> SUBSET (1..MaxVersions)]
       /\ \A s \in D : versions'[s] = {}
       /\ \A s \in Sources \ D : versions'[s] = versions[s]
  BY <1>4 DEF Erase, IInv, Tables
<1> HIDE DEF D, topical
<1>11. /\ \A s \in Sources : src'[s].row = "none" <=> src[s].row = "none"
       /\ \A s \in Sources : src[s].row \in {"deleted", "gone"} =>
                                 src'[s].row \in {"deleted", "gone"}
       /\ \A s \in Sources : src'[s].row = "deleted" => src[s].row = "deleted"
       /\ \A s \in Sources : src'[s].row = "gone" => src[s].row = "gone" \/ s \in D
       /\ Rows' \subseteq Rows
  BY <1>4, <1>8, <1>9 DEF Rows
<1>12. RequestsOK' /\ IsFiniteSet(Accepted')
  BY <1>1, <1>5, <1>11, RequestsRest
<1>13. Tables'
  BY <1>1, <1>2, <1>9, <1>10, <1>12 DEF IInv, Tables, Moves
<1>14. HoldersOK'
  <2>1. "finish" \notin Ingesting
    BY DEF Ingesting
  <2> QED
    BY <1>1, <1>3, <1>4, <2>1, HoldersRest
<1>15. JobsOK'
  BY <1>1, <1>3, <1>5, <1>11, JobsRest DEF Purging
<1>16. topical => Rows' = {}
  BY <1>5, <1>9 DEF Rows
<1>17. ASSUME NEW s \in Sources PROVE RowOK(s)'
  <2>1. RowOK(s)
    BY DEF IInv, RowsOK
  <2>2. 1..0 = {} /\ 0 \in 0..MaxVersions
    BY LimitsAssumption
  <2>3. CASE topical
    <3>1. ~Visible(s)' /\ topic' = "gone" /\ s \notin Rows'
      BY <1>1, <1>16, <2>3 DEF Visible, Open
    <3>2. CASE s \in D
      BY <1>9, <1>10, <2>2, <2>3, <3>1, <3>2 DEF RowOK
    <3>3. CASE s \notin D
      BY <1>9, <1>10, <2>1, <3>1, <3>3 DEF RowOK
    <3> QED
      BY <3>2, <3>3
  <2>4. CASE ~topical
    <3>1. CASE s \in D
      <4>1. src[s].row = "deleted" /\ src'[s].row = "deleted" /\ topic' = topic
            /\ s \in Rows
        BY <1>1, <1>4, <1>8, <1>9, <2>4, <3>1
      <4>2. ~Visible(s)' /\ topic' /= "none" /\ topic' /= "gone"
        BY <2>1, <4>1 DEF Visible, RowOK
      <4> QED
        BY <1>9, <1>10, <2>1, <2>2, <2>4, <3>1, <4>1, <4>2 DEF RowOK
    <3>2. CASE s \notin D
      BY <1>1, <1>9, <1>10, <2>1, <2>4, <3>2 DEF RowOK, Visible, Rows
    <3> QED
      BY <3>1, <3>2
  <2> QED
    BY <2>3, <2>4
<1>18. \A v \in Workers : worker'[v].pc \in Ingesting => worker'[v] = worker[v]
  BY <1>3 DEF OnlyWorker, Ingesting
<1>19. ASSUME NEW v \in Workers, NEW s \in Sources PROVE IngestOK(v, s)'
  <2>1. Visible(s)' => Visible(s) /\ s \notin D
    BY <1>1, <1>4, <1>9, <1>11 DEF Visible, Open
  <2> QED
    BY <1>1, <1>9, <1>10, <1>18, <2>1 DEF IInv, IngestsOK, IngestOK
<1>20. PurgesOK'
  <2>1. Underway' \subseteq Underway
    BY <1>18, UnderwayShrinks
  <2>2. \A s \in Sources : Kept(s)
    BY <1>1, <1>10, <2>1, Keeping DEF Stored
  <2>3. \A s \in D : Clean(s)'
    BY <1>4, <1>7, <1>10, <2>2 DEF Kept, Clean
  <2>4. TopicPurgeOK(w)' /\ \A s \in Sources : PurgeOK(w, s)'
    <3>1. CASE topical
      <4>1. TopicPurgeOK(w)'
        BY <1>1, <1>3, <3>1 DEF TopicPurgeOK
      <4> QED
        BY <1>3, <3>1, <4>1, Ids DEF PurgeOK, topical
    <3>2. CASE ~topical
      <4>1. PICK s \in Sources : /\ worker[w].job = PurgeSource(s)
                                 /\ src[s].row \in {"deleted", "gone"}
                                 /\ D = IF src[s].row = "deleted" THEN {s} ELSE {}
        BY <1>6, <3>2
      <4>2. Clean(s)'
        <5>1. CASE src[s].row = "deleted"
          BY <2>3, <4>1, <5>1
        <5>2. CASE src[s].row = "gone"
          BY <2>2, <5>2 DEF IInv, PurgesOK, PurgedOK, Kept
        <5> QED
          BY <4>1, <5>1, <5>2
      <4>3. ASSUME NEW r \in Sources PROVE PurgeOK(w, r)'
        BY <1>3, <4>1, <4>2, Ids DEF PurgeOK
      <4>4. TopicPurgeOK(w)'
        BY <1>3, <3>2 DEF TopicPurgeOK, topical
      <4> QED
        BY <4>3, <4>4
    <3> QED
      BY <3>1, <3>2
  <2>5. ASSUME NEW v \in Workers, v /= w, worker'[v].pc \in {"erase", "finish"}
        PROVE  worker'[v] = worker[v] /\ (topic' = topic \/ worker[v].job /= PurgeTopic)
    <3>1. worker'[v] = worker[v] /\ Holds(v)
      BY <1>3, <2>5 DEF OnlyWorker, Holds
    <3>2. topical => worker[v].job /= PurgeTopic
      BY <1>4, <2>5, <3>1 DEF IInv, HoldersOK, OneHolder, topical
    <3> QED
      BY <1>1, <3>1, <3>2
  <2>6. topic = "gone" => topic' = "gone"
    BY <1>1
  <2> QED
    BY <1>1, <1>11, <2>2, <2>3, <2>4, <2>5, <2>6, PurgesRest
<1> QED
  BY <1>12, <1>13, <1>14, <1>15, <1>17, <1>19, <1>20 DEF IInv, RowsOK, IngestsOK

-----------------------------------------------------------------------------
(* The steps of the queue.                                                 *)

\* A worker gives back the job it holds, as done only if it is done, and for
\* another attempt only if the faults pay for it.
LEMMA GivesBack ==
    ASSUME IInv, NEW w \in Workers, Holds(w), NEW row \in JobRecords,
           jobs' = [jobs EXCEPT ![worker[w].job] = row],
           row.status \in {"queued", "done", "failed"},
           worker[w].job \in PurgeJobs =>
               /\ row.status = "queued" => row.attempts <= faults
               /\ MaxFaults < JobAttempts => row.status /= "failed",
           row.status = "done" /\ worker[w].job = PurgeTopic => topic = "gone",
           \A s \in Sources :
               row.status = "done" /\ worker[w].job = PurgeSource(s) => Clean(s),
           worker' \in [Workers -> WorkerRecords], OnlyWorker(w),
           \/ worker'[w].pc = "idle"
           \/ /\ worker'[w].pc = "failentity"
              /\ worker'[w].job = worker[w].job
              /\ \E s \in Sources : worker[w].job = Ingest(s),
           UNCHANGED <<topic, src, versions, files, request, stray, unswept, faults>>
    PROVE  IInv'
<1> DEFINE j == worker[w].job
<1>1. HolderOK(w) /\ j \in JobIds /\ jobs[j].status = "running"
  BY DEF IInv, HoldersOK, HolderOK, Holds
<1>2. /\ jobs' \in [JobIds -> JobRecords] /\ jobs'[j] = row
      /\ \A i \in JobIds \ {j} : jobs'[i] = jobs[i]
  BY <1>1 DEF IInv, Tables
<1>3. ~Holds(w)' /\ worker'[w].pc \notin {"load", "purge", "erase", "finish"} \cup Ingesting
  BY DEF Holds, Ingesting
<1>4. \A v \in Workers \ {w} : worker'[v] = worker[v] /\ (Holds(v) => worker[v].job /= j)
  BY DEF IInv, HoldersOK, OneHolder, OnlyWorker
<1> HIDE DEF j
<1>5. RequestsOK' /\ IsFiniteSet(Accepted')
  BY RequestsRest
<1>6. Tables'
  BY <1>2, <1>5 DEF IInv, Tables
<1>7. HoldersOK'
  <2>1. ASSUME NEW v \in Workers PROVE HolderOK(v)'
    <3>1. CASE v = w
      BY <1>1, <1>3, <3>1 DEF HolderOK, j
    <3>2. CASE v /= w
      <4>1. HolderOK(v) /\ worker'[v] = worker[v] /\ (Holds(v)' <=> Holds(v))
        BY <1>4, <3>2 DEF IInv, HoldersOK, Holds
      <4>2. Holds(v) => jobs'[worker[v].job] = jobs[worker[v].job]
        BY <1>2, <1>4, <3>2, <4>1 DEF HolderOK, Holds
      <4> QED
        BY <4>1, <4>2 DEF HolderOK
    <3> QED
      BY <3>1, <3>2
  <2>2. \A v \in Workers : Holds(v)' => Holds(v) /\ worker'[v] = worker[v]
    BY <1>3, <1>4 DEF Holds
  <2>3. OneHolder'
    BY <2>2 DEF IInv, HoldersOK, OneHolder
  <2> QED
    BY <2>1, <2>3 DEF HoldersOK
<1>8. JobsOK'
  <2>1. ASSUME NEW i \in PurgeJobs PROVE AttemptsOK(i)'
    <3>1. AttemptsOK(i) /\ i \in JobIds
      BY Jobs DEF IInv, JobsOK
    <3>2. CASE i = j
      BY <1>2, <3>2 DEF AttemptsOK, j
    <3>3. CASE i /= j
      <4>1. jobs'[i] = jobs[i]
        BY <1>2, <3>1, <3>3
      <4>2. ASSUME NEW v \in Workers, worker[v].pc \in Purging, worker[v].job = i
            PROVE  worker'[v].pc \in Purging /\ worker'[v].job = i
        BY <1>4, <3>3, <4>2 DEF j
      <4> QED
        BY <3>1, <4>1, <4>2 DEF AttemptsOK
    <3> QED
      BY <3>2, <3>3
  <2>2. \A i \in JobIds : jobs'[i].status = "none" <=> jobs[i].status = "none"
    BY <1>1, <1>2
  <2>3. ASSUME NEW s \in Sources PROVE SourceJobsOK(s)'
    BY <2>2, Jobs DEF IInv, JobsOK, SourceJobsOK
  <2>4. TopicJobOK'
    BY <1>2, <2>2, Jobs DEF IInv, JobsOK, TopicJobOK, j
  <2> QED
    BY <2>1, <2>3, <2>4 DEF JobsOK
<1>9. RowsOK' /\ IngestsOK'
  BY <1>3, <1>4, ContentStays
<1>10. PurgesOK'
  <2>1. Underway' \subseteq Underway
    BY <1>3, <1>4, UnderwayShrinks
  <2>2. \A s \in Sources : Kept(s)
    BY <2>1, Keeping DEF Stored
  <2>3. \A s \in Sources : jobs'[PurgeSource(s)].status = "done" =>
            jobs[PurgeSource(s)].status = "done" \/ Clean(s)'
    BY <1>2, <2>2, Jobs DEF Kept, j
  <2>4. Rows' = Rows
    BY DEF Rows
  <2> QED
    BY <1>3, <1>4, <2>2, <2>3, <2>4, PurgesRest
<1> QED
  BY <1>5, <1>6, <1>7, <1>8, <1>9, <1>10 DEF IInv

\* Finish: what a purge is finished with is clean.
LEMMA FinishStep ==
    ASSUME IInv, NEW w \in Workers, Finish(w)
    PROVE  IInv'
<1>1. /\ worker[w].pc = "finish" /\ Rests(w)
      /\ jobs' = [jobs EXCEPT ![worker[w].job] = Closed("done")]
      /\ UNCHANGED <<topic, src, versions, files, request, stray, unswept, faults>>
  BY Going DEF Finish, Doing, IInv
<1>2. Holds(w)
  BY <1>1 DEF Holds
<1>3. worker[w].job = PurgeTopic => topic = "gone"
  BY <1>1 DEF IInv, PurgesOK, TopicPurgeOK
<1>4. \A s \in Sources : worker[w].job = PurgeSource(s) => Clean(s)
  BY <1>1 DEF IInv, PurgesOK, PurgeOK
<1>5. Closed("done") \in JobRecords /\ Closed("done").status = "done"
  BY ClosedIsJob
<1> QED
  BY <1>1, <1>2, <1>3, <1>4, <1>5, GivesBack DEF Rests

\* RetryOrFail: a purge has attempts left while there are more attempts than
\* faults.
LEMMA RetryStep ==
    ASSUME IInv, NEW w \in Workers, RetryOrFail(w)
    PROVE  IInv'
<1> DEFINE j == worker[w].job
           row == IF IsLast(w) THEN Closed("failed")
                  ELSE [jobs[j] EXCEPT !.status = "queued"]
<1>1. /\ worker[w].pc = "retry" /\ Holds(w)
      /\ UNCHANGED <<topic, src, versions, files, request, stray, unswept, faults>>
  BY DEF RetryOrFail, Doing, Holds
<1>2. HolderOK(w) /\ j \in JobIds /\ jobs[j].status = "running"
  BY <1>1 DEF IInv, HoldersOK, HolderOK
<1>3. jobs[j] \in JobRecords
  BY <1>2 DEF IInv, Tables
<1>4. jobs' = [jobs EXCEPT ![j] = row]
  BY <1>2 DEF RetryOrFail, IInv, Tables
<1>5. /\ row \in JobRecords /\ row.status \in {"queued", "failed"}
      /\ row.status = "queued" => row.attempts = jobs[j].attempts
      /\ row.status = "failed" => jobs[j].attempts >= JobAttempts
  <2>1. CASE IsLast(w)
    BY <2>1, ClosedIsJob DEF IsLast
  <2>2. CASE ~IsLast(w)
    BY <1>3, <2>2 DEF JobRecords, Queue
  <2> QED
    BY <2>1, <2>2
<1>6. j \in PurgeJobs => jobs[j].attempts <= faults
  <2> SUFFICES ASSUME j \in PurgeJobs PROVE jobs[j].attempts <= faults
    OBVIOUS
  <2>1. AttemptsOK(j)
    BY DEF IInv, JobsOK
  <2>2. ASSUME NEW v \in Workers, worker[v].pc \in Purging, worker[v].job = j
        PROVE  FALSE
    <3>1. Holds(v)
      BY <2>2 DEF Holds, Purging
    <3>2. v = w
      BY <1>1, <2>2, <3>1 DEF IInv, HoldersOK, OneHolder
    <3> QED
      BY <1>1, <2>2, <3>2 DEF Purging
  <2> QED
    BY <1>2, <2>1, <2>2 DEF AttemptsOK
<1>7. j \in PurgeJobs => /\ row.status = "queued" => row.attempts <= faults
                         /\ MaxFaults < JobAttempts => row.status /= "failed"
  <2>1. jobs[j].attempts \in Int /\ faults \in 0..MaxFaults
    BY <1>3 DEF JobRecords, IInv, Tables
  <2> QED
    BY <1>5, <1>6, <2>1, LimitsAssumption
<1>8. OnlyWorker(w) /\ worker' \in [Workers -> WorkerRecords]
      /\ \/ worker'[w].pc = "idle"
         \/ /\ worker'[w].pc = "failentity" /\ worker'[w].job = j
            /\ \E s \in Sources : j = Ingest(s)
  <2>1. CASE IsLast(w) /\ Ingests(w)
    <3>1. Moves(w, "failentity")
      BY <2>1, Going DEF RetryOrFail, IInv
    <3>2. \E s \in Sources : j = Ingest(s)
      BY <1>2, <2>1, Ids, Jobs DEF Ingests
    <3> QED
      BY <3>1, <3>2 DEF Moves
  <2>2. CASE ~(IsLast(w) /\ Ingests(w))
    BY <2>2, Going DEF RetryOrFail, IInv, Rests
  <2> QED
    BY <2>1, <2>2
<1> HIDE DEF row, j
<1> QED
  BY <1>1, <1>4, <1>5, <1>7, <1>8, GivesBack DEF j

\* FailEntity: a row is marked failed, whatever it has become.
LEMMA FailEntityStep ==
    ASSUME IInv, NEW w \in Workers, FailEntity(w)
    PROVE  IInv'
<1>1. /\ worker[w].pc = "failentity" /\ MarkFailed(w) /\ Rests(w)
      /\ UNCHANGED <<topic, versions, files, jobs, request, stray, unswept, faults>>
  BY Going DEF FailEntity, Doing, IInv
<1>2. PICK s \in Sources : worker[w].job = Ingest(s)
  BY <1>1 DEF IInv, HoldersOK, HolderOK
<1>3. Ref(w) = s /\ src[s] \in RowRecords
  BY <1>2, Ids DEF Ref, IInv, Tables
<1> DEFINE row == [src[s] EXCEPT !.status = IF s \in Rows THEN "failed" ELSE @]
<1>4. src' = [src EXCEPT ![s] = row]
  BY <1>1, <1>3 DEF MarkFailed, IInv, Tables, RowRecords
<1>5. /\ row \in RowRecords
      /\ row.row = src[s].row /\ row.kind = src[s].kind
      /\ row.file = src[s].file
      /\ s \in Rows => row.status = "failed"
  BY <1>3 DEF RowRecords
<1>6. s \notin Rows => row.status = src[s].status
  BY <1>3 DEF RowRecords
<1> HIDE DEF row
<1>7. src' \in [Sources -> RowRecords] /\ src'[s] = row
      /\ \A r \in Sources \ {s} : src'[r] = src[r]
  BY <1>4, <1>5 DEF IInv, Tables
<1>8. \A r \in Sources : src'[r].row = src[r].row
  BY <1>5, <1>7
<1>9. Rows' = Rows
  BY <1>8 DEF Rows
<1>10. RowOK(s)'
  <2>1. RowOK(s)
    BY DEF IInv, RowsOK
  <2> QED
    BY <1>1, <1>5, <1>6, <1>7, <1>9, <2>1 DEF RowOK, Visible, Rows
<1>11. RequestsOK' /\ IsFiniteSet(Accepted')
  BY <1>1, <1>8, RequestsRest
<1>12. Tables'
  BY <1>1, <1>7, <1>11 DEF IInv, Tables, Rests
<1>13. worker'[w].pc = "idle" /\ OnlyWorker(w) /\ "idle" \notin Ingesting
  BY <1>1 DEF Rests, Ingesting
<1>14. HoldersOK'
  BY <1>1, <1>13, HoldersRest DEF Holds
<1>15. JobsOK'
  BY <1>1, <1>8, <1>13, JobsRest DEF Purging
<1>16. RowsOK' /\ IngestsOK'
  <2>1. \A r \in Sources : IngestOK(w, r)'
    BY <1>13 DEF IngestOK
  <2>2. \A r \in Sources \ {s} : SameSource(r)
    BY <1>1, <1>7 DEF SameSource
  <2>3. ASSUME NEW v \in Workers \ {w} PROVE IngestOK(v, s)'
    BY <1>1, <1>5, <1>7, <1>8, <1>13 DEF IInv, IngestsOK, IngestOK, OnlyWorker, Visible
  <2> QED
    BY <1>1, <1>10, <1>13, <2>1, <2>2, <2>3, ContentRest DEF OnlyWorker
<1>17. PurgesOK'
  <2>1. Underway' \subseteq Underway
    BY <1>13, UnderwayShrinks DEF OnlyWorker
  <2>2. \A r \in Sources : Kept(r)
    BY <1>1, <2>1, Keeping DEF Stored
  <2> QED
    BY <1>1, <1>8, <1>9, <1>13, <2>2, PurgesRest DEF OnlyWorker
<1> QED
  BY <1>11, <1>12, <1>14, <1>15, <1>16, <1>17 DEF IInv

\* Raise and Die: the fault pays for the attempt that is lost.
LEMMA FaultStep ==
    ASSUME IInv, NEW w \in Workers, Die(w) \/ Raise(w)
    PROVE  IInv'
<1>1. /\ faults' = faults + 1 /\ faults < MaxFaults
      /\ UNCHANGED <<topic, src, versions, files, jobs, request, stray, unswept>>
  BY DEF Die, Raise, dbVars
<1>2. OnlyWorker(w) /\ worker' \in [Workers -> WorkerRecords]
      /\ \/ worker'[w].pc = "idle"
         \/ worker'[w].pc = "retry" /\ worker'[w].job = worker[w].job /\ Holds(w)
  BY Going DEF Die, Raise, IInv, Rests, Moves, Holds, Dispatched, Ingesting
<1>3. RequestsOK' /\ IsFiniteSet(Accepted')
  BY <1>1, RequestsRest
<1>4. Tables'
  <2>1. faults + 1 \in 0..MaxFaults
    BY <1>1, LimitsAssumption DEF IInv, Tables
  <2> QED
    BY <1>1, <1>2, <1>3, <2>1 DEF IInv, Tables
<1>5. worker'[w].pc \notin Ingesting \cup {"load", "failentity", "purge", "erase", "finish"}
  BY <1>2 DEF Ingesting
<1>6. HoldersOK'
  BY <1>1, <1>2, <1>5, HoldersRest DEF Holds
<1>7. faults \in Int
  BY LimitsAssumption DEF IInv, Tables
<1>8. ASSUME NEW j \in PurgeJobs PROVE AttemptsOK(j)'
  <2>1. AttemptsOK(j)
    BY DEF IInv, JobsOK
  <2>2. jobs[j].attempts \in Int
    BY Jobs, LimitsAssumption DEF IInv, Tables, JobRecords
  <2> QED
    BY <1>1, <1>7, <2>1, <2>2 DEF AttemptsOK
<1>9. JobsOK'
  BY <1>1, <1>8 DEF IInv, JobsOK, SourceJobsOK, TopicJobOK
<1>10. \A v \in Workers : worker'[v].pc \in Ingesting => worker'[v] = worker[v]
  BY <1>2, <1>5 DEF OnlyWorker
<1>11. RowsOK' /\ IngestsOK'
  BY <1>1, <1>10, ContentStays
<1>12. PurgesOK'
  <2>1. Underway' \subseteq Underway
    BY <1>10, UnderwayShrinks
  <2>2. \A r \in Sources : Kept(r)
    BY <1>1, <2>1, Keeping DEF Stored
  <2>3. Rows' = Rows
    BY <1>1 DEF Rows
  <2> QED
    BY <1>1, <1>2, <1>5, <2>2, <2>3, PurgesRest DEF OnlyWorker
<1> QED
  BY <1>3, <1>4, <1>6, <1>9, <1>11, <1>12 DEF IInv

\* Claim: a job is taken by one worker at a time.
LEMMA ClaimStep ==
    ASSUME IInv, NEW w \in Workers, NEW j \in JobIds, Claim(w, j)
    PROVE  IInv'
<1> DEFINE row == [jobs[j] EXCEPT !.status = "running",
                      !.attempts = IF @ < JobAttempts THEN @ + 1 ELSE @]
           work == [pc |-> IF j[1] = "ingest" THEN "load" ELSE "purge",
                    job |-> j]
<1>1. /\ worker[w].pc = "idle" /\ jobs[j].status \in Queue
      /\ UNCHANGED <<topic, src, versions, files, request, stray, unswept, faults>>
      /\ jobs[j].status = "running" => ~Held(j)
  BY DEF Claim, Doing, Queue
<1>2. jobs[j] \in JobRecords
  BY DEF IInv, Tables
<1>3. jobs' = [jobs EXCEPT ![j] = row] /\ worker' = [worker EXCEPT ![w] = work]
  <2>1. jobs' = [jobs EXCEPT ![j] = row]
    BY <1>2 DEF Claim, IInv, Tables, JobRecords
  <2> QED
    BY <2>1 DEF Claim
<1>4. row \in JobRecords /\ row.status = "running"
      /\ row.attempts <= jobs[j].attempts + 1
  <2> DEFINE a == IF jobs[j].attempts < JobAttempts THEN jobs[j].attempts + 1
                  ELSE jobs[j].attempts
  <2>1. a \in 0..JobAttempts /\ a <= jobs[j].attempts + 1
    BY <1>2, LimitsAssumption DEF JobRecords
  <2>2. row = [jobs[j] EXCEPT !.status = "running", !.attempts = a]
    BY <1>2 DEF JobRecords
  <2> HIDE DEF a, row
  <2> QED
    BY <1>2, <2>1, <2>2 DEF JobRecords, Queue
<1>5. work \in WorkerRecords /\ work.job = j /\ work.pc \in {"load", "purge"}
      /\ (j \in PurgeJobs => work.pc = "purge")
      /\ (work.pc = "load" => \E s \in Sources : j = Ingest(s))
      /\ (work.pc = "purge" => j \in PurgeJobs)
  BY Ids, Jobs DEF WorkerRecords, Dispatched
<1> HIDE DEF row, work
<1>6. /\ jobs' \in [JobIds -> JobRecords] /\ jobs'[j] = row
      /\ \A i \in JobIds \ {j} : jobs'[i] = jobs[i]
      /\ worker' \in [Workers -> WorkerRecords] /\ worker'[w] = work
      /\ OnlyWorker(w)
  BY <1>3, <1>4, <1>5 DEF IInv, Tables, OnlyWorker
<1>7. ASSUME NEW v \in Workers, Holds(v) PROVE worker[v].job /= j
  <2>1. CASE jobs[j].status = "running"
    BY <1>1, <1>7, <2>1 DEF Held, Holds
  <2>2. CASE jobs[j].status = "queued"
    BY <1>7, <2>2 DEF IInv, HoldersOK, HolderOK
  <2> QED
    BY <1>1, <2>1, <2>2 DEF Queue
<1>8. RequestsOK' /\ IsFiniteSet(Accepted')
  BY <1>1, RequestsRest
<1>9. Tables'
  BY <1>1, <1>6, <1>8 DEF IInv, Tables
<1>10. HoldersOK'
  <2>1. ASSUME NEW v \in Workers PROVE HolderOK(v)'
    <3>1. CASE v = w
      <4>1. work.pc \notin Ingesting \cup {"failentity", "erase", "idle"}
        BY <1>5 DEF Ingesting
      <4> QED
        BY <1>4, <1>5, <1>6, <3>1, <4>1 DEF HolderOK
    <3>2. CASE v /= w
      <4>1. HolderOK(v) /\ worker'[v] = worker[v] /\ (Holds(v)' <=> Holds(v))
        BY <1>6, <3>2 DEF IInv, HoldersOK, Holds, OnlyWorker
      <4>2. Holds(v) => jobs'[worker[v].job] = jobs[worker[v].job]
        BY <1>6, <1>7, <4>1 DEF HolderOK, Holds
      <4> QED
        BY <4>1, <4>2 DEF HolderOK
    <3> QED
      BY <3>1, <3>2
  <2>2. OneHolder'
    <3> SUFFICES ASSUME NEW u \in Workers, NEW v \in Workers, Holds(u)',
                        Holds(v)', worker'[u].job = worker'[v].job
                 PROVE  u = v
      BY DEF OneHolder
    <3>1. \A x \in Workers \ {w} : worker'[x] = worker[x]
                                   /\ (Holds(x)' => Holds(x) /\ worker'[x].job /= j)
      BY <1>6, <1>7 DEF OnlyWorker, Holds
    <3> QED
      BY <1>5, <1>6, <3>1 DEF IInv, HoldersOK, OneHolder
  <2> QED
    BY <2>1, <2>2 DEF HoldersOK
<1>11. JobsOK'
  <2>1. ASSUME NEW i \in PurgeJobs PROVE AttemptsOK(i)'
    <3>1. AttemptsOK(i) /\ i \in JobIds
      BY Jobs DEF IInv, JobsOK
    <3>2. CASE i = j
      <4>1. \A v \in Workers : ~(worker[v].pc \in Purging /\ worker[v].job = j)
        BY <1>7 DEF Holds, Purging
      <4>2. jobs[j].attempts <= faults
        BY <1>1, <3>1, <3>2, <4>1 DEF AttemptsOK, Queue
      <4>3. row.attempts <= faults + 1
        <5>1. /\ jobs[j].attempts \in Int /\ row.attempts \in Int
              /\ faults \in Int
          BY <1>2, <1>4, LimitsAssumption DEF JobRecords, IInv, Tables
        <5> QED
          BY <1>4, <4>2, <5>1
      <4>4. worker'[w].pc \in Purging /\ worker'[w].job = j
        BY <1>5, <1>6, <3>2 DEF Purging
      <4> QED
        BY <1>1, <1>4, <1>6, <3>2, <4>3, <4>4 DEF AttemptsOK
    <3>3. CASE i /= j
      <4>1. jobs'[i] = jobs[i]
        BY <1>6, <3>1, <3>3
      <4>2. ASSUME NEW v \in Workers, worker[v].pc \in Purging, worker[v].job = i
            PROVE  worker'[v].pc \in Purging /\ worker'[v].job = i
        BY <1>1, <1>6, <4>2 DEF OnlyWorker, Purging
      <4> QED
        BY <1>1, <3>1, <4>1, <4>2 DEF AttemptsOK
    <3> QED
      BY <3>2, <3>3
  <2>2. \A i \in JobIds : /\ jobs'[i].status = "none" <=> jobs[i].status = "none"
                          /\ jobs'[i].status = "done" => jobs[i].status = "done"
    BY <1>1, <1>4, <1>6 DEF Queue
  <2>3. ASSUME NEW s \in Sources PROVE SourceJobsOK(s)'
    BY <1>1, <2>2, Jobs DEF IInv, JobsOK, SourceJobsOK
  <2>4. TopicJobOK'
    BY <1>1, <2>2, Jobs DEF IInv, JobsOK, TopicJobOK
  <2> QED
    BY <2>1, <2>3, <2>4 DEF JobsOK
<1>12. \A v \in Workers : worker'[v].pc \in Ingesting => worker'[v] = worker[v]
  BY <1>5, <1>6 DEF OnlyWorker, Ingesting
<1>13. RowsOK' /\ IngestsOK'
  BY <1>1, <1>12, ContentStays
<1>14. PurgesOK'
  <2>1. Underway' \subseteq Underway
    BY <1>12, UnderwayShrinks
  <2>2. \A r \in Sources : Kept(r)
    BY <1>1, <2>1, Keeping DEF Stored
  <2>3. Rows' = Rows
    BY <1>1 DEF Rows
  <2>4. \A s \in Sources : jobs'[PurgeSource(s)].status = "done" =>
                               jobs[PurgeSource(s)].status = "done"
    BY <1>4, <1>6, Jobs
  <2>5. \A v \in Workers : worker'[v].pc \in {"erase", "finish"} => worker'[v] = worker[v]
    BY <1>5, <1>6 DEF OnlyWorker
  <2> QED
    BY <1>1, <2>2, <2>3, <2>4, <2>5, PurgesRest
<1> QED
  BY <1>8, <1>9, <1>10, <1>11, <1>13, <1>14 DEF IInv

-----------------------------------------------------------------------------
(* The steps of the user.                                                  *)

\* What a step of no worker on the row s, whose topic stays, has to show.
LEMMA UserMoves ==
    ASSUME IInv, NEW s \in Sources, src[s].row /= "none",
           src' \in [Sources -> RowRecords],
           \A r \in Sources \ {s} : src'[r] = src[r],
           src'[s].row = "deleted" \/ src'[s].row = src[s].row,
           jobs' \in [JobIds -> JobRecords],
           \A j \in JobIds :
               \/ jobs'[j] = jobs[j]
               \/ /\ jobs[j].status /= "running"
                  /\ jobs'[j].status = "queued" /\ jobs'[j].attempts = 0
               \/ /\ jobs[j].status = "queued" /\ j \notin PurgeJobs
                  /\ jobs'[j].status = "done",
           \A j \in PurgeJobs \ {PurgeSource(s)} : jobs'[j] = jobs[j],
           \A r \in Sources \ {s} : jobs'[Ingest(r)] = jobs[Ingest(r)],
           UNCHANGED <<topic, versions, files, request, worker, stray, unswept, faults>>,
           RowOK(s)', SourceJobsOK(s)', \A v \in Workers : IngestOK(v, s)'
    PROVE  IInv'
<1>1. RequestsOK' /\ IsFiniteSet(Accepted')
  <2>1. \A r \in Sources : src'[r].row = "none" <=> src[r].row = "none"
    OBVIOUS
  <2> QED
    BY <2>1, RequestsRest
<1>2. Tables'
  BY <1>1 DEF IInv, Tables
<1>3. HoldersOK' /\ \A j \in PurgeJobs : AttemptsOK(j)'
  BY QueueStep
<1>4. JobsOK'
  <2>1. ASSUME NEW r \in Sources PROVE SourceJobsOK(r)'
    <3>1. CASE r /= s
      <4>1. /\ src'[r] = src[r] /\ jobs'[Ingest(r)] = jobs[Ingest(r)]
            /\ jobs'[PurgeSource(r)] = jobs[PurgeSource(r)]
        BY <3>1, Ids, Jobs
      <4> QED
        BY <4>1 DEF IInv, JobsOK, SourceJobsOK
    <3> QED
      BY <3>1
  <2>2. TopicJobOK'
    <3>1. jobs'[PurgeTopic] = jobs[PurgeTopic]
      BY Ids, Jobs
    <3> QED
      BY <3>1 DEF IInv, JobsOK, TopicJobOK
  <2> QED
    BY <1>3, <2>1, <2>2 DEF JobsOK
<1>5. RowsOK' /\ IngestsOK'
  <2>1. \A r \in Sources \ {s} : SameSource(r)
    BY DEF SameSource
  <2> QED
    BY <2>1, ContentRest
<1>6. PurgesOK'
  <2>1. \A r \in Sources : Kept(r)
    BY Keeping DEF Underway, Stored
  <2>2. \A r \in Sources : jobs'[PurgeSource(r)].status = "done" =>
                               jobs[PurgeSource(r)].status = "done"
    BY Jobs
  <2>3. \A r \in Sources : topic = "deleted" /\ r \in Rows' => r \in Rows
    <3>1. topic = "deleted" => src[s].row /= "gone"
      BY DEF IInv, RowsOK, RowOK
    <3> QED
      BY <3>1 DEF Rows, IInv, Tables, RowRecords
  <2> QED
    BY <2>1, <2>2, <2>3, PurgesRest
<1> QED
  BY <1>1, <1>2, <1>3, <1>4, <1>5, <1>6 DEF IInv

\* Delete: the row does not show any more, and its purge is queued.
LEMMA DeleteStep ==
    ASSUME IInv, NEW s \in Sources, Delete(s)
    PROVE  IInv'
<1> DEFINE js == CancelQueued(jobs, Ingest(s))
           row == [src[s] EXCEPT !.row = "deleted"]
<1>1. /\ src[s].row = "live" /\ topic = "live"
      /\ jobs' = Enqueued(js, PurgeSource(s))
      /\ UNCHANGED <<topic, versions, files, request, worker, stray, unswept, faults>>
  BY DEF Delete, Visible
<1>2. src[s] \in RowRecords /\ jobs \in [JobIds -> JobRecords]
  BY DEF IInv, Tables
<1>3. src' = [src EXCEPT ![s] = row]
  BY <1>2 DEF Delete, RowRecords, IInv, Tables
<1>4. /\ row \in RowRecords
      /\ row.row = "deleted" /\ row.kind = src[s].kind
      /\ row.status = src[s].status
  BY <1>2 DEF RowRecords
<1>5. /\ js \in [JobIds -> JobRecords]
      /\ \A i \in JobIds \ {Ingest(s)} : js[i] = jobs[i]
      /\ jobs[Ingest(s)].status = "queued" => js[Ingest(s)].status = "done"
      /\ jobs[Ingest(s)].status /= "queued" => js[Ingest(s)] = jobs[Ingest(s)]
  BY <1>2, Canceling, Jobs
<1> HIDE DEF js, row
<1>6. jobs[PurgeSource(s)].status = "none" /\ js[PurgeSource(s)] = jobs[PurgeSource(s)]
  BY <1>1, <1>5, Ids, Jobs DEF IInv, JobsOK, SourceJobsOK
<1>7. /\ jobs' \in [JobIds -> JobRecords]
      /\ \A i \in JobIds \ {PurgeSource(s)} : jobs'[i] = js[i]
      /\ jobs'[PurgeSource(s)].status = "queued"
      /\ jobs'[PurgeSource(s)].attempts = 0
  BY <1>1, <1>5, <1>6, Enqueueing, Jobs DEF Queue
<1>8. /\ src' \in [Sources -> RowRecords] /\ src'[s] = row
      /\ \A r \in Sources \ {s} : src'[r] = src[r]
  BY <1>3, <1>4 DEF IInv, Tables
<1>9. \A j \in JobIds :
          \/ jobs'[j] = jobs[j]
          \/ /\ jobs[j].status /= "running"
             /\ jobs'[j].status = "queued" /\ jobs'[j].attempts = 0
          \/ /\ jobs[j].status = "queued" /\ j \notin PurgeJobs
             /\ jobs'[j].status = "done"
  BY <1>5, <1>6, <1>7, Ids, Jobs
<1>10. \A j \in PurgeJobs \ {PurgeSource(s)} : jobs'[j] = jobs[j]
  BY <1>5, <1>7, Jobs
<1>11. \A r \in Sources \ {s} : jobs'[Ingest(r)] = jobs[Ingest(r)]
  BY <1>5, <1>7, Ids, Jobs
<1>12. RowOK(s)'
  <2>1. RowOK(s)
    BY DEF IInv, RowsOK
  <2>2. s \in Rows
    BY <1>1 DEF Rows
  <2>3. ~Visible(s)'
    BY <1>4, <1>8 DEF Visible
  <2> QED
    BY <1>1, <1>4, <1>8, <2>1, <2>2, <2>3 DEF RowOK
<1>13. SourceJobsOK(s)'
  BY <1>4, <1>7, <1>8 DEF SourceJobsOK
<1>14. \A v \in Workers : IngestOK(v, s)'
  <2>1. ~Visible(s)'
    BY <1>4, <1>8 DEF Visible
  <2> QED
    BY <1>1, <2>1 DEF IInv, IngestsOK, IngestOK
<1> QED
  BY <1>1, <1>4, <1>7, <1>8, <1>9, <1>10, <1>11, <1>12, <1>13, <1>14, UserMoves

\* Retry: a row that failed for want of nothing but luck has room for a version.
LEMMA UserRetryStep ==
    ASSUME IInv, NEW s \in Sources, Retry(s)
    PROVE  IInv'
<1> DEFINE row == [src[s] EXCEPT !.status = "processing"]
<1>1. /\ src[s].row = "live" /\ MaxVersions \notin versions[s]
      /\ jobs' = Enqueued(jobs, Ingest(s))
      /\ UNCHANGED <<topic, versions, files, request, worker, stray, unswept, faults>>
  BY DEF Retry, Visible
<1>2. src[s] \in RowRecords /\ jobs \in [JobIds -> JobRecords]
  BY DEF IInv, Tables
<1>3. src' = [src EXCEPT ![s] = row]
  BY <1>2 DEF Retry, RowRecords, IInv, Tables
<1>4. /\ row \in RowRecords
      /\ row.row = src[s].row /\ row.kind = src[s].kind
      /\ row.file = src[s].file /\ row.status = "processing"
  BY <1>2 DEF RowRecords
<1> HIDE DEF row
<1>5. /\ jobs' \in [JobIds -> JobRecords]
      /\ \A i \in JobIds \ {Ingest(s)} : jobs'[i] = jobs[i]
      /\ \/ jobs'[Ingest(s)] = jobs[Ingest(s)]
         \/ /\ jobs[Ingest(s)].status /= "running"
            /\ jobs'[Ingest(s)].status = "queued"
            /\ jobs'[Ingest(s)].attempts = 0
  BY <1>1, <1>2, Enqueueing, Jobs DEF Queue
<1>6. /\ src' \in [Sources -> RowRecords] /\ src'[s] = row
      /\ \A r \in Sources \ {s} : src'[r] = src[r]
  BY <1>3, <1>4 DEF IInv, Tables
<1>7. RowOK(s)'
  <2>1. RowOK(s)
    BY DEF IInv, RowsOK
  <2>2. /\ s \in Rows' <=> s \in Rows
        /\ Visible(s)' <=> Visible(s)
    BY <1>1, <1>4, <1>6 DEF Rows, Visible
  <2> QED
    BY <1>1, <1>4, <1>6, <2>1, <2>2 DEF RowOK
<1>8. SourceJobsOK(s)'
  <2>1. SourceJobsOK(s) /\ jobs'[PurgeSource(s)] = jobs[PurgeSource(s)]
    BY <1>5, Ids, Jobs DEF IInv, JobsOK
  <2> QED
    BY <1>1, <1>4, <1>6, <2>1 DEF SourceJobsOK
<1>9. \A v \in Workers : IngestOK(v, s)'
  BY <1>1, <1>4, <1>6 DEF IInv, IngestsOK, IngestOK, Visible
<1>10. /\ \A j \in PurgeJobs \ {PurgeSource(s)} : jobs'[j] = jobs[j]
       /\ \A r \in Sources \ {s} : jobs'[Ingest(r)] = jobs[Ingest(r)]
  BY <1>5, Ids, Jobs
<1>11. \A j \in JobIds :
           \/ jobs'[j] = jobs[j]
           \/ /\ jobs[j].status /= "running"
              /\ jobs'[j].status = "queued" /\ jobs'[j].attempts = 0
  BY <1>5
<1>12. src[s].row /= "none" /\ src'[s].row = src[s].row
  BY <1>1, <1>4, <1>6
<1> QED
  BY <1>1, <1>5, <1>6, <1>7, <1>8, <1>9, <1>10, <1>11, <1>12, UserMoves

\* CreateTopic and DeleteTopic: no row shows in a new topic or in a deleted one.
LEMMA TopicStep ==
    ASSUME IInv, CreateTopic \/ DeleteTopic
    PROVE  IInv'
<1>1. /\ UNCHANGED <<src, versions, files, request, worker, stray, unswept, faults>>
      /\ \/ topic = "none" /\ topic' = "live" /\ jobs' = jobs
         \/ /\ topic \in Open /\ topic' = "deleted"
            /\ jobs' = Enqueued(jobs, PurgeTopic)
  BY DEF CreateTopic, DeleteTopic
<1>2. jobs[PurgeTopic].status = "none"
  BY <1>1 DEF IInv, JobsOK, TopicJobOK, Open
<1>3. /\ jobs' \in [JobIds -> JobRecords]
      /\ \A i \in JobIds \ {PurgeTopic} : jobs'[i] = jobs[i]
      /\ \/ topic' = "live" /\ jobs' = jobs
         \/ /\ jobs'[PurgeTopic].status = "queued"
            /\ jobs'[PurgeTopic].attempts = 0
  BY <1>1, <1>2, Enqueueing, Jobs DEF IInv, Tables, Queue
<1>4. \A s \in Sources : ~Visible(s)'
  BY <1>1 DEF Visible, Open, IInv, RowsOK, RowOK
<1>5. RequestsOK' /\ IsFiniteSet(Accepted')
  BY <1>1, RequestsRest
<1>6. Tables'
  BY <1>1, <1>3, <1>5 DEF IInv, Tables
<1>7. HoldersOK' /\ \A j \in PurgeJobs : AttemptsOK(j)'
  BY <1>1, <1>2, <1>3, QueueStep
<1>8. JobsOK'
  <2>1. ASSUME NEW s \in Sources PROVE SourceJobsOK(s)'
    BY <1>1, <1>3, Ids, Jobs DEF IInv, JobsOK, SourceJobsOK
  <2>2. TopicJobOK'
    BY <1>1, <1>2, <1>3 DEF TopicJobOK
  <2> QED
    BY <1>7, <2>1, <2>2 DEF JobsOK
<1>9. RowsOK'
  <2>1. ASSUME NEW s \in Sources PROVE RowOK(s)'
    <3>1. RowOK(s) /\ src[s].row /= "gone"
      BY <1>1 DEF IInv, RowsOK, RowOK, Open
    <3> QED
      BY <1>1, <1>4, <3>1 DEF RowOK, Rows
  <2> QED
    BY <2>1 DEF RowsOK
<1>10. IngestsOK'
  BY <1>1, <1>4 DEF IInv, IngestsOK, IngestOK
<1>11. PurgesOK'
  <2>1. \A r \in Sources : Kept(r)
    BY <1>1, Keeping DEF Underway, Stored
  <2>2. \A r \in Sources : jobs'[PurgeSource(r)] = jobs[PurgeSource(r)]
    BY <1>3, Ids, Jobs
  <2>3. topic /= "deleted" /\ topic /= "gone"
    BY <1>1 DEF Open
  <2> QED
    BY <1>1, <2>1, <2>2, <2>3, PurgesRest
<1> QED
  BY <1>5, <1>6, <1>7, <1>8, <1>9, <1>10, <1>11 DEF IInv

-----------------------------------------------------------------------------
(* The demo topic and the requests.                                        *)

\* EnsureDemo: the first topic of all, with a material that is ready; if it
\* breaks off, its file is one of the strays.
LEMMA EnsureDemoStep ==
    ASSUME IInv, NEW s \in Sources, EnsureDemo(s)
    PROVE  IInv'
<1>1. /\ topic = "none"
      /\ files' = files \cup {s}
      /\ UNCHANGED <<jobs, request, worker, unswept>>
      /\ \/ /\ topic' = "demo"
            /\ src' = [src EXCEPT ![s] = DemoRow]
            /\ versions' = [versions EXCEPT ![s] = {1}]
            /\ UNCHANGED <<stray, faults>>
         \/ /\ faults < MaxFaults
            /\ faults' = faults + 1
            /\ stray' = stray \cup {s}
            /\ UNCHANGED <<topic, src, versions>>
  BY DEF EnsureDemo
<1>2. /\ \A r \in Sources : src[r].row = "none" /\ versions[r] = {}
      /\ \A q \in Requests : request[q].pc = "idle"
      /\ \A r \in Sources : r \in Stored => r \in stray
  BY <1>1 DEF IInv, RowsOK, RowOK, RequestsOK, RequestOK, FileOwned
<1>3. /\ \A r \in Sources : /\ jobs[Ingest(r)].status = "none"
                            /\ jobs[PurgeSource(r)].status = "none"
      /\ jobs[PurgeTopic].status = "none"
  <2>1. jobs[PurgeTopic].status = "none"
    BY <1>1 DEF IInv, JobsOK, TopicJobOK
  <2>2. ASSUME NEW r \in Sources
        PROVE  /\ jobs[Ingest(r)].status = "none"
               /\ jobs[PurgeSource(r)].status = "none"
    <3>1. SourceJobsOK(r) /\ src[r].row = "none"
      BY <1>2 DEF IInv, JobsOK
    <3> QED
      BY <3>1 DEF SourceJobsOK
  <2> QED
    BY <2>1, <2>2
<1>4. ASSUME NEW v \in Workers PROVE ~Holds(v)
  <2>1. Holds(v) => worker[v].job \in JobIds
                    /\ jobs[worker[v].job].status = "running"
    BY DEF IInv, HoldersOK, HolderOK, Holds
  <2> QED
    BY <1>3, <2>1, Jobs
<1>5. \A v \in Workers : worker[v].pc \in {"idle", "failentity"}
                         /\ worker[v].pc \notin Ingesting
  BY <1>4 DEF Holds, Ingesting
<1>6. /\ DemoRow \in RowRecords
      /\ DemoRow.row = "live" /\ DemoRow.kind = "file" /\ DemoRow.file
      /\ DemoRow.status = "ready" /\ DemoRow.version = 1
  <2>1. NoRow \in RowRecords /\ 1 \in 0..MaxVersions /\ "demo" \in Contents
    BY Blank, LimitsAssumption DEF Contents
  <2> QED
    BY <2>1 DEF DemoRow, RowRecords
<1>7. /\ src' \in [Sources -> RowRecords]
      /\ versions' \in [Sources -> SUBSET (1..MaxVersions)]
      /\ \A r \in Sources \ {s} : src'[r] = src[r] /\ versions'[r] = versions[r]
      /\ \/ /\ topic' = "demo" /\ src'[s] = DemoRow /\ versions'[s] = {1}
            /\ UNCHANGED <<stray, faults>>
         \/ /\ topic' = "none" /\ src'[s] = src[s] /\ versions'[s] = {}
            /\ faults < MaxFaults /\ faults' = faults + 1
            /\ stray' = stray \cup {s}
  <2>1. {1} \subseteq 1..MaxVersions
    BY LimitsAssumption
  <2> QED
    BY <1>1, <1>2, <1>6, <2>1 DEF IInv, Tables
<1>8. RequestsOK' /\ IsFiniteSet(Accepted')
  <2>1. Accepted' = {} /\ IsFiniteSet({})
    BY <1>1, <1>2, FS_EmptySet DEF Accepted
  <2>2. ASSUME NEW r \in Sources PROVE FileOwned(r)'
    BY <1>1, <1>2, <1>6, <1>7 DEF FileOwned, Stored
  <2> QED
    BY <1>1, <1>2, <2>1, <2>2 DEF RequestsOK, RequestOK, OneRequest
<1>9. Tables'
  <2>1. faults' \in 0..MaxFaults
    BY <1>7, LimitsAssumption DEF IInv, Tables
  <2> QED
    BY <1>1, <1>7, <1>8, <2>1 DEF IInv, Tables
<1>10. HoldersOK' /\ \A j \in PurgeJobs : AttemptsOK(j)'
  BY <1>1, <1>7, QueueStep
<1>11. JobsOK'
  <2>1. ASSUME NEW r \in Sources PROVE SourceJobsOK(r)'
    <3>1. src'[r].row \in {"none", "live"}
      BY <1>2, <1>6, <1>7
    <3> QED
      BY <1>1, <1>3, <3>1 DEF SourceJobsOK
  <2>2. TopicJobOK'
    BY <1>1, <1>3, <1>7 DEF TopicJobOK
  <2> QED
    BY <1>10, <2>1, <2>2 DEF JobsOK
<1>12. ASSUME NEW r \in Sources PROVE RowOK(r)'
  <2>1. RowOK(r)
    BY DEF IInv, RowsOK
  <2>2. {1} = 1..1 /\ 1 \in 0..MaxVersions
    BY LimitsAssumption
  <2>3. CASE r = s
    <3>1. CASE src'[s] = src[s]
      <4>1. topic' = "none" /\ versions'[s] = versions[s] /\ src[s].row = "none"
        BY <1>2, <1>6, <1>7, <3>1
      <4> QED
        BY <1>1, <2>1, <2>3, <3>1, <4>1 DEF RowOK, Visible, Rows, Open
    <3>2. CASE src'[s] = DemoRow /\ topic' = "demo" /\ versions'[s] = {1}
      BY <1>1, <1>6, <2>2, <2>3, <3>2 DEF RowOK
    <3> QED
      BY <1>7, <3>1, <3>2
  <2>4. CASE r /= s
    <3>1. src'[r] = src[r] /\ versions'[r] = versions[r] /\ src[r].row = "none"
          /\ topic' /= "gone"
      BY <1>2, <1>7, <2>4
    <3> QED
      BY <2>1, <3>1 DEF RowOK, Visible, Rows
  <2> QED
    BY <2>3, <2>4
<1>13. IngestsOK'
  BY <1>1, <1>5 DEF IngestsOK, IngestOK
<1>14. PurgesOK'
  BY <1>1, <1>2, <1>3, <1>5, <1>6, <1>7, Jobs
     DEF PurgesOK, TopicPurgeOK, PurgeOK, PurgedOK
<1> QED
  BY <1>8, <1>9, <1>10, <1>11, <1>12, <1>13, <1>14 DEF IInv, RowsOK

\* A step that touches neither rows, topic nor jobs, and the file of no row.
LEMMA RequestMoves ==
    ASSUME IInv, UNCHANGED <<topic, src, versions, jobs, worker>>,
           faults' \in {faults, faults + 1}, faults' \in 0..MaxFaults,
           stray \subseteq stray', stray' \subseteq Sources,
           files' \subseteq Sources,
           unswept' \subseteq files',
           \A s \in Sources : src[s].row /= "none" =>
               /\ s \in files' <=> s \in files
               /\ s \in unswept' <=> s \in unswept,
           request' \in [Requests -> RequestRecords],
           IsFiniteSet(Accepted'), RequestsOK'
    PROVE  IInv'
<1>1. Tables'
  BY DEF IInv, Tables
<1>2. HoldersOK' /\ \A j \in PurgeJobs : AttemptsOK(j)'
  BY QueueStep
<1>3. JobsOK'
  BY <1>2 DEF IInv, JobsOK, SourceJobsOK, TopicJobOK
<1>4. \A s \in Sources : Visible(s) => (s \in files' <=> s \in files)
  BY DEF Visible
<1>5. RowsOK'
  <2>1. ASSUME NEW s \in Sources PROVE RowOK(s)'
    BY <1>4 DEF IInv, RowsOK, RowOK, Visible, Rows
  <2> QED
    BY <2>1 DEF RowsOK
<1>6. IngestsOK'
  <2>1. ASSUME NEW v \in Workers, NEW s \in Sources PROVE IngestOK(v, s)'
    BY <1>4 DEF IInv, IngestsOK, IngestOK, Visible
  <2> QED
    BY <2>1 DEF IngestsOK
<1>7. PurgesOK'
  <2>1. \A s \in Sources : src[s].row /= "none" => Kept(s)
    BY Keeping DEF Underway, Stored
  <2>2. Rows' = Rows
    BY DEF Rows
  <2> QED
    BY <2>1, <2>2, PurgesRest DEF Rows
<1> QED
  BY <1>1, <1>2, <1>3, <1>5, <1>6, <1>7 DEF IInv

\* Check: the id of an accepted request is one nothing else has.
LEMMA CheckStep ==
    ASSUME IInv, NEW q \in Requests, NEW o \in Offers, Check(q, o)
    PROVE  IInv'
<1>1. PICK s \in Unused :
          request' = [p \in Requests |->
             IF p = q
               THEN [pc |-> IF o.kind = "file" THEN "put" ELSE "insert",
                     offer |-> o, id |-> s, met |-> Cardinality(Accepted)]
             ELSE IF p \in Accepted THEN [request[p] EXCEPT !.met = @ + 1]
             ELSE request[p]]
  BY DEF Check
<1> DEFINE new == [pc |-> IF o.kind = "file" THEN "put" ELSE "insert",
                   offer |-> o, id |-> s, met |-> Cardinality(Accepted)]
<1>2. /\ topic = "live" /\ request[q].pc = "idle"
      /\ UNCHANGED <<topic, src, versions, jobs, files, worker, stray, unswept, faults>>
  BY DEF Check, dbVars
<1>3. /\ s \in Sources /\ src[s].row = "none" /\ s \notin files
      /\ \A p \in Requests : request[p].id /= s
  BY DEF Unused
<1>4. Cardinality(Accepted) \in Nat
  BY FS_CardinalityType DEF IInv, Tables
<1>5. /\ new \in RequestRecords
      /\ new.pc \in {"put", "insert"} /\ new.offer = o /\ new.id = s
      /\ new.pc = "put" <=> o.kind = "file"
  BY <1>3, <1>4 DEF RequestRecords
<1> HIDE DEF new
<1>6. ASSUME NEW p \in Requests, p /= q
      PROVE  /\ request'[p] \in RequestRecords
             /\ request'[p].pc = request[p].pc
             /\ request'[p].offer = request[p].offer
             /\ request'[p].id = request[p].id
  <2>1. request[p] \in RequestRecords
    BY DEF IInv, Tables
  <2>2. CASE p \in Accepted
    <3>1. request'[p] = [request[p] EXCEPT !.met = @ + 1]
      BY <1>1, <1>6, <2>2
    <3> QED
      BY <2>1, <3>1 DEF RequestRecords
  <2>3. CASE p \notin Accepted
    BY <1>1, <1>6, <2>1, <2>3
  <2> QED
    BY <2>2, <2>3
<1>7. request' \in [Requests -> RequestRecords] /\ request'[q] = new
  <2>1. request'[q] = new
    BY <1>1 DEF new
  <2>2. DOMAIN request' = Requests /\ request' = [p \in Requests |-> request'[p]]
    BY <1>1
  <2> QED
    BY <1>5, <1>6, <2>1, <2>2
<1>8. IsFiniteSet(Accepted')
  <2>1. Accepted' = Accepted \cup {q}
    BY <1>5, <1>6, <1>7 DEF Accepted
  <2> QED
    BY <2>1, FS_AddElement DEF IInv, Tables
<1>9. RequestsOK'
  <2>1. ASSUME NEW p \in Requests PROVE RequestOK(p)'
    <3>1. CASE p = q
      BY <1>2, <1>3, <1>5, <1>7, <3>1 DEF RequestOK
    <3>2. CASE p /= q
      BY <1>2, <1>6, <3>2 DEF IInv, RequestsOK, RequestOK
    <3> QED
      BY <3>1, <3>2
  <2>2. OneRequest'
    BY <1>3, <1>5, <1>6, <1>7 DEF IInv, RequestsOK, OneRequest, Accepted
  <2>3. ASSUME NEW r \in Sources PROVE FileOwned(r)'
    <3> SUFFICES ASSUME src[r].row = "none", r \in Stored \ stray
                 PROVE  \E p \in Requests : request'[p].pc = "insert"
                                            /\ request'[p].id = r
      BY <1>2 DEF FileOwned, Stored
    <3>1. PICK p \in Requests : request[p].pc = "insert" /\ request[p].id = r
      BY DEF IInv, RequestsOK, FileOwned, Stored
    <3> QED
      BY <1>2, <1>6, <3>1
  <2> QED
    BY <2>1, <2>2, <2>3 DEF RequestsOK
<1> QED
  BY <1>2, <1>7, <1>8, <1>9, RequestMoves DEF IInv, Tables

\* Put: the file is stored before its row is there.
LEMMA PutStep ==
    ASSUME IInv, NEW q \in Requests, Put(q)
    PROVE  IInv'
<1> DEFINE s == request[q].id
           new == [request[q] EXCEPT !.pc = "insert"]
<1>1. /\ request[q].pc = "put" /\ files' = files \cup {s}
      /\ request' = [request EXCEPT ![q] = new]
      /\ UNCHANGED <<topic, src, versions, jobs, worker, stray, unswept, faults>>
  BY DEF Put, dbVars, IInv, Tables, RequestRecords
<1>2. request[q] \in RequestRecords /\ RequestOK(q)
  BY DEF IInv, Tables, RequestsOK
<1>3. s \in Sources /\ src[s].row = "none"
  BY <1>1, <1>2 DEF RequestOK
<1>4. /\ new \in RequestRecords /\ new.pc = "insert"
      /\ new.id = s /\ new.offer = request[q].offer
  BY <1>2 DEF RequestRecords
<1> HIDE DEF new
<1>5. /\ request' \in [Requests -> RequestRecords] /\ request'[q] = new
      /\ \A p \in Requests \ {q} : request'[p] = request[p]
  BY <1>1, <1>4 DEF IInv, Tables
<1>6. Accepted' = Accepted
  BY <1>1, <1>4, <1>5 DEF Accepted
<1>7. RequestsOK'
  <2>1. ASSUME NEW p \in Requests PROVE RequestOK(p)'
    <3>1. CASE p = q
      <4>1. /\ request[q].offer \in Offers /\ s \in Sources
            /\ src[s].row = "none" /\ topic /= "none"
        BY <1>1, <1>2 DEF RequestOK
      <4>2. s \in files'
        BY <1>1
      <4>3. request'[p].pc = "insert" /\ request'[p].id = s
            /\ request'[p].offer = request[q].offer
        BY <1>4, <1>5, <3>1
      <4> HIDE DEF s
      <4> QED
        BY <1>1, <4>1, <4>2, <4>3 DEF RequestOK
    <3>2. CASE p /= q
      BY <1>1, <1>5, <3>2 DEF IInv, RequestsOK, RequestOK
    <3> QED
      BY <3>1, <3>2
  <2>2. OneRequest'
    <3>1. \A p \in Requests : request'[p].id = request[p].id
      BY <1>4, <1>5
    <3>2. Accepted \subseteq Requests
      BY DEF Accepted
    <3> QED
      BY <1>6, <3>1, <3>2 DEF IInv, RequestsOK, OneRequest
  <2>3. ASSUME NEW r \in Sources PROVE FileOwned(r)'
    <3>1. CASE r = s
      BY <1>4, <1>5, <3>1 DEF FileOwned
    <3>2. CASE r /= s
      <4>1. FileOwned(r) /\ (r \in Stored' <=> r \in Stored)
        BY <1>1, <3>2 DEF IInv, RequestsOK, Stored
      <4>2. \A p \in Requests :
                request[p].pc = "insert" => request'[p] = request[p]
        BY <1>1, <1>5
      <4> QED
        BY <1>1, <4>1, <4>2 DEF FileOwned
    <3> QED
      BY <3>1, <3>2
  <2> QED
    BY <2>1, <2>2, <2>3 DEF RequestsOK
<1> QED
  BY <1>1, <1>3, <1>5, <1>6, <1>7, RequestMoves DEF IInv, Tables

\* A request ends: the file it leaves without a row is one of the strays.
LEMMA RequestEnds ==
    ASSUME IInv, NEW q \in Requests, request[q].pc /= "idle",
           request' = [request EXCEPT ![q] = NoRequest],
           topic' = topic, stray \subseteq stray',
           \A s \in Sources \ {request[q].id} :
               /\ src'[s].row = src[s].row
               /\ s \in files' <=> s \in files
               /\ s \in unswept => s \in unswept',
           \/ src'[request[q].id].row /= "none"
           \/ request[q].id \notin Stored' \ stray'
    PROVE  /\ request' \in [Requests -> RequestRecords]
           /\ IsFiniteSet(Accepted') /\ RequestsOK'
<1> DEFINE s == request[q].id
<1>1. /\ request' \in [Requests -> RequestRecords] /\ request'[q].pc = "idle"
      /\ \A p \in Requests \ {q} : request'[p] = request[p]
  BY Blank DEF IInv, Tables, NoRequest
<1>2. Accepted' = Accepted \ {q}
  BY <1>1 DEF Accepted
<1>3. IsFiniteSet(Accepted')
  BY <1>2, FS_RemoveElement DEF IInv, Tables
<1>4. \A p \in Accepted \ {q} : request[p].id /= s
  BY DEF IInv, RequestsOK, OneRequest, Accepted
<1> HIDE DEF s
<1>5. ASSUME NEW p \in Requests PROVE RequestOK(p)'
  <2>1. CASE p \in Accepted \ {q}
    <3>1. request'[p] = request[p] /\ request[p].id /= s /\ RequestOK(p)
          /\ request[p].pc /= "idle"
      BY <1>1, <1>4, <2>1 DEF IInv, RequestsOK, Accepted
    <3>2. request[p].id \in Sources
      BY <3>1 DEF RequestOK
    <3> QED
      BY <3>1, <3>2 DEF RequestOK, s
  <2>2. CASE p \notin Accepted \ {q}
    BY <1>1, <2>2 DEF RequestOK, Accepted
  <2> QED
    BY <2>1, <2>2
<1>6. OneRequest'
  BY <1>1, <1>2 DEF IInv, RequestsOK, OneRequest
<1>7. ASSUME NEW r \in Sources PROVE FileOwned(r)'
  <2>1. CASE r = s
    BY <2>1 DEF FileOwned, s
  <2>2. CASE r /= s
    BY <1>1, <2>2 DEF IInv, RequestsOK, FileOwned, Stored, s
  <2> QED
    BY <2>1, <2>2
<1> QED
  BY <1>1, <1>3, <1>5, <1>6, <1>7 DEF RequestsOK

\* Abort: a file without a row may stay.
LEMMA AbortStep ==
    ASSUME IInv, NEW q \in Requests, Abort(q)
    PROVE  IInv'
<1>1. /\ request[q].pc /= "idle"
      /\ faults' = faults + 1 /\ faults < MaxFaults
      /\ stray' = stray \cup ({request[q].id} \cap files)
      /\ request' = [request EXCEPT ![q] = NoRequest]
      /\ UNCHANGED <<topic, src, versions, jobs, files, worker, unswept>>
  BY DEF Abort, dbVars
<1>2. /\ request' \in [Requests -> RequestRecords]
      /\ IsFiniteSet(Accepted') /\ RequestsOK'
  BY <1>1, RequestEnds DEF Stored
<1>3. faults' \in 0..MaxFaults /\ stray' \subseteq Sources
  BY <1>1, LimitsAssumption DEF IInv, Tables
<1> QED
  BY <1>1, <1>2, <1>3, RequestMoves DEF IInv, Tables

\* Insert: the row appears with its file, or the file goes, or it is a stray.
LEMMA InsertStep ==
    ASSUME IInv, NEW q \in Requests, Insert(q)
    PROVE  IInv'
<1>o. PICK o : o = request[q].offer
  OBVIOUS
<1>s. PICK s : s = request[q].id
  OBVIOUS
<1> DEFINE lost == WithKey(o.key) /= {}
<1>1. /\ request[q].pc = "insert"
      /\ request' = [request EXCEPT ![q] = NoRequest]
      /\ DeleteSources(IF lost THEN {s} ELSE {})
      /\ stray' = IF ~lost /\ topic /= "live" /\ s \in files
                    THEN stray \cup {s} ELSE stray
      /\ UNCHANGED <<topic, versions, worker>>
  BY <1>o, <1>s DEF Insert
<1>2. /\ o \in Offers /\ s \in Sources /\ src[s].row = "none"
      /\ o.kind = "file" => s \in files
  BY <1>1, <1>o, <1>s DEF IInv, RequestsOK, RequestOK
<1>6. Removes(IF lost THEN {s} ELSE {})
  BY <1>1, Removing DEF IInv, Tables
<1>3. stray \subseteq stray' /\ stray' \subseteq Sources /\ files' \subseteq files
  BY <1>1, <1>2, <1>6 DEF IInv, Tables, Removes
<1>4. CASE lost \/ topic /= "live"
  <2>1. UNCHANGED <<src, jobs>>
    BY <1>4, <1>o, <1>s DEF Insert
  <2>2. s \notin Stored' \ stray'
    BY <1>1, <1>4, <1>6 DEF Removes, Stored
  <2>3. \A r \in Sources \ {s} : /\ r \in files' <=> r \in files
                                 /\ r \in unswept' <=> r \in unswept
    BY <1>6 DEF Removes
  <2>5. unswept' \subseteq files' /\ faults' \in {faults, faults + 1}
        /\ faults' \in 0..MaxFaults
    BY <1>6 DEF Removes
  <2> HIDE DEF lost
  <2>4. /\ request' \in [Requests -> RequestRecords]
        /\ IsFiniteSet(Accepted') /\ RequestsOK'
    BY <1>1, <1>3, <1>s, <2>1, <2>2, <2>3, RequestEnds
  <2> QED
    BY <1>1, <1>2, <1>3, <2>1, <2>3, <2>4, <2>5, RequestMoves DEF IInv, Tables
<1>5. CASE ~lost /\ topic = "live"
  <2>1. /\ src' = [src EXCEPT ![s] = Inserted(o)]
        /\ jobs' = Enqueued(jobs, Ingest(s))
        /\ UNCHANGED <<files, unswept, stray, faults>>
    BY <1>1, <1>5, <1>o, <1>s DEF Insert, DeleteSources
  <2>2. /\ Inserted(o) \in RowRecords
        /\ Inserted(o).row = "live" /\ Inserted(o).kind = o.kind
        /\ Inserted(o).status = "processing"
        /\ Inserted(o).file <=> o.kind = "file"
    <3>1. /\ o.kind \in {"file", "web"} /\ o.size \in Nat
          /\ o.key \in Keys /\ o.content \in Contents
          /\ 0 \in 0..MaxVersions
      BY <1>2, OffersAssumption, LimitsAssumption DEF Keys, Contents
    <3> QED
      BY <3>1 DEF Inserted, RowRecords
  <2> HIDE DEF lost
  <2>3. /\ src' \in [Sources -> RowRecords] /\ src'[s] = Inserted(o)
        /\ \A r \in Sources \ {s} : src'[r] = src[r]
    BY <1>2, <2>1, <2>2 DEF IInv, Tables
  <2>4. jobs[Ingest(s)].status = "none" /\ jobs[PurgeSource(s)].status = "none"
    BY <1>2 DEF IInv, JobsOK, SourceJobsOK
  <2>5. /\ jobs' \in [JobIds -> JobRecords]
        /\ \A i \in JobIds \ {Ingest(s)} : jobs'[i] = jobs[i]
        /\ jobs'[Ingest(s)].status = "queued"
        /\ jobs'[Ingest(s)].attempts = 0
    BY <1>2, <2>1, <2>4, Enqueueing, Jobs DEF IInv, Tables, Queue
  <2>6. /\ request' \in [Requests -> RequestRecords]
        /\ IsFiniteSet(Accepted') /\ RequestsOK'
    BY <1>1, <1>s, <2>1, <2>2, <2>3, RequestEnds
  <2>7. Tables'
    BY <1>1, <2>1, <2>3, <2>5, <2>6 DEF IInv, Tables
  <2>8. HoldersOK' /\ \A j \in PurgeJobs : AttemptsOK(j)'
    BY <1>1, <2>1, <2>4, <2>5, QueueStep
  <2>9. JobsOK'
    <3>1. ASSUME NEW r \in Sources PROVE SourceJobsOK(r)'
      <4>1. jobs'[PurgeSource(r)] = jobs[PurgeSource(r)]
        BY <1>2, <2>5, Ids, Jobs
      <4>2. CASE r = s
        BY <2>2, <2>3, <2>4, <4>1, <4>2 DEF SourceJobsOK
      <4>3. CASE r /= s
        <5>1. src'[r] = src[r] /\ jobs'[Ingest(r)] = jobs[Ingest(r)]
          BY <1>2, <2>3, <2>5, <4>3, Ids, Jobs
        <5> QED
          BY <4>1, <5>1 DEF IInv, JobsOK, SourceJobsOK
      <4> QED
        BY <4>2, <4>3
    <3>2. TopicJobOK'
      <4>1. jobs'[PurgeTopic] = jobs[PurgeTopic]
        BY <1>2, <2>5, Ids, Jobs
      <4> QED
        BY <1>1, <4>1 DEF IInv, JobsOK, TopicJobOK
    <3> QED
      BY <2>8, <3>1, <3>2 DEF JobsOK
  <2>10. RowsOK' /\ IngestsOK'
    <3>1. RowOK(s) /\ versions[s] = {}
      BY <1>2 DEF IInv, RowsOK, RowOK
    <3>2. RowOK(s)'
      BY <1>1, <1>2, <1>5, <2>1, <2>2, <2>3, <3>1, OffersAssumption DEF RowOK
    <3>3. \A v \in Workers : IngestOK(v, s)'
      <4> SUFFICES ASSUME NEW v \in Workers, worker[v].pc \in Ingesting,
                          worker[v].job = Ingest(s)
                   PROVE  FALSE
        BY <1>1 DEF IngestOK
      <4>1. Holds(v) /\ HolderOK(v)
        BY DEF Holds, Ingesting, IInv, HoldersOK
      <4> QED
        BY <2>4, <4>1 DEF HolderOK
    <3>4. \A r \in Sources \ {s} : SameSource(r)
      BY <1>1, <2>1, <2>3 DEF SameSource
    <3> QED
      BY <1>1, <1>2, <3>2, <3>3, <3>4, ContentRest
  <2>11. PurgesOK'
    <3>1. \A r \in Sources : Kept(r)
      BY <1>1, <2>1, Keeping DEF Underway, Stored
    <3>2. \A r \in Sources : jobs'[PurgeSource(r)] = jobs[PurgeSource(r)]
      BY <1>2, <2>5, Ids, Jobs
    <3>3. \A r \in Sources : src'[r].row = "gone" => src[r].row = "gone"
      BY <2>2, <2>3
    <3> QED
      BY <1>1, <1>5, <3>1, <3>2, <3>3, PurgesRest
  <2> QED
    BY <2>6, <2>7, <2>8, <2>9, <2>10, <2>11 DEF IInv
<1> QED
  BY <1>4, <1>5

-----------------------------------------------------------------------------

\* No job, no request and no worker at first.
LEMMA Initially == Init => IInv
<1> SUFFICES ASSUME Init PROVE IInv
  OBVIOUS
<1>1. /\ \A s \in Sources : src[s] = NoRow /\ versions[s] = {}
      /\ \A j \in JobIds : jobs[j] = NoJob
      /\ \A q \in Requests : request[q] = NoRequest
      /\ \A w \in Workers : worker[w] = NoWork
      /\ files = {} /\ stray = {} /\ topic = "none" /\ faults = 0
  BY DEF Init
<1>2. NoRow.row = "none" /\ NoRow.status = "none" /\ NoJob.status = "none"
      /\ NoRequest.pc = "idle" /\ NoWork.pc = "idle"
  BY DEF NoRow, NoJob, NoRequest, NoWork
<1>3. Accepted = {} /\ IsFiniteSet({})
  BY <1>1, <1>2, FS_EmptySet DEF Accepted
<1>4. Tables
  BY <1>1, <1>3, Blank, LimitsAssumption DEF Init, Tables
<1>5. RowsOK
  <2>1. 1..0 = {} /\ 0 \in 0..MaxVersions
    BY LimitsAssumption
  <2> QED
    BY <1>1, <1>2, <2>1 DEF RowsOK, RowOK, Rows, Visible
<1>6. RequestsOK
  BY <1>1, <1>2 DEF RequestsOK, RequestOK, OneRequest, FileOwned, Stored, Accepted
<1>7. HoldersOK
  BY <1>1, <1>2 DEF HoldersOK, HolderOK, OneHolder, Holds, Ingesting
<1>8. JobsOK
  BY <1>1, <1>2, Jobs DEF JobsOK, AttemptsOK, SourceJobsOK, TopicJobOK
<1>9. IngestsOK
  BY <1>1, <1>2 DEF IngestsOK, IngestOK, Ingesting
<1>10. PurgesOK
  BY <1>1, <1>2, Jobs DEF PurgesOK, TopicPurgeOK, PurgeOK, PurgedOK
<1> QED
  BY <1>4, <1>5, <1>6, <1>7, <1>8, <1>9, <1>10 DEF IInv

\* IInv holds in every reachable state.
THEOREM MaterialsInvariance == Spec => []IInv
<1>1. IInv /\ [Next]_vars => IInv'
  <2> SUFFICES ASSUME IInv, [Next]_vars PROVE IInv'
    OBVIOUS
  <2>1. CASE UNCHANGED vars
    <3>1. /\ UNCHANGED <<topic, src, versions, jobs, files, request, worker, stray, unswept, faults>>
      BY <2>1 DEF vars, dbVars
    <3>2. RequestsOK' /\ IsFiniteSet(Accepted')
      BY <3>1, RequestsRest
    <3> QED
      BY <3>1, <3>2, RequestMoves DEF IInv, Tables
  <2>2. ASSUME NEW w \in Workers,
               WorkerStep(w) \/ Die(w) \/ Raise(w) \/ \E j \in JobIds : Claim(w, j)
        PROVE  IInv'
    BY <2>2, LoadStep, FetchStep, RecordStep, ReadStep, ExtractStep, SweepStep,
       EraseStep, FinishStep, RetryStep, FailEntityStep, FaultStep, ClaimStep
       DEF WorkerStep
  <2>3. ASSUME NEW q \in Requests,
               RequestStep(q) \/ \E o \in Offers : Check(q, o)
        PROVE  IInv'
    BY <2>3, PutStep, InsertStep, AbortStep, CheckStep DEF RequestStep
  <2>4. ASSUME NEW s \in Sources, EnsureDemo(s) \/ Delete(s) \/ Retry(s)
        PROVE  IInv'
    BY <2>4, EnsureDemoStep, DeleteStep, UserRetryStep
  <2>5. CASE CreateTopic \/ DeleteTopic
    BY <2>5, TopicStep
  <2> QED
    BY <2>1, <2>2, <2>3, <2>4, <2>5 DEF Next
<1> QED
  BY <1>1, Initially, PTL DEF Spec

(***************************************************************************)
(* The rows, jobs, requests and workers of Materials have their types: in  *)
(* particular a source never has more versions than it may be extracted    *)
(* for.                                                                    *)
(***************************************************************************)
THEOREM MaterialsTypeCorrect == Spec => []TypeOK
<1>1. IInv => TypeOK
  BY DEF IInv, Tables, TypeOK, RowRecords, JobRecords, RequestRecords,
         WorkerRecords
<1> QED
  BY <1>1, MaterialsInvariance, PTL

(***************************************************************************)
(* content() and original_link(): what shows as ready can be read and      *)
(* downloaded.                                                             *)
(***************************************************************************)
THEOREM ReadyIsReadableHolds == Spec => []ReadyIsReadable
<1>1. IInv => ReadyIsReadable
  <2> SUFFICES ASSUME IInv, NEW s \in Sources, Visible(s), src[s].status = "ready"
               PROVE  Content(s) = "text" /\ Original(s) = "file"
    BY DEF ReadyIsReadable
  <2>1. /\ src[s].version /= 0 /\ src[s].version \in versions[s]
        /\ src[s].file /\ s \in files
    BY DEF IInv, RowsOK, RowOK
  <2>2. src[s].row = "live" /\ topic \in Open
    BY DEF Visible
  <2> QED
    BY <2>1, <2>2 DEF Content, Original
<1> QED
  BY <1>1, MaterialsInvariance, PTL

(***************************************************************************)
(* purge_source(), purge_topic() and the loser of a race for a key: no     *)
(* text is left of what was purged, and no file of it or of an upload that *)
(* was refused, but for the strays and what delete_source() tried to       *)
(* remove and the file system kept.                                        *)
(***************************************************************************)
THEOREM NothingLeftBehindHolds == Spec => []NothingLeftBehind
<1>1. IInv => NothingLeftBehind
  BY DEF IInv, RequestsOK, FileOwned, PurgesOK, PurgedOK, Clean, Swept,
         Stored, NothingLeftBehind
<1> QED
  BY <1>1, MaterialsInvariance, PTL

(***************************************************************************)
(* jobs.retry_later(), jobs.fail() and the reclaiming of jobs whose lease  *)
(* ran out: a deletion is never forgotten, if fewer things go wrong than a *)
(* job has attempts; what a removal left behind is not owed to anyone.     *)
(***************************************************************************)
THEOREM DeletionIsOwedHolds ==
    ASSUME MaxFaults < JobAttempts
    PROVE  Spec => []DeletionIsOwed
<1>1. IInv => DeletionIsOwed
  <2> SUFFICES ASSUME IInv PROVE DeletionIsOwed
    OBVIOUS
  <2>1. \A j \in PurgeJobs : jobs[j].status \in {"none", "done"} \cup Queue
    BY Jobs DEF IInv, JobsOK, AttemptsOK, Tables, JobRecords
  <2>2. ASSUME NEW s \in Sources \ stray, src[s].row = "deleted",
               s \in files \ unswept \/ versions[s] /= {}
        PROVE  jobs[PurgeSource(s)].status \in Queue
    <3>1. jobs[PurgeSource(s)].status /= "none"
      BY <2>2 DEF IInv, JobsOK, SourceJobsOK
    <3>2. jobs[PurgeSource(s)].status /= "done"
      BY <2>2 DEF IInv, PurgesOK, PurgedOK, Clean, Swept, Stored
    <3> QED
      BY <2>1, <3>1, <3>2, Jobs
  <2>3. topic = "deleted" => jobs[PurgeTopic].status \in Queue
    BY <2>1, Jobs DEF IInv, JobsOK, TopicJobOK
  <2> QED
    BY <2>2, <2>3 DEF DeletionIsOwed
<1> QED
  BY <1>1, MaterialsInvariance, PTL

-----------------------------------------------------------------------------
(* The limit on the number of sources.                                     *)

Others(q) == Accepted \ {q}

\* The sources that are there and the other imports under way are no more than
\* the limit allowed when q was checked, and the imports accepted since.
QuotaOK(q) == Cardinality(Live) + Cardinality(Others(q))
                  <= MaxSources - 1 + request[q].met

QuotaInv == /\ IsFiniteSet(Live)
            /\ \A q \in Accepted : QuotaOK(q)

\* Cardinalities of what a step may make of the live sources.
LEMMA Fewer ==
    ASSUME NEW S, IsFiniteSet(S), NEW T \in SUBSET S
    PROVE  /\ IsFiniteSet(T) /\ Cardinality(T) \in Nat /\ Cardinality(S) \in Nat
           /\ Cardinality(T) <= Cardinality(S)
  BY FS_Subset, FS_CardinalityType

\* ... and of a set to which it has added one source.
LEMMA OneMore ==
    ASSUME NEW S, IsFiniteSet(S), NEW x, NEW T \in SUBSET (S \cup {x})
    PROVE  /\ IsFiniteSet(T) /\ Cardinality(T) \in Nat /\ Cardinality(S) \in Nat
           /\ Cardinality(T) <= Cardinality(S) + 1
<1>1. IsFiniteSet(S \cup {x}) /\ Cardinality(S \cup {x}) <= Cardinality(S) + 1
      /\ Cardinality(S) \in Nat
  BY FS_AddElement, FS_CardinalityType
<1>2. /\ IsFiniteSet(T) /\ Cardinality(T) \in Nat
      /\ Cardinality(S \cup {x}) \in Nat
      /\ Cardinality(T) <= Cardinality(S \cup {x})
  BY <1>1, Fewer
<1> QED
  BY <1>1, <1>2

\* The imports under way besides q are finitely many.
LEMMA OthersFinite ==
    ASSUME IInv, NEW q \in Requests
    PROVE  IsFiniteSet(Others(q)) /\ Cardinality(Others(q)) \in Nat
           /\ request[q].met \in Nat /\ MaxSources \in Nat \ {0}
<1>1. IsFiniteSet(Accepted)
  BY DEF IInv, Tables
<1>2. IsFiniteSet(Others(q))
  BY <1>1, FS_RemoveElement DEF Others
<1> QED
  BY <1>2, FS_CardinalityType, LimitsAssumption DEF IInv, Tables, RequestRecords

\* A step that accepts no import and adds no source.
LEMMA QuotaRests ==
    ASSUME IInv, QuotaInv, Live' \subseteq Live, Accepted' \subseteq Accepted,
           \A q \in Accepted' : request'[q].met = request[q].met
    PROVE  QuotaInv'
<1>1. IsFiniteSet(Live) /\ IsFiniteSet(Accepted) /\ Accepted \subseteq Requests
  BY DEF QuotaInv, IInv, Tables, Accepted
<1>2. /\ IsFiniteSet(Live') /\ Cardinality(Live') \in Nat
      /\ Cardinality(Live) \in Nat /\ Cardinality(Live') <= Cardinality(Live)
  BY <1>1, Fewer
<1>3. ASSUME NEW q \in Accepted' PROVE QuotaOK(q)'
  <2>1. QuotaOK(q) /\ q \in Requests
    BY <1>1 DEF QuotaInv
  <2>2. IsFiniteSet(Others(q)) /\ request[q].met \in Nat /\ MaxSources \in Nat
    BY <2>1, OthersFinite
  <2>3. Others(q)' \in SUBSET Others(q)
    BY DEF Others
  <2>4. /\ Cardinality(Others(q)') \in Nat /\ Cardinality(Others(q)) \in Nat
        /\ Cardinality(Others(q)') <= Cardinality(Others(q))
    BY <2>2, <2>3, Fewer
  <2>5. Cardinality(Others(q))' = Cardinality(Others(q)')
    OBVIOUS
  <2> QED
    BY <1>2, <2>1, <2>2, <2>4 DEF QuotaOK
<1> QED
  BY <1>2, <1>3 DEF QuotaInv

\* Check: the limit is kept when the request is let through, and every import
\* under way counts it.
LEMMA CheckQuota ==
    ASSUME IInv, QuotaInv, NEW q \in Requests, NEW o \in Offers, Check(q, o)
    PROVE  QuotaInv'
<1>1. PICK s \in Unused :
          request' = [p \in Requests |->
             IF p = q
               THEN [pc |-> IF o.kind = "file" THEN "put" ELSE "insert",
                     offer |-> o, id |-> s, met |-> Cardinality(Accepted)]
             ELSE IF p \in Accepted THEN [request[p] EXCEPT !.met = @ + 1]
             ELSE request[p]]
  BY DEF Check
<1>2. request[q].pc = "idle" /\ UNCHANGED src /\ Cardinality(Live) < MaxSources
  <2>1. ~(Cardinality(Live) >= MaxSources)
    BY DEF Check, OverLimit
  <2>2. Cardinality(Live) \in Nat
    BY FS_CardinalityType DEF QuotaInv
  <2> QED
    BY <2>1, <2>2, LimitsAssumption DEF Check, dbVars
<1>3. Live' = Live /\ IsFiniteSet(Live) /\ Cardinality(Live) \in Nat
  BY <1>2, FS_CardinalityType DEF Live, QuotaInv
<1>4. request'[q].pc /= "idle" /\ request'[q].met = Cardinality(Accepted)
  BY <1>1
<1>5. ASSUME NEW p \in Requests, p /= q
      PROVE  /\ request'[p].pc = request[p].pc
             /\ p \in Accepted => request'[p].met = request[p].met + 1
  <2>1. request[p] \in RequestRecords
    BY DEF IInv, Tables
  <2>2. CASE p \in Accepted
    <3>1. request'[p] = [request[p] EXCEPT !.met = @ + 1]
      BY <1>1, <1>5, <2>2
    <3> QED
      BY <2>1, <3>1 DEF RequestRecords
  <2>3. CASE p \notin Accepted
    BY <1>1, <1>5, <2>3
  <2> QED
    BY <2>2, <2>3
<1>6. Accepted' = Accepted \cup {q} /\ q \notin Accepted
  BY <1>2, <1>4, <1>5 DEF Accepted
<1>7. ASSUME NEW p \in Accepted' PROVE QuotaOK(p)'
  <2>1. CASE p = q
    <3>1. Others(p)' = Accepted
      BY <1>6, <2>1 DEF Others
    <3>2. Cardinality(Accepted) \in Nat
      BY FS_CardinalityType DEF IInv, Tables
    <3> QED
      BY <1>2, <1>3, <1>4, <2>1, <3>1, <3>2, LimitsAssumption DEF QuotaOK
  <2>2. CASE p /= q
    <3>1. p \in Accepted /\ p \in Requests /\ QuotaOK(p)
      BY <1>6, <2>2 DEF QuotaInv, Accepted
    <3>2. Others(p)' \in SUBSET (Others(p) \cup {q})
      BY <1>6 DEF Others
    <3>3. /\ IsFiniteSet(Others(p)) /\ Cardinality(Others(p)) \in Nat
          /\ request[p].met \in Nat /\ MaxSources \in Nat
      BY <3>1, OthersFinite
    <3>4. Cardinality(Others(p)') \in Nat
          /\ Cardinality(Others(p)') <= Cardinality(Others(p)) + 1
      BY <3>2, <3>3, OneMore
    <3>5. request'[p].met = request[p].met + 1
      BY <1>5, <2>2, <3>1
    <3> QED
      BY <1>3, <3>1, <3>3, <3>4, <3>5 DEF QuotaOK
  <2> QED
    BY <2>1, <2>2
<1> QED
  BY <1>3, <1>7 DEF QuotaInv

\* Insert: one import less under way, at most one source more.
LEMMA InsertQuota ==
    ASSUME IInv, QuotaInv, NEW q \in Requests, Insert(q)
    PROVE  QuotaInv' /\ CountBounded(q)
<1>s. PICK s : s = request[q].id
  OBVIOUS
<1>1. /\ request[q].pc = "insert" /\ q \in Accepted
      /\ request' = [request EXCEPT ![q] = NoRequest]
      /\ \A r \in Sources \ {s} : src'[r] = src[r]
  BY <1>s DEF Insert, Accepted, IInv, Tables
<1>2. /\ Accepted' = Accepted \ {q}
      /\ \A p \in Requests \ {q} : request'[p] = request[p]
  BY <1>1 DEF Accepted, IInv, Tables, NoRequest
<1>3. Live' \in SUBSET (Live \cup {s}) /\ IsFiniteSet(Live)
  BY <1>1 DEF Live, QuotaInv
<1>4. /\ IsFiniteSet(Live') /\ Cardinality(Live') \in Nat
      /\ Cardinality(Live) \in Nat
      /\ Cardinality(Live') <= Cardinality(Live) + 1
  BY <1>3, OneMore
<1>5. ASSUME NEW p \in Accepted' PROVE QuotaOK(p)'
  <2>1. p \in Accepted /\ p \in Requests /\ QuotaOK(p) /\ p /= q
    BY <1>2 DEF QuotaInv, Accepted
  <2>2. /\ IsFiniteSet(Others(p)) /\ Cardinality(Others(p)) \in Nat
        /\ request[p].met \in Nat /\ MaxSources \in Nat
    BY <2>1, OthersFinite
  <2>3. Others(p)' = Others(p) \ {q} /\ q \in Others(p)
    BY <1>1, <1>2, <2>1 DEF Others
  <2>4. Cardinality(Others(p)') = Cardinality(Others(p)) - 1
    BY <2>2, <2>3, FS_RemoveElement
  <2>5. request'[p].met = request[p].met
    BY <1>2, <2>1
  <2> QED
    BY <1>4, <2>1, <2>2, <2>4, <2>5 DEF QuotaOK
<1>6. CountBounded(q)
  <2>1. QuotaOK(q)
    BY <1>1 DEF QuotaInv
  <2>2. /\ Cardinality(Others(q)) \in Nat /\ request[q].met \in Nat
        /\ MaxSources \in Nat
    BY OthersFinite
  <2> QED
    BY <1>4, <2>1, <2>2 DEF QuotaOK, CountBounded
<1> QED
  BY <1>4, <1>5, <1>6 DEF QuotaInv

\* Every step keeps QuotaInv, and one that inserts keeps to the limit and the
\* imports accepted meanwhile.
LEMMA QuotaStep ==
    ASSUME IInv, QuotaInv, Next
    PROVE  /\ QuotaInv'
           /\ \A q \in Requests : Inserts(q) => CountBounded(q)
<1> DEFINE Bounded == \A q \in Requests : Inserts(q) => CountBounded(q)
<1>1. ASSUME Live' = Live \/ request' = request PROVE Bounded
  BY <1>1 DEF Inserts
<1>2. ASSUME request' = request, Live' \subseteq Live PROVE QuotaInv' /\ Bounded
  <2>1. Accepted' = Accepted
    BY <1>2 DEF Accepted
  <2> QED
    BY <1>1, <1>2, <2>1, QuotaRests
<1>3. ASSUME NEW q \in Requests, NEW o \in Offers, Check(q, o)
      PROVE  QuotaInv' /\ Bounded
  <2>1. Live' = Live
    BY <1>3 DEF Check, dbVars, Live
  <2> QED
    BY <1>1, <1>3, <2>1, CheckQuota
<1>4. ASSUME NEW q \in Requests, Put(q) PROVE QuotaInv' /\ Bounded
  <2>1. /\ Live' = Live /\ request[q].pc = "put"
        /\ request' = [request EXCEPT ![q].pc = "insert"]
        /\ request[q] \in RequestRecords
    BY <1>4 DEF Put, dbVars, Live, IInv, Tables
  <2>2. \A p \in Requests : request'[p].met = request[p].met
    BY <2>1 DEF IInv, Tables, RequestRecords
  <2>3. Accepted' \subseteq Accepted
    BY <2>1 DEF Accepted, IInv, Tables, RequestRecords
  <2>4. \A p \in Accepted' : request'[p].met = request[p].met
    BY <2>2 DEF Accepted
  <2> QED
    BY <1>1, <2>1, <2>3, <2>4, QuotaRests
<1>5. ASSUME NEW q \in Requests, Insert(q) PROVE QuotaInv' /\ Bounded
  <2>1. QuotaInv' /\ CountBounded(q)
    BY <1>5, InsertQuota
  <2>2. ASSUME NEW p \in Requests, Inserts(p) PROVE p = q
    BY <1>5, <2>2 DEF Insert, Inserts, IInv, Tables
  <2> QED
    BY <2>1, <2>2
<1>6. ASSUME NEW q \in Requests, Abort(q) PROVE QuotaInv' /\ Bounded
  <2>1. Live' = Live /\ request' = [request EXCEPT ![q] = NoRequest]
    BY <1>6 DEF Abort, dbVars, Live
  <2>2. Accepted' \subseteq Accepted
        /\ \A p \in Accepted' : request'[p].met = request[p].met
    BY <2>1 DEF Accepted, IInv, Tables, NoRequest
  <2> QED
    BY <1>1, <2>1, <2>2, QuotaRests
<1>7. ASSUME NEW s \in Sources, EnsureDemo(s) PROVE QuotaInv' /\ Bounded
  <2>1. request' = request /\ topic = "none"
        /\ \A r \in Sources \ {s} : src'[r] = src[r]
    BY <1>7 DEF EnsureDemo, IInv, Tables
  <2>2. Accepted' = {}
    BY <2>1 DEF IInv, RequestsOK, RequestOK, Accepted
  <2>3. Live' \in SUBSET (Live \cup {s}) /\ IsFiniteSet(Live)
    BY <2>1 DEF Live, QuotaInv
  <2>4. IsFiniteSet(Live')
    BY <2>3, OneMore
  <2> QED
    BY <1>1, <2>1, <2>2, <2>4 DEF QuotaInv
<1>8. ASSUME NEW s \in Sources, Delete(s) \/ Retry(s)
      PROVE  QuotaInv' /\ Bounded
  <2>1. request' = request /\ Live' \subseteq Live
    BY <1>8 DEF Delete, Retry, Live, IInv, Tables, RowRecords
  <2> QED
    BY <1>2, <2>1
<1>9. CASE CreateTopic \/ DeleteTopic
  <2>1. request' = request /\ Live' \subseteq Live
    BY <1>9 DEF CreateTopic, DeleteTopic, Live
  <2> QED
    BY <1>2, <2>1
<1>10. ASSUME NEW w \in Workers,
              WorkerStep(w) \/ Die(w) \/ Raise(w) \/ \E j \in JobIds : Claim(w, j)
       PROVE  QuotaInv' /\ Bounded
  <2>1. CASE Erase(w)
    <3>1. request' = request /\ \A s \in Sources : src'[s].row = "live" => src[s].row = "live"
      <4>1. ASSUME NEW s \in Sources
            PROVE  \/ src'[s] = src[s] \/ src'[s] = [NoRow EXCEPT !.row = "gone"]
                   \/ src'[s] = [src[s] EXCEPT !.file = FALSE, !.size = 0,
                                               !.version = 0, !.content = "none"]
        BY <2>1 DEF Erase
      <4>2. ASSUME NEW s \in Sources PROVE src[s] \in RowRecords
        BY DEF IInv, Tables
      <4>3. [NoRow EXCEPT !.row = "gone"].row = "gone"
        BY DEF NoRow
      <4> QED
        BY <2>1, <4>1, <4>2, <4>3 DEF Erase, RowRecords
    <3> QED
      BY <1>2, <3>1 DEF Live
  <2>2. CASE Fetch(w) \/ Record(w) \/ Extract(w) \/ FailEntity(w)
    <3>1. request' = request /\ \A s \in Sources : src'[s].row = src[s].row
      BY <2>2 DEF Fetch, Record, Extract, FailEntity, ExtractionError,
                  MarkFailed, IInv, Tables, RowRecords
    <3> QED
      BY <1>2, <3>1 DEF Live
  <2>3. CASE \/ Load(w) \/ Read(w) \/ Sweep(w) \/ Finish(w) \/ RetryOrFail(w)
             \/ Die(w) \/ Raise(w) \/ \E j \in JobIds : Claim(w, j)
    <3>1. request' = request /\ src' = src
      BY <2>3 DEF Load, Read, Sweep, Finish, RetryOrFail, Die, Raise, Claim, dbVars
    <3> QED
      BY <1>2, <3>1 DEF Live
  <2> QED
    BY <1>10, <2>1, <2>2, <2>3 DEF WorkerStep
<1> QED
  BY <1>3, <1>4, <1>5, <1>6, <1>7, <1>8, <1>9, <1>10 DEF Next, RequestStep

(***************************************************************************)
(* _check_limits() before the insert: the sources of a topic exceed their  *)
(* limit by no more than the imports accepted while the last one was under *)
(* way.  This half of QuotaOvershoot holds whatever the size of an import. *)
(***************************************************************************)
THEOREM CountOvershoot ==
    Spec => [][\A q \in Requests : Inserts(q) => CountBounded(q)]_vars
<1>1. Init => QuotaInv
  <2> SUFFICES ASSUME Init PROVE QuotaInv
    OBVIOUS
  <2>1. Live = {} /\ Accepted = {}
    BY DEF Init, Live, Accepted, NoRow, NoRequest
  <2> QED
    BY <2>1, FS_EmptySet DEF QuotaInv
<1>2. IInv /\ QuotaInv /\ [Next]_vars => QuotaInv'
  <2> SUFFICES ASSUME IInv, QuotaInv, [Next]_vars PROVE QuotaInv'
    OBVIOUS
  <2>1. CASE UNCHANGED vars
    <3>1. Live' = Live /\ Accepted' = Accepted /\ request' = request
      BY <2>1 DEF vars, dbVars, Live, Accepted
    <3> QED
      BY <3>1, QuotaRests
  <2>2. CASE Next
    BY <2>2, QuotaStep
  <2> QED
    BY <2>1, <2>2
<1>3. IInv /\ QuotaInv /\ [Next]_vars =>
          [\A q \in Requests : Inserts(q) => CountBounded(q)]_vars
  BY QuotaStep
<1> QED
  BY <1>1, <1>2, <1>3, MaterialsInvariance, PTL DEF Spec

-----------------------------------------------------------------------------
(* The limit on the bytes.                                                 *)

Sizes == [s \in Sources |-> src[s].size]
Uploaded == {s \in Live : src[s].kind = "file"}

\* What was uploaded, the import itself and the largest import for each other
\* one under way are no more than the limit and what was accepted since.
BytesOK(q) ==
    SumOf(Sizes, Uploaded) + request[q].offer.size
            + Cardinality(Others(q)) * LargestOffer
        <= MaxBytes + request[q].met * LargestOffer

\* Only an article is fetched, so what is recorded does not change an upload.
Fetching(w) == worker[w].pc \in {"fetch", "record"}
FetchesArticle(w) ==
    \A s \in Sources :
        Fetching(w) /\ worker[w].job = Ingest(s) => src[s].kind /= "file"

BytesInv == /\ \A q \in Accepted : BytesOK(q)
            /\ \A w \in Workers : FetchesArticle(w)

\* No import is larger than the largest.
OffersBounded == \A o \in Offers : LargestOffer \in Nat /\ o.size <= LargestOffer

\* Bounded offers have a largest one.
LEMMA LargestBounds ==
    ASSUME NEW m \in Nat, \A o \in Offers : o.size <= m
    PROVE  OffersBounded
<1> DEFINE S == {o.size : o \in Offers}
           T == {n \in Nat : (\A x \in S : x <= n) =>
                                 S = {} \/ \E x \in S : \A y \in S : x >= y}
<1>1. S \subseteq Nat
  BY OffersAssumption
<1>2. 0 \in T
  <2> SUFFICES ASSUME \A x \in S : x <= 0, NEW x \in S
               PROVE  \E z \in S : \A y \in S : z >= y
    OBVIOUS
  <2>1. \A y \in S : x >= y
    BY <1>1
  <2> QED
    BY <2>1
<1>3. ASSUME NEW n \in Nat, n \in T PROVE n + 1 \in T
  <2> HIDE DEF S
  <2> SUFFICES ASSUME \A x \in S : x <= n + 1
               PROVE  S = {} \/ \E x \in S : \A y \in S : x >= y
    OBVIOUS
  <2>1. CASE n + 1 \in S
    BY <1>1, <2>1
  <2>2. CASE n + 1 \notin S
    <3>1. \A x \in S : x <= n
      BY <1>1, <2>2
    <3> QED
      BY <1>3, <3>1
  <2> QED
    BY <2>1, <2>2
<1>4. m \in T
  <2> HIDE DEF T
  <2> QED
    BY <1>2, <1>3, NumberInduction
<1>5. S = {} \/ \E x \in S : \A y \in S : x >= y
  BY <1>4
<1>6. S = {} \/ (Max(S) \in S /\ \A y \in S : Max(S) >= y)
  <2> HIDE DEF S
  <2> QED
    BY <1>5 DEF Max
<1>7. LargestOffer = Max(S)
  BY DEF LargestOffer
<1> QED
  BY <1>1, <1>6, <1>7 DEF OffersBounded

\* The bytes of some sources, as a sum of numbers.
LEMMA SumOfSizes ==
    ASSUME NEW D \in SUBSET Sources, IsFiniteSet(D)
    PROVE  MapThenSumSet(LAMBDA s : src[s].size, D) = SumOf(Sizes, D)
<1> DEFINE Recurs(g) == g = [d \in SUBSET D |->
                IF d = {} THEN 0 ELSE src[Some(d)].size + g[d \ {Some(d)}]]
<1>1. MapThenSumSet(LAMBDA s : src[s].size, D) = (CHOOSE g : Recurs(g))[D]
  BY DEF MapThenSumSet, MapThenFoldSet, Some
<1>2. \A d \in SUBSET D : d /= {} => src[Some(d)].size = Sizes[Some(d)]
  BY SomeIsIn DEF Sizes
<1>3. \A g : Recurs(g) <=> Adds(g, Sizes, D)
  BY <1>2 DEF Adds
<1>4. PICK f : Adds(f, Sizes, D)
  BY SumExists
<1>5. Recurs(CHOOSE g : Recurs(g))
  <2> HIDE DEF Recurs
  <2>1. Recurs(f)
    BY <1>3, <1>4
  <2> QED
    BY <2>1, Zenon
<1> HIDE DEF Recurs
<1>6. PICK g : g = (CHOOSE f1 : Recurs(f1))
  OBVIOUS
<1>7. Adds(g, Sizes, D)
  BY <1>3, <1>5, <1>6
<1> QED
  BY <1>1, <1>6, <1>7, SumIsUnique

\* What UploadedBytes counts.
SumsOK == UploadedBytes = SumOf(Sizes, Uploaded)

\* UploadedBytes, a fold over the set of files, is their sum.
LEMMA UploadedIsSum == QuotaInv => SumsOK
<1> SUFFICES ASSUME QuotaInv PROVE SumsOK
  OBVIOUS
<1>1. PICK D \in SUBSET Sources : D = Uploaded
  BY DEF Uploaded, Live
<1>2. IsFiniteSet(D)
  BY <1>1, FS_Subset DEF QuotaInv, Uploaded
<1>3. MapThenSumSet(LAMBDA s : src[s].size, D) = SumOf(Sizes, D)
  BY <1>2, SumOfSizes
<1> QED
  BY <1>1, <1>3 DEF SumsOK, UploadedBytes, Uploaded

\* Sizes are natural numbers, and sums of those that are there too.
LEMMA SizesOK ==
    ASSUME Tables, QuotaInv
    PROVE  /\ \A s \in Sources : Sizes[s] \in Nat /\ Sizes[s] = src[s].size
           /\ IsFiniteSet(Uploaded) /\ Uploaded \subseteq Live /\ Live \subseteq Sources
           /\ SumOf(Sizes, Uploaded) \in Nat /\ SumOf(Sizes, Live) \in Nat
           /\ SumOf(Sizes, Uploaded) <= SumOf(Sizes, Live)
<1>1. \A s \in Sources : Sizes[s] \in Nat /\ Sizes[s] = src[s].size
  BY DEF Sizes, Tables, RowRecords
<1>2. /\ Uploaded \subseteq Live /\ Live \subseteq Sources
      /\ IsFiniteSet(Uploaded) /\ IsFiniteSet(Live)
  BY FS_Subset DEF Uploaded, Live, QuotaInv
<1>3. \A s \in Live : Sizes[s] \in Nat
  BY <1>1, <1>2
<1>4. \A s \in Uploaded : Sizes[s] \in Nat
  BY <1>1, <1>2
<1>5. SumOf(Sizes, Uploaded) \in Nat /\ SumOf(Sizes, Live) \in Nat
  BY <1>2, <1>3, <1>4, SumNat
<1>6. SumOf(Sizes, Uploaded) <= SumOf(Sizes, Live)
  BY <1>2, <1>3, SumGrows
<1> QED
  BY <1>1, <1>2, <1>5, <1>6

\* The types of what an accepted import is measured by.
LEMMA Measures ==
    ASSUME IInv, OffersBounded, NEW q \in Accepted
    PROVE  /\ q \in Requests /\ request[q].offer \in Offers
           /\ request[q].offer.size \in Nat /\ LargestOffer \in Nat
           /\ request[q].offer.size <= LargestOffer
           /\ request[q].met \in Nat /\ MaxBytes \in Nat
           /\ IsFiniteSet(Others(q)) /\ Cardinality(Others(q)) \in Nat
<1>1. q \in Requests /\ request[q].pc /= "idle"
  BY DEF Accepted
<1>2. request[q].offer \in Offers
  BY <1>1 DEF IInv, RequestsOK, RequestOK
<1> QED
  BY <1>1, <1>2, OthersFinite, OffersAssumption, LimitsAssumption DEF OffersBounded

\* What remains of some uploads is no more than they were.
LEMMA UploadsShrink ==
    ASSUME Tables, QuotaInv, Uploaded' \subseteq Uploaded,
           \A s \in Uploaded' : src'[s].size = src[s].size
    PROVE  /\ SumOf(Sizes, Uploaded)' \in Nat
           /\ SumOf(Sizes, Uploaded)' <= SumOf(Sizes, Uploaded)
<1>1. PICK u, v, w, z : u = Uploaded /\ v = Uploaded' /\ w = Sizes /\ z = Sizes'
  OBVIOUS
<1>2. v \in SUBSET u /\ IsFiniteSet(u) /\ \A s \in u : w[s] \in Nat
  BY <1>1, SizesOK
<1>3. \A s \in v : z[s] = w[s]
  BY <1>1, <1>2 DEF Sizes, Uploaded, Live
<1>4. IsFiniteSet(v)
  BY <1>2, FS_Subset
<1>5. SumOf(w, v) <= SumOf(w, u)
  BY <1>2, SumGrows
<1>6. \A s \in v : w[s] \in Nat
  BY <1>2
<1>7. SumOf(w, v) \in Nat
  BY <1>4, <1>6, SumNat
<1>8. SumOf(z, v) = SumOf(w, v)
  BY <1>3, <1>4, SumSame
<1>9. SumOf(Sizes, Uploaded)' = SumOf(z, v)
  BY <1>1
<1> QED
  BY <1>1, <1>5, <1>7, <1>8, <1>9

\* Products of numbers, for the provers.
LEMMA Products ==
    ASSUME NEW k \in Nat, NEW n \in Nat, NEW l \in Nat
    PROVE  /\ k * l \in Nat /\ (k + 1) * l = k * l + l
           /\ k <= n => k * l <= n * l
<1>1. k * l \in Nat /\ (k + 1) * l = k * l + l
  BY SMTT(30)
<1>2. k <= n => k * l <= n * l
  BY SMTT(30)
<1> QED
  BY <1>1, <1>2

\* A step that accepts no import and adds no upload.
LEMMA BytesRest ==
    ASSUME IInv, QuotaInv, BytesInv, OffersBounded, Uploaded' \subseteq Uploaded,
           \A s \in Uploaded' : src'[s].size = src[s].size,
           Accepted' \subseteq Accepted,
           \A q \in Accepted' : /\ request'[q].met = request[q].met
                                /\ request'[q].offer = request[q].offer
    PROVE  \A q \in Accepted' : BytesOK(q)'
<1>1. /\ SumOf(Sizes, Uploaded)' \in Nat /\ SumOf(Sizes, Uploaded) \in Nat
      /\ SumOf(Sizes, Uploaded)' <= SumOf(Sizes, Uploaded)
  BY UploadsShrink, SizesOK DEF IInv
<1>2. ASSUME NEW q \in Accepted' PROVE BytesOK(q)'
  <2>1. q \in Accepted /\ BytesOK(q)
    BY <1>2 DEF BytesInv
  <2>2. /\ request[q].offer.size \in Nat /\ LargestOffer \in Nat
        /\ request[q].met \in Nat /\ MaxBytes \in Nat
        /\ IsFiniteSet(Others(q))
    BY <2>1, Measures
  <2>3. Others(q)' \in SUBSET Others(q)
    BY DEF Others
  <2>4. PICK k \in Nat, n \in Nat :
            k = Cardinality(Others(q)') /\ n = Cardinality(Others(q)) /\ k <= n
    BY <2>2, <2>3, Fewer
  <2>5. k * LargestOffer <= n * LargestOffer
        /\ k * LargestOffer \in Nat /\ n * LargestOffer \in Nat
        /\ request[q].met * LargestOffer \in Nat
    BY <2>2, <2>4, Products
  <2>6. PICK y \in Nat, z \in Nat, j \in Nat :
            /\ y = k * LargestOffer /\ z = n * LargestOffer /\ y <= z
            /\ j = request[q].met * LargestOffer
    BY <2>5
  <2>7. SumOf(Sizes, Uploaded) + request[q].offer.size + z <= MaxBytes + j
    BY <2>1, <2>4, <2>6 DEF BytesOK
  <2>8. SumOf(Sizes, Uploaded)' + request[q].offer.size + y <= MaxBytes + j
    BY <1>1, <2>2, <2>6, <2>7
  <2>9. Cardinality(Others(q))' = k /\ LargestOffer' = LargestOffer
    BY <2>4 DEF LargestOffer
  <2> QED
    BY <1>2, <2>6, <2>8, <2>9 DEF BytesOK
<1> QED
  BY <1>2

\* Check: the bytes are kept when the request is let through, and every import
\* under way counts it.
LEMMA CheckBytes ==
    ASSUME IInv, QuotaInv, BytesInv, OffersBounded,
           NEW q \in Requests, NEW o \in Offers, Check(q, o)
    PROVE  \A p \in Accepted' : BytesOK(p)'
<1>1. PICK s \in Unused :
          request' = [p \in Requests |->
             IF p = q
               THEN [pc |-> IF o.kind = "file" THEN "put" ELSE "insert",
                     offer |-> o, id |-> s, met |-> Cardinality(Accepted)]
             ELSE IF p \in Accepted THEN [request[p] EXCEPT !.met = @ + 1]
             ELSE request[p]]
  BY DEF Check
<1>2. request[q].pc = "idle" /\ UNCHANGED src /\ UNCHANGED Uploaded
  BY DEF Check, dbVars, Uploaded, Live
<1>3. /\ SumOf(Sizes, Uploaded) \in Nat /\ SumOf(Sizes, Live) \in Nat
      /\ SumOf(Sizes, Uploaded) <= SumOf(Sizes, Live)
      /\ o.size \in Nat /\ LargestOffer \in Nat /\ MaxBytes \in Nat
  BY SizesOK, OffersAssumption, LimitsAssumption DEF IInv, OffersBounded
<1>4. SumOf(Sizes, Uploaded) + o.size <= MaxBytes
  <2>1. PICK D \in SUBSET Sources : D = Live
    BY DEF Live
  <2>2. IsFiniteSet(D)
    BY <2>1 DEF QuotaInv
  <2>3. MapThenSumSet(LAMBDA r : src[r].size, D) = SumOf(Sizes, D)
    BY <2>2, SumOfSizes
  <2>4. ~(MapThenSumSet(LAMBDA r : src[r].size, Live) + o.size > MaxBytes)
    BY DEF Check, OverLimit
  <2>5. ~(SumOf(Sizes, Live) + o.size > MaxBytes)
    BY <2>1, <2>3, <2>4
  <2> QED
    BY <1>3, <2>5
<1>5. PICK t \in Nat : t = SumOf(Sizes, Uploaded) /\ t = SumOf(Sizes, Uploaded)'
  <2>1. SumOf(Sizes, Uploaded)' = SumOf(Sizes, Uploaded)
    BY <1>2 DEF Sizes
  <2> QED
    BY <1>3, <2>1
<1>6. /\ request'[q].pc /= "idle" /\ request'[q].met = Cardinality(Accepted)
      /\ request'[q].offer = o
  BY <1>1
<1>7. ASSUME NEW p \in Requests, p /= q
      PROVE  /\ request'[p].pc = request[p].pc
             /\ p \in Accepted => /\ request'[p].met = request[p].met + 1
                                  /\ request'[p].offer = request[p].offer
  <2>1. request[p] \in RequestRecords
    BY DEF IInv, Tables
  <2>2. CASE p \in Accepted
    <3>1. request'[p] = [request[p] EXCEPT !.met = @ + 1]
      BY <1>1, <1>7, <2>2
    <3> QED
      BY <2>1, <3>1 DEF RequestRecords
  <2>3. CASE p \notin Accepted
    BY <1>1, <1>7, <2>3
  <2> QED
    BY <2>2, <2>3
<1>8. Accepted' = Accepted \cup {q} /\ q \notin Accepted
  BY <1>2, <1>6, <1>7 DEF Accepted
<1>9. LargestOffer' = LargestOffer
  BY DEF LargestOffer
<1>10. ASSUME NEW p \in Accepted' PROVE BytesOK(p)'
  <2>1. CASE p = q
    <3>1. Cardinality(Others(p))' = Cardinality(Accepted)
      BY <1>8, <2>1 DEF Others
    <3>2. Cardinality(Accepted) \in Nat
      BY FS_CardinalityType DEF IInv, Tables
    <3>3. PICK z \in Nat : z = Cardinality(Accepted) * LargestOffer
      BY <1>3, <3>2, Products
    <3>4. t + o.size + z <= MaxBytes + z
      BY <1>3, <1>4, <1>5
    <3> QED
      BY <1>5, <1>6, <1>9, <2>1, <3>1, <3>3, <3>4 DEF BytesOK
  <2>2. CASE p /= q
    <3>1. p \in Accepted /\ p \in Requests /\ BytesOK(p)
      BY <1>8, <2>2 DEF BytesInv, Accepted
    <3>2. Others(p)' \in SUBSET (Others(p) \cup {q})
      BY <1>8 DEF Others
    <3>3. /\ IsFiniteSet(Others(p)) /\ request[p].offer.size \in Nat
          /\ request[p].met \in Nat
      BY <3>1, Measures
    <3>4. PICK k \in Nat, n \in Nat :
              k = Cardinality(Others(p)') /\ n = Cardinality(Others(p)) /\ k <= n + 1
      BY <3>2, <3>3, OneMore
    <3>5. PICK l \in Nat, m \in Nat : l = LargestOffer /\ m = request[p].met
      BY <1>3, <3>3
    <3>6. /\ k * l <= (n + 1) * l /\ (n + 1) * l = n * l + l
          /\ (m + 1) * l = m * l + l
          /\ k * l \in Nat /\ n * l \in Nat /\ m * l \in Nat
      <4>1. n + 1 \in Nat
        OBVIOUS
      <4> QED
        BY <3>4, <4>1, Products
    <3>7. PICK y \in Nat, z \in Nat, j \in Nat :
              /\ y = k * l /\ z = n * l /\ j = m * l
              /\ y <= z + l /\ (m + 1) * l = j + l
      BY <3>6
    <3>8. t + request[p].offer.size + z <= MaxBytes + j
      BY <1>5, <3>1, <3>4, <3>5, <3>7 DEF BytesOK
    <3>9. t + request[p].offer.size + y <= MaxBytes + (j + l)
      BY <1>3, <3>3, <3>7, <3>8
    <3>10. /\ request'[p].offer = request[p].offer /\ request'[p].met = m + 1
           /\ Cardinality(Others(p))' = k
      BY <1>7, <2>2, <3>1, <3>4, <3>5
    <3> QED
      BY <1>5, <1>9, <3>5, <3>7, <3>9, <3>10 DEF BytesOK
  <2> QED
    BY <2>1, <2>2
<1> QED
  BY <1>10

\* Insert: one import less under way, at most its upload more.
LEMMA InsertBytes ==
    ASSUME IInv, QuotaInv, BytesInv, OffersBounded, NEW q \in Requests, Insert(q)
    PROVE  /\ \A p \in Accepted' : BytesOK(p)'
           /\ SumOf(Sizes, Uploaded)' <= MaxBytes + request[q].met * LargestOffer
<1>1. /\ request[q].pc = "insert" /\ q \in Accepted
      /\ request' = [request EXCEPT ![q] = NoRequest]
  BY DEF Insert, Accepted, IInv, Tables
<1>2. PICK s \in Sources, o \in Offers :
          s = request[q].id /\ o = request[q].offer /\ src[s].row = "none"
  BY <1>1 DEF Accepted, IInv, RequestsOK, RequestOK
<1>3. src' = src \/ src' = [src EXCEPT ![s] = Inserted(o)]
  BY <1>2 DEF Insert
<1>4. /\ s \notin Uploaded /\ Uploaded' \in SUBSET (Uploaded \cup {s})
      /\ \A r \in Uploaded : src'[r].size = src[r].size
      /\ s \in Uploaded' => src'[s].size = o.size
  BY <1>2, <1>3 DEF Uploaded, Live, IInv, Tables, Inserted
<1>5. Accepted' = Accepted \ {q}
      /\ \A p \in Requests \ {q} : request'[p] = request[p]
  BY <1>1 DEF Accepted, IInv, Tables, NoRequest
<1>6. PICK t \in Nat : t = SumOf(Sizes, Uploaded)
  BY SizesOK DEF IInv
<1>7. PICK v \in Nat : v = SumOf(Sizes, Uploaded)' /\ v <= t + o.size
  <2>1. PICK U, V, w, z : U = Uploaded /\ V = Uploaded' /\ w = Sizes /\ z = Sizes'
    OBVIOUS
  <2>2. IsFiniteSet(U) /\ \A r \in U : w[r] \in Nat /\ z[r] = w[r]
    BY <1>4, <2>1, SizesOK DEF Sizes, IInv, Uploaded, Live
  <2>3. s \notin U /\ V \in SUBSET (U \cup {s}) /\ (s \in V => z[s] = o.size)
    BY <1>2, <1>4, <2>1 DEF Sizes
  <2>4. o.size \in Nat
    BY OffersAssumption
  <2>5. \A r \in U : z[r] \in Nat
    BY <2>2
  <2>6. SumOf(z, U) = t
    BY <1>6, <2>1, <2>2, SumSame
  <2>7. CASE s \in V
    <3>1. PICK C : C = U \cup {s}
      OBVIOUS
    <3>2. IsFiniteSet(C) /\ (\A r \in C : z[r] \in Nat) /\ V \in SUBSET C
      BY <2>2, <2>3, <2>4, <2>5, <2>7, <3>1, FS_AddElement
    <3>3. SumOf(z, V) <= SumOf(z, C)
      BY <3>2, SumGrows
    <3>4. SumOf(z, U \cup {s}) = SumOf(z, U) + z[s]
      <4>1. (\A r \in U : z[r] \in Int) /\ z[s] \in Int
        BY <2>3, <2>4, <2>5, <2>7
      <4> QED
        BY <2>2, <2>3, <4>1, SumAdd
    <3>5. SumOf(z, V) \in Nat
      <4>1. IsFiniteSet(V) /\ \A r \in V : z[r] \in Nat
        BY <3>2, FS_Subset
      <4> QED
        BY <4>1, SumNat
    <3> QED
      BY <2>1, <2>3, <2>4, <2>6, <2>7, <3>1, <3>3, <3>4, <3>5
  <2>8. CASE s \notin V
    <3>1. V \in SUBSET U
      BY <2>3, <2>8
    <3>2. SumOf(z, V) <= SumOf(z, U)
      BY <2>2, <2>5, <3>1, SumGrows
    <3>3. SumOf(z, V) \in Nat
      <4>1. IsFiniteSet(V) /\ \A r \in V : z[r] \in Nat
        BY <2>2, <2>5, <3>1, FS_Subset
      <4> QED
        BY <4>1, SumNat
    <3> QED
      BY <2>1, <2>4, <2>6, <3>2, <3>3
  <2> QED
    BY <2>7, <2>8
<1>8. ASSUME NEW p \in Accepted' PROVE BytesOK(p)'
  <2>1. p \in Accepted /\ p \in Requests /\ p /= q /\ BytesOK(p)
    BY <1>5 DEF BytesInv, Accepted
  <2>2. /\ request[p].offer.size \in Nat /\ request[p].met \in Nat /\ MaxBytes \in Nat
        /\ IsFiniteSet(Others(p)) /\ Cardinality(Others(p)) \in Nat
        /\ LargestOffer \in Nat
    BY <2>1, Measures
  <2>3. Others(p)' = Others(p) \ {q} /\ q \in Others(p)
    BY <1>1, <1>5, <2>1 DEF Others
  <2>4. PICK k \in Nat : /\ k = Cardinality(Others(p)')
                         /\ Cardinality(Others(p)) = k + 1
    <3>1. /\ Cardinality(Others(p)') = Cardinality(Others(p)) - 1
          /\ IsFiniteSet(Others(p)')
      BY <2>2, <2>3, FS_RemoveElement
    <3>2. Cardinality(Others(p)') \in Nat
      BY <3>1, FS_CardinalityType
    <3> QED
      BY <2>2, <3>1, <3>2
  <2>5. PICK l \in Nat, m \in Nat : l = LargestOffer /\ m = request[p].met
    BY <2>2
  <2>6. PICK y \in Nat, j \in Nat : y = k * l /\ j = m * l /\ (k + 1) * l = y + l
    BY Products
  <2>7. t + request[p].offer.size + (y + l) <= MaxBytes + j
    BY <1>6, <2>1, <2>4, <2>5, <2>6 DEF BytesOK
  <2>8. o.size \in Nat /\ o.size <= l
    BY <2>5, OffersAssumption DEF OffersBounded
  <2>9. v + request[p].offer.size + y <= MaxBytes + j
    BY <1>7, <2>2, <2>7, <2>8
  <2>10. /\ request'[p] = request[p] /\ LargestOffer' = LargestOffer
         /\ Cardinality(Others(p))' = k
    BY <1>5, <2>1, <2>4 DEF LargestOffer
  <2> QED
    BY <1>7, <2>5, <2>6, <2>9, <2>10 DEF BytesOK
<1>9. v <= MaxBytes + request[q].met * LargestOffer
  <2>1. /\ o.size \in Nat /\ LargestOffer \in Nat /\ request[q].met \in Nat
        /\ Cardinality(Others(q)) \in Nat /\ MaxBytes \in Nat
    BY <1>1, <1>2, Measures
  <2>2. PICK z \in Nat, j \in Nat : /\ z = Cardinality(Others(q)) * LargestOffer
                                    /\ j = request[q].met * LargestOffer
    BY <2>1, Products
  <2>3. t + o.size + z <= MaxBytes + j
    BY <1>1, <1>2, <1>6, <2>2 DEF BytesInv, BytesOK
  <2> QED
    BY <1>7, <2>1, <2>2, <2>3
<1> QED
  BY <1>7, <1>8, <1>9

\* An article stays one, and who fetches goes on with it or has just begun.
LEMMA ArticlesRest ==
    ASSUME IInv, BytesInv,
           \A s \in Sources : src[s].row /= "none" /\ src[s].kind /= "file" =>
                                  src'[s].kind /= "file",
           \A w \in Workers : Fetching(w)' =>
               /\ worker'[w].job = worker[w].job
               /\ worker[w].pc \in {"load", "fetch", "record"}
               /\ Fetching(w) \/ src[Ref(w)].kind /= "file"
    PROVE  \A w \in Workers : FetchesArticle(w)'
<1>1. ASSUME NEW w \in Workers, NEW s \in Sources, Fetching(w)',
             worker'[w].job = Ingest(s)
      PROVE  src'[s].kind /= "file"
  <2>1. worker[w].pc \in Ingesting \cup {"load"} /\ worker[w].job = Ingest(s)
    BY <1>1 DEF Ingesting
  <2>2. PICK r \in Sources : /\ worker[w].job = Ingest(r) /\ Ref(w) = r
                             /\ src[r].row /= "none"
    BY <2>1, AtIngest
  <2>3. r = s
    BY <2>1, <2>2 DEF Ingest
  <2>4. src[s].kind /= "file"
    BY <1>1, <2>1, <2>2, <2>3 DEF BytesInv, FetchesArticle
  <2> QED
    BY <2>2, <2>3, <2>4
<1> QED
  BY <1>1 DEF FetchesArticle, Fetching

\* No worker moves but w, and w does not begin to fetch.
LEMMA NoFetchBegins ==
    ASSUME Tables, NEW w \in Workers, NEW l \in {"idle", "retry", "failentity"} \cup Dispatched,
           Goto(w, l) \/ Release(w), l \in {"fetch", "record"} => Fetching(w)
    PROVE  \A v \in Workers : Fetching(v)' =>
               worker'[v].job = worker[v].job /\ Fetching(v)
<1>1. Moves(w, l) \/ Rests(w)
  BY Going
<1> QED
  BY <1>1 DEF Moves, Rests, OnlyWorker, Fetching

\* A step of a worker accepts nothing and uploads nothing: no source that is
\* there is new, an upload, or has another size than before.
LEMMA WorkerBytes ==
    ASSUME IInv, QuotaInv, BytesInv, OffersBounded, NEW w \in Workers,
           WorkerStep(w) \/ Die(w) \/ Raise(w) \/ \E j \in JobIds : Claim(w, j)
    PROVE  BytesInv'
<1> DEFINE Same(s) == /\ src'[s].row = src[s].row /\ src'[s].kind = src[s].kind
                      /\ src[s].kind = "file" => src'[s].size = src[s].size
           Gone(s) == /\ src'[s].row /= "live"
                      /\ src'[s].kind \in {src[s].kind, "none"}
           Fetch1 == \A v \in Workers : Fetching(v)' =>
                         /\ worker'[v].job = worker[v].job
                         /\ worker[v].pc \in {"load", "fetch", "record"}
                         /\ Fetching(v) \/ src[Ref(v)].kind /= "file"
<1>1. request' = request
  BY DEF WorkerStep, Load, Fetch, Record, Read, Extract, Sweep, Erase, Finish,
         RetryOrFail, FailEntity, Die, Raise, Claim
<1>2. ASSUME NEW l \in {"idle", "retry", "failentity"} \cup Dispatched,
             Goto(w, l) \/ Release(w), l \in {"fetch", "record"} => Fetching(w)
      PROVE  Fetch1
  <2>1. \A v \in Workers : Fetching(v)' =>
            worker'[v].job = worker[v].job /\ Fetching(v)
    BY <1>2, NoFetchBegins DEF IInv
  <2> QED
    BY <2>1 DEF Fetching
<1>3. SUFFICES (\A s \in Sources : Same(s) \/ Gone(s)) /\ Fetch1
  <2> SUFFICES ASSUME \A s \in Sources : Same(s) \/ Gone(s), Fetch1 PROVE BytesInv'
    OBVIOUS
  <2>1. \A s \in Sources : src[s].row /= "none" /\ src[s].kind /= "file" =>
                               src'[s].kind /= "file"
    OBVIOUS
  <2>2. \A v \in Workers : FetchesArticle(v)'
    BY <2>1, ArticlesRest
  <2>3. /\ Uploaded' \subseteq Uploaded
        /\ \A s \in Uploaded' : src'[s].size = src[s].size
    BY DEF Uploaded, Live
  <2>4. Accepted' = Accepted
    BY <1>1 DEF Accepted
  <2>5. \A q \in Accepted' : BytesOK(q)'
    BY <1>1, <2>3, <2>4, BytesRest
  <2> QED
    BY <2>2, <2>5 DEF BytesInv
<1> HIDE DEF Fetch1
<1>4. ASSUME src' = src PROVE \A s \in Sources : Same(s)
  BY <1>4
<1>5. \A s \in Sources : src[s] \in RowRecords
  BY DEF IInv, Tables
<1>6. CASE Load(w)
  <2> DEFINE l == IF Visible(Ref(w)) /\ src[Ref(w)].status = "processing"
                    THEN IF src[Ref(w)].kind = "web" THEN "fetch" ELSE "read"
                    ELSE "finish"
  <2>1. src' = src /\ Goto(w, l) /\ worker[w].pc = "load"
    BY <1>6 DEF Load, Doing, dbVars
  <2>2. l \in Dispatched /\ l /= "record" /\ (l = "fetch" => src[Ref(w)].kind = "web")
    BY DEF Dispatched, Ingesting
  <2> HIDE DEF l
  <2>3. Moves(w, l)
    BY <2>1, <2>2, Going DEF IInv
  <2>4. Fetch1
    BY <2>1, <2>2, <2>3 DEF Moves, OnlyWorker, Fetching, Fetch1
  <2> QED
    BY <1>4, <2>1, <2>4
<1>7. CASE Fetch(w)
  <2>1. Fetching(w) /\ \E l \in {"retry", "finish", "record"} : Goto(w, l)
    BY <1>7 DEF Fetch, ExtractionError, Doing, Fetching
  <2>2. Fetch1
    BY <1>2, <2>1 DEF Dispatched, Ingesting
  <2>3. \A s \in Sources : Same(s)
    BY <1>5, <1>7 DEF Fetch, ExtractionError, MarkFailed, IInv, Tables, RowRecords
  <2> QED
    BY <2>2, <2>3
<1>8. CASE Record(w)
  <2>1. worker[w].pc = "record" /\ Goto(w, "extract")
    BY <1>8 DEF Record, Doing
  <2>2. Fetch1
    BY <1>2, <2>1 DEF Dispatched, Ingesting
  <2>3. PICK s \in Sources : worker[w].job = Ingest(s) /\ Ref(w) = s
    BY <2>1, AtIngest DEF Ingesting
  <2>4. src[s].kind /= "file"
    BY <2>1, <2>3 DEF BytesInv, FetchesArticle, Fetching
  <2>5. \A r \in Sources : Same(r)
    BY <1>5, <1>8, <2>3, <2>4 DEF Record, IInv, Tables, RowRecords
  <2> QED
    BY <2>2, <2>5
<1>9. CASE Extract(w) \/ FailEntity(w)
  <2>1. \E l \in {"retry", "finish"} : Goto(w, l) \/ Release(w)
    BY <1>9 DEF Extract, FailEntity, ExtractionError
  <2>2. Fetch1
    BY <1>2, <2>1 DEF Dispatched
  <2>3. \A s \in Sources : Same(s)
    BY <1>5, <1>9, SMTT(40)
       DEF Extract, FailEntity, ExtractionError, MarkFailed, IInv, Tables, RowRecords
  <2> QED
    BY <2>2, <2>3
<1>10. CASE Erase(w)
  <2>1. Goto(w, "finish")
    BY <1>10 DEF Erase
  <2>2. Fetch1
    BY <1>2, <2>1 DEF Dispatched
  <2>3. ASSUME NEW s \in Sources PROVE Same(s) \/ Gone(s)
    <3>1. CASE src'[s] = src[s]
      BY <3>1
    <3>2. CASE src'[s] = [NoRow EXCEPT !.row = "gone"]
      BY <3>2 DEF NoRow
    <3>3. CASE /\ s \in Doomed(w) /\ worker[w].job /= PurgeTopic
               /\ src'[s] = [src[s] EXCEPT !.file = FALSE, !.size = 0,
                                           !.version = 0, !.content = "none"]
      <4>1. src[s].row = "deleted"
        BY <3>3 DEF Doomed
      <4>2. src'[s].row = "deleted" /\ src'[s].kind = src[s].kind
        BY <1>5, <3>3, <4>1 DEF RowRecords
      <4> QED
        BY <4>2
    <3> QED
      BY <1>10, <3>1, <3>2, <3>3 DEF Erase
  <2> QED
    BY <2>2, <2>3
<1>11. CASE Read(w) \/ Sweep(w) \/ Finish(w) \/ RetryOrFail(w) \/ Die(w) \/ Raise(w)
  <2>1. src' = src /\ \E l \in {"idle", "retry", "failentity", "extract",
                                "finish", "erase"} : Goto(w, l) \/ Release(w)
    BY <1>11 DEF Read, Sweep, Finish, RetryOrFail, Die, Raise, dbVars
  <2>2. Fetch1
    BY <1>2, <2>1 DEF Dispatched, Ingesting
  <2> QED
    BY <1>4, <2>1, <2>2
<1>12. ASSUME NEW j \in JobIds, Claim(w, j)
       PROVE  (\A s \in Sources : Same(s) \/ Gone(s)) /\ Fetch1
  <2>1. src' = src /\ \E l \in {"load", "purge"} :
            worker' = [worker EXCEPT ![w] = [pc |-> l, job |-> j]]
    BY <1>12 DEF Claim
  <2>2. Fetch1
    BY <2>1 DEF Fetch1, Fetching, IInv, Tables
  <2> QED
    BY <1>4, <2>1, <2>2
<1> QED
  BY <1>6, <1>7, <1>8, <1>9, <1>10, <1>11, <1>12 DEF WorkerStep

\* Every step keeps BytesInv, and one that inserts keeps to the limit and the
\* imports accepted meanwhile.
LEMMA BytesStep ==
    ASSUME IInv, QuotaInv, BytesInv, OffersBounded, Next
    PROVE  /\ BytesInv'
           /\ \A q \in Requests : Inserts(q) =>
                  SumOf(Sizes, Uploaded)' <= MaxBytes + request[q].met * LargestOffer
<1> DEFINE Bound(q) ==
              SumOf(Sizes, Uploaded)' <= MaxBytes + request[q].met * LargestOffer
           Bounded == \A q \in Requests : Inserts(q) => Bound(q)
<1>1. ASSUME Live' = Live \/ request' = request PROVE Bounded
  BY <1>1 DEF Inserts
<1>2. ASSUME worker' = worker,
             \A s \in Sources : src[s].row /= "none" /\ src[s].kind /= "file" =>
                                    src'[s].kind /= "file"
      PROVE  \A w \in Workers : FetchesArticle(w)'
  <2>1. \A w \in Workers : Fetching(w)' =>
            /\ worker'[w].job = worker[w].job
            /\ worker[w].pc \in {"load", "fetch", "record"} /\ Fetching(w)
    BY <1>2 DEF Fetching
  <2> QED
    BY <1>2, <2>1, ArticlesRest
<1>3. ASSUME worker' = worker, src' = src PROVE \A w \in Workers : FetchesArticle(w)'
  BY <1>2, <1>3
<1>4. ASSUME worker' = worker, src' = src, Accepted' \subseteq Accepted,
             \A q \in Accepted' : /\ request'[q].met = request[q].met
                                  /\ request'[q].offer = request[q].offer
      PROVE  BytesInv' /\ Bounded
  <2>1. Uploaded' = Uploaded /\ Live' = Live
    BY <1>4 DEF Uploaded, Live
  <2>2. \A s \in Uploaded' : src'[s].size = src[s].size
    BY <1>4
  <2>3. \A q \in Accepted' : BytesOK(q)'
    BY <1>4, <2>1, <2>2, BytesRest
  <2> QED
    BY <1>1, <1>3, <1>4, <2>1, <2>3 DEF BytesInv
<1>5. ASSUME NEW q \in Requests, NEW o \in Offers, Check(q, o)
      PROVE  BytesInv' /\ Bounded
  <2>1. worker' = worker /\ src' = src /\ Live' = Live
    BY <1>5 DEF Check, dbVars, Live
  <2>2. \A p \in Accepted' : BytesOK(p)'
    BY <1>5, CheckBytes
  <2> QED
    BY <1>1, <1>3, <2>1, <2>2 DEF BytesInv
<1>6. ASSUME NEW q \in Requests, Put(q) PROVE BytesInv' /\ Bounded
  <2>1. /\ worker' = worker /\ src' = src /\ request[q].pc = "put"
        /\ request' = [request EXCEPT ![q].pc = "insert"]
    BY <1>6 DEF Put, dbVars
  <2>2. \A p \in Requests : /\ request'[p].met = request[p].met
                            /\ request'[p].offer = request[p].offer
    BY <2>1 DEF IInv, Tables, RequestRecords
  <2>3. Accepted' \subseteq Accepted
    BY <2>1 DEF Accepted, IInv, Tables, RequestRecords
  <2> QED
    BY <1>4, <2>1, <2>2, <2>3 DEF Accepted
<1>7. ASSUME NEW q \in Requests, Insert(q) PROVE BytesInv' /\ Bounded
  <2>1. (\A p \in Accepted' : BytesOK(p)') /\ Bound(q)
    BY <1>7, InsertBytes
  <2>2. ASSUME NEW p \in Requests, Inserts(p) PROVE p = q
    BY <1>7, <2>2 DEF Insert, Inserts, IInv, Tables
  <2>3. request[q].pc = "insert" /\ worker' = worker
    BY <1>7 DEF Insert
  <2>4. PICK s \in Sources : s = request[q].id /\ src[s].row = "none"
    BY <2>3 DEF IInv, RequestsOK, RequestOK
  <2>5. \A r \in Sources \ {s} : src'[r] = src[r]
    BY <1>7, <2>4 DEF Insert, IInv, Tables
  <2>6. \A w \in Workers : FetchesArticle(w)'
    BY <1>2, <2>3, <2>4, <2>5
  <2> QED
    BY <2>1, <2>2, <2>6 DEF BytesInv
<1>8. ASSUME NEW q \in Requests, Abort(q) PROVE BytesInv' /\ Bounded
  <2>1. worker' = worker /\ src' = src /\ request' = [request EXCEPT ![q] = NoRequest]
    BY <1>8 DEF Abort, dbVars
  <2>2. Accepted' \subseteq Accepted
        /\ \A p \in Accepted' : request'[p] = request[p]
    BY <2>1 DEF Accepted, IInv, Tables, NoRequest
  <2> QED
    BY <1>4, <2>1, <2>2
<1>9. ASSUME NEW s \in Sources, EnsureDemo(s) PROVE BytesInv' /\ Bounded
  <2>1. request' = request /\ worker' = worker /\ topic = "none"
        /\ src[s].row = "none" /\ \A r \in Sources \ {s} : src'[r] = src[r]
    BY <1>9 DEF EnsureDemo, Unused, IInv, Tables
  <2>2. Accepted' = {}
    BY <2>1 DEF IInv, RequestsOK, RequestOK, Accepted
  <2>3. \A w \in Workers : FetchesArticle(w)'
    BY <1>2, <2>1
  <2> QED
    BY <1>1, <2>1, <2>2, <2>3 DEF BytesInv
<1>10. ASSUME NEW s \in Sources, Delete(s) \/ Retry(s)
       PROVE  BytesInv' /\ Bounded
  <2>1. /\ request' = request /\ worker' = worker
        /\ \A r \in Sources : /\ src'[r].kind = src[r].kind
                              /\ src'[r].size = src[r].size
                              /\ src'[r].row = "live" => src[r].row = "live"
    BY <1>10 DEF Delete, Retry, IInv, Tables, RowRecords
  <2>2. Uploaded' \subseteq Uploaded /\ \A r \in Uploaded' : src'[r].size = src[r].size
    BY <2>1 DEF Uploaded, Live
  <2>3. Accepted' = Accepted
    BY <2>1 DEF Accepted
  <2>4. \A q \in Accepted' : BytesOK(q)'
    BY <2>1, <2>2, <2>3, BytesRest
  <2>5. \A w \in Workers : FetchesArticle(w)'
    BY <1>2, <2>1
  <2> QED
    BY <1>1, <2>1, <2>4, <2>5 DEF BytesInv
<1>11. CASE CreateTopic \/ DeleteTopic
  <2>1. request' = request /\ worker' = worker /\ src' = src /\ Accepted' = Accepted
    BY <1>11 DEF CreateTopic, DeleteTopic, Accepted
  <2> QED
    BY <1>4, <2>1
<1>12. ASSUME NEW w \in Workers,
              WorkerStep(w) \/ Die(w) \/ Raise(w) \/ \E j \in JobIds : Claim(w, j)
       PROVE  BytesInv' /\ Bounded
  <2>1. request' = request
    BY <1>12 DEF WorkerStep, Load, Fetch, Record, Read, Extract, Sweep, Erase,
                 Finish, RetryOrFail, FailEntity, Die, Raise, Claim
  <2> QED
    BY <1>1, <1>12, <2>1, WorkerBytes
<1> QED
  BY <1>5, <1>6, <1>7, <1>8, <1>9, <1>10, <1>11, <1>12 DEF Next, RequestStep

(***************************************************************************)
(* _check_limits() before the insert, and no lock between them: an import  *)
(* may exceed the limits on the sources of a topic and on the bytes of a   *)
(* user, but by no more than the imports accepted while it was under way   *)
(* bring.  An import has a size limit of its own (m): that of a PDF or     *)
(* of a text (sources.py).                                                 *)
(***************************************************************************)
THEOREM QuotaOvershootHolds ==
    ASSUME NEW m \in Nat, \A o \in Offers : o.size <= m
    PROVE  Spec => QuotaOvershoot
<1>1. OffersBounded
  BY LargestBounds
<1>2. Init => QuotaInv /\ BytesInv
  <2> SUFFICES ASSUME Init PROVE QuotaInv /\ BytesInv
    OBVIOUS
  <2>1. Live = {} /\ Accepted = {} /\ \A w \in Workers : ~Fetching(w)
    BY DEF Init, Live, Accepted, NoRow, NoRequest, NoWork, Fetching
  <2> QED
    BY <2>1, FS_EmptySet DEF QuotaInv, BytesInv, FetchesArticle
<1>3. IInv /\ QuotaInv /\ BytesInv /\ [Next]_vars => QuotaInv' /\ BytesInv'
  <2> SUFFICES ASSUME IInv, QuotaInv, BytesInv, [Next]_vars
               PROVE  QuotaInv' /\ BytesInv'
    OBVIOUS
  <2>1. CASE UNCHANGED vars
    <3>1. /\ Live' = Live /\ Accepted' = Accepted /\ request' = request
          /\ worker' = worker /\ src' = src /\ Uploaded' = Uploaded
      BY <2>1 DEF vars, dbVars, Live, Accepted, Uploaded
    <3>2. QuotaInv'
      BY <3>1, QuotaRests
    <3>3. \A q \in Accepted' : BytesOK(q)'
      BY <1>1, <3>1, BytesRest
    <3>4. \A w \in Workers : FetchesArticle(w)'
      BY <3>1 DEF BytesInv, FetchesArticle, Fetching
    <3> QED
      BY <3>2, <3>3, <3>4 DEF BytesInv
  <2>2. CASE Next
    BY <1>1, <2>2, QuotaStep, BytesStep
  <2> QED
    BY <2>1, <2>2
<1>4. IInv /\ QuotaInv /\ BytesInv /\ SumsOK' /\ [Next]_vars =>
          [\A q \in Requests :
              Inserts(q) => CountBounded(q) /\ BytesBounded(q)]_vars
  <2> SUFFICES ASSUME IInv, QuotaInv, BytesInv, SumsOK', Next,
                      NEW q \in Requests, Inserts(q)
               PROVE  CountBounded(q) /\ BytesBounded(q)
    OBVIOUS
  <2>1. CountBounded(q)
    BY QuotaStep
  <2>2. SumOf(Sizes, Uploaded)' <= MaxBytes + request[q].met * LargestOffer
    BY <1>1, BytesStep
  <2> QED
    BY <2>1, <2>2 DEF SumsOK, BytesBounded
<1>5. QuotaInv => SumsOK
  BY UploadedIsSum
<1> QED
  BY <1>2, <1>3, <1>4, <1>5, MaterialsInvariance, PTL DEF Spec, QuotaOvershoot

=============================================================================
