----------------------------- MODULE Materials -----------------------------
(***************************************************************************)
(* The materials of a topic from upload to physical deletion: the import   *)
(* handlers (domain/sources.py), the topic handlers (domain/topics.py) and *)
(* the demo topic (domain/demo.py), the ingest and purge jobs              *)
(* (domain/ingest.py, domain/purge.py) and the file store they share       *)
(* (domain/storage.py).                                                    *)
(*                                                                         *)
(* A database row and a file are written by different steps, so one step   *)
(* is one committed transaction, one file operation, or one group of reads *)
(* whose result is used later.  The statuses uploading, extracting and     *)
(* indexing are one, "processing": no code distinguishes them.  A version  *)
(* and its chunks are inserted by one transaction, so a version stands for *)
(* both.  One user and one topic; the purge delay is not modelled, a purge *)
(* may run as soon as it is queued (PURGE_DELAY_SECONDS is 0 by default).  *)
(***************************************************************************)
EXTENDS Integers, FiniteSets, FiniteSetsExt

CONSTANTS Sources,      \* source ids, uuid4 of the handlers
          Requests,     \* concurrent import requests
          Workers,
          Offers,       \* what a request may bring: [kind, key, content, size]
          NoKey,        \* a request without Idempotency-Key
          MaxSources,   \* topic_max_sources
          MaxBytes,     \* user_storage_max_bytes
          WebSize,      \* bytes of a downloaded article
          MaxVersions,  \* bound: a source is extracted at most so often
          JobAttempts,  \* worker_max_attempts
          MaxFaults     \* bound: crashes, unexpected exceptions and
                        \* removals that leave files behind

ASSUME OffersAssumption ==
    \A o \in Offers : o.kind \in {"file", "web"} /\ o.size \in Nat

ASSUME LimitsAssumption ==
    /\ MaxSources \in Nat \ {0}
    /\ MaxBytes \in Nat
    /\ WebSize \in Nat
    /\ MaxVersions \in Nat \ {0}
    /\ JobAttempts \in Nat \ {0}
    /\ MaxFaults \in Nat

VARIABLES topic,     \* the topics row: none, live (the user's own), demo,
                     \* deleted (deleted_at set) or gone
          src,       \* rows of sources
          versions,  \* version numbers of each source in source_versions
          files,     \* sources with a directory in the file store
          jobs,      \* rows of domain_jobs
          request,   \* what each import request is doing; met (history):
                     \* how many other imports were accepted meanwhile
          worker,    \* what each worker is doing
          stray,     \* history: sources whose import broke off after its file
                     \* was stored, or whose purge began under an ingest
          unswept,   \* history: sources of which a removal left files behind
          faults

dbVars == <<topic, src, versions, jobs>>
vars == <<dbVars, files, request, worker, stray, unswept, faults>>

Ingest(s) == <<"ingest", s>>
PurgeSource(s) == <<"purge_source", s>>
PurgeTopic == <<"purge_topic", "topic">>

JobIds == {Ingest(s) : s \in Sources} \cup {PurgeSource(s) : s \in Sources}
              \cup {PurgeTopic}
Queue == {"queued", "running"}

\* An ingest past its first look at the source, and the worker inside
\* _dispatch or jobs.finish: an exception there reaches _process.
Ingesting == {"fetch", "record", "read", "extract"}
Dispatched == Ingesting \cup {"load", "purge", "erase", "finish"}

NoRow == [row |-> "none", kind |-> "none", key |-> NoKey, content |-> "none",
          size |-> 0, status |-> "none", file |-> FALSE, version |-> 0]
NoJob == [status |-> "none", attempts |-> 0]
NoRequest == [pc |-> "idle", offer |-> "none", id |-> "none",
              met |-> 0]
NoWork == [pc |-> "idle", job |-> "none"]

Rows == {s \in Sources : src[s].row \in {"live", "deleted"}}
Live == {s \in Sources : src[s].row = "live"}

TypeOK ==
    /\ topic \in {"none", "live", "demo", "deleted", "gone"}
    /\ \A s \in Sources :
          /\ src[s].row \in {"none", "live", "deleted", "gone"}
          /\ src[s].status \in {"none", "processing", "ready", "failed"}
          /\ src[s].version \in 0..MaxVersions
          /\ src[s].file \in BOOLEAN
    /\ versions \in [Sources -> SUBSET (1..MaxVersions)]
    /\ files \subseteq Sources
    /\ \A j \in JobIds : /\ jobs[j].status \in
                               {"none", "done", "failed"} \cup Queue
                         /\ jobs[j].attempts \in 0..JobAttempts
    /\ \A q \in Requests : /\ request[q].pc \in {"idle", "put", "insert"}
                           /\ request[q].met \in Nat
    /\ \A w \in Workers : worker[w].pc \in
          {"idle", "retry", "failentity"} \cup Dispatched
    /\ stray \subseteq Sources
    /\ unswept \subseteq files
    /\ faults \in 0..MaxFaults

Init ==
    /\ topic = "none"
    /\ src = [s \in Sources |-> NoRow]
    /\ versions = [s \in Sources |-> {}]
    /\ files = {}
    /\ jobs = [j \in JobIds |-> NoJob]
    /\ request = [q \in Requests |-> NoRequest]
    /\ worker = [w \in Workers |-> NoWork]
    /\ stray = {}
    /\ unswept = {}
    /\ faults = 0

-----------------------------------------------------------------------------
(* The queue (see also Answers).                                           *)

Enqueued(js, j) ==
    IF js[j].status \in Queue THEN js
    ELSE [js EXCEPT ![j] = [status |-> "queued", attempts |-> 0]]

\* The attempts of a closed job are not read again.
Closed(status) == [status |-> status, attempts |-> 0]

CancelQueued(js, j) ==
    IF js[j].status = "queued" THEN [js EXCEPT ![j] = Closed("done")] ELSE js

\* A worker that has closed its job holds it no longer.
Held(j) == \E w \in Workers : /\ worker[w].pc \notin {"idle", "failentity"}
                              /\ worker[w].job = j

IsLast(w) == jobs[worker[w].job].attempts >= JobAttempts

\* storage.delete_source(): rmtree(ignore_errors=True) keeps to itself that the
\* file system did not let it remove everything.
DeleteSources(removed) ==
    \E kept \in SUBSET (removed \cap files) :
        /\ files' = (files \ removed) \cup kept
        /\ unswept' = (unswept \ removed) \cup kept
        /\ \/ kept = {} /\ UNCHANGED faults
           \/ kept /= {} /\ faults < MaxFaults /\ faults' = faults + 1

Goto(w, l) == worker' = [worker EXCEPT ![w].pc = l]
Release(w) == worker' = [worker EXCEPT ![w] = NoWork]

-----------------------------------------------------------------------------
(* Import: add_pdf, add_text ("file") and add_web.                         *)

\* Ids no row, file or request has used: uuid4 never repeats.
Unused == {s \in Sources : /\ src[s].row = "none"
                           /\ s \notin files \cup stray
                           /\ \A q \in Requests : request[q].id /= s}

WithKey(k) == {s \in Rows : k /= NoKey /\ src[s].key = k}

\* The stored hash of a file, the URL of an article.
Duplicates(o) == {s \in Live : src[s].kind = o.kind
                               /\ src[s].content = o.content}

\* Variant: only the materials that are ready are counted.
CountsReady(o) ==
    LET ready == {s \in Live : src[s].status = "ready"} IN
    \/ Cardinality(ready) >= MaxSources
    \/ MapThenSumSet(LAMBDA s : src[s].size, ready) + o.size > MaxBytes

\* _check_limits() counts committed rows and locks nothing.
OverLimit(o) ==
    \/ Cardinality(Live) >= MaxSources
    \/ MapThenSumSet(LAMBDA s : src[s].size, Live) + o.size > MaxBytes

Accepted == {p \in Requests : request[p].pc /= "idle"}

\* What every import checks before it stores anything, in one step: the reads
\* are separate statements, of which _check_limits() is the last.  A request
\* that ends here (a replay, a duplicate, a refusal) changes nothing.
Check(q, o) ==
    /\ request[q].pc = "idle"
    /\ topic = "live"
    /\ WithKey(o.key) = {} /\ Duplicates(o) = {} /\ ~OverLimit(o)
    /\ \E s \in Unused :
          request' = [p \in Requests |->
             IF p = q
               THEN [pc |-> IF o.kind = "file" THEN "put" ELSE "insert",
                     offer |-> o, id |-> s, met |-> Cardinality(Accepted)]
             ELSE IF p \in Accepted THEN [request[p] EXCEPT !.met = @ + 1]
             ELSE request[p]]
    /\ UNCHANGED <<dbVars, files, worker, stray, unswept, faults>>

\* storage.put()
Put(q) ==
    /\ request[q].pc = "put"
    /\ files' = files \cup {request[q].id}
    /\ request' = [request EXCEPT ![q].pc = "insert"]
    /\ UNCHANGED <<dbVars, worker, stray, unswept, faults>>

\* The row a request inserts.
Inserted(o) ==
    [row |-> "live", kind |-> o.kind, key |-> o.key, content |-> o.content,
     size |-> IF o.kind = "file" THEN o.size ELSE 0,
     status |-> "processing", file |-> o.kind = "file", version |-> 0]

\* Variant: the loser of a race for a key removes the winner's files.
InsertCleansWinner(q) ==
    LET o == request[q].offer
        s == request[q].id
        lost == WithKey(o.key) IN
    /\ request[q].pc = "insert"
    /\ IF lost = {} /\ topic = "live"
         THEN /\ src' = [src EXCEPT ![s] = Inserted(o)]
              /\ jobs' = Enqueued(jobs, Ingest(s))
         ELSE UNCHANGED <<src, jobs>>
    /\ DeleteSources(lost)
    /\ stray' = IF lost /= {} \/ (topic /= "live" /\ s \in files)
                  THEN stray \cup {s} ELSE stray
    /\ request' = [request EXCEPT ![q] = NoRequest]
    /\ UNCHANGED <<topic, versions, worker>>

\* _insert() and _finish_create(), one transaction: touch_topic() makes it
\* wait for a deletion of the topic.  The loser of a race for a key has its
\* own file removed; in a topic that was deleted meanwhile, or is gone, the
\* request raises, and the file it stored stays.
Insert(q) ==
    LET o == request[q].offer
        s == request[q].id
        lost == WithKey(o.key) /= {} IN
    /\ request[q].pc = "insert"
    /\ IF ~lost /\ topic = "live"
         THEN /\ src' = [src EXCEPT ![s] = Inserted(o)]
              /\ jobs' = Enqueued(jobs, Ingest(s))
         ELSE UNCHANGED <<src, jobs>>
    /\ DeleteSources(IF lost THEN {s} ELSE {})
    /\ stray' = IF ~lost /\ topic /= "live" /\ s \in files
                  THEN stray \cup {s} ELSE stray
    /\ request' = [request EXCEPT ![q] = NoRequest]
    /\ UNCHANGED <<topic, versions, worker>>

\* The API process dies with the request.
Abort(q) ==
    /\ request[q].pc /= "idle"
    /\ faults < MaxFaults
    /\ faults' = faults + 1
    /\ stray' = stray \cup ({request[q].id} \cap files)
    /\ request' = [request EXCEPT ![q] = NoRequest]
    /\ UNCHANGED <<dbVars, files, worker, unswept>>

-----------------------------------------------------------------------------
(* The topic.                                                              *)

\* create(); a request sent again finds the row.
CreateTopic ==
    /\ topic = "none"
    /\ topic' = "live"
    /\ UNCHANGED <<src, versions, jobs, files, request, worker, stray, unswept, faults>>

\* The material of the demo topic is inserted as ready.  Its file_size is left
\* at 0: there is no other topic here whose imports it would be added to.
DemoRow == [NoRow EXCEPT !.row = "live", !.kind = "file", !.content = "demo",
                         !.status = "ready", !.file = TRUE, !.version = 1]

\* ensure_demo(), once per user: one transaction, in which the file is stored
\* first.  If it breaks off, the file stays and the next call begins anew.
EnsureDemo(s) ==
    /\ topic = "none"
    /\ s \in Unused
    /\ files' = files \cup {s}
    /\ \/ /\ topic' = "demo"
          /\ src' = [src EXCEPT ![s] = DemoRow]
          /\ versions' = [versions EXCEPT ![s] = {1}]
          /\ UNCHANGED <<stray, faults>>
       \/ /\ faults < MaxFaults
          /\ faults' = faults + 1
          /\ stray' = stray \cup {s}
          /\ UNCHANGED <<topic, src, versions>>
    /\ UNCHANGED <<jobs, request, worker, unswept>>

-----------------------------------------------------------------------------
(* What the user does with a material, and what it shows.                  *)

Open == {"live", "demo"}
Visible(s) == topic \in Open /\ src[s].row = "live"

\* delete(): excluded at once, purged by a job; the demo cannot be changed.
Delete(s) ==
    /\ Visible(s) /\ topic = "live"
    /\ src' = [src EXCEPT ![s].row = "deleted"]
    /\ jobs' = Enqueued(CancelQueued(jobs, Ingest(s)), PurgeSource(s))
    /\ UNCHANGED <<topic, versions, files, request, worker, stray, unswept, faults>>

\* retry()
Retry(s) ==
    /\ Visible(s)
    /\ src[s].status = "failed"
    /\ MaxVersions \notin versions[s]
    /\ src' = [src EXCEPT ![s].status = "processing"]
    /\ jobs' = Enqueued(jobs, Ingest(s))
    /\ UNCHANGED <<topic, versions, files, request, worker, stray, unswept, faults>>

\* soft_delete_topics()
DeleteTopic ==
    /\ topic \in Open
    /\ topic' = "deleted"
    /\ jobs' = Enqueued(jobs, PurgeTopic)
    /\ UNCHANGED <<src, versions, files, request, worker, stray, unswept, faults>>

\* content() without a version: what the reader gets.
Content(s) ==
    CASE src[s].row \in {"none", "gone"} -> "not_found"
      [] src[s].row /= "none" /\ topic \notin Open -> "not_found"
      [] src[s].row = "deleted" -> "deleted"
      [] src[s].version = 0 -> "not_ready"
      [] src[s].version \notin versions[s] -> "version_gone"
      [] OTHER -> "text"

\* original_link() and the download behind it.
Original(s) ==
    CASE ~Visible(s) -> "not_found"
      [] ~src[s].file -> "not_stored"
      [] s \notin files -> "file_missing"
      [] OTHER -> "file"

-----------------------------------------------------------------------------
(* The worker: run_ingest(), purge_source(), purge_topic().                *)

Ref(w) == worker[w].job[2]
Doing(w, l) == worker[w].pc = l
Ingests(w) == worker[w].job[1] = "ingest"

Claim(w, j) ==
    /\ Doing(w, "idle")
    /\ jobs[j].status = "queued" \/ (jobs[j].status = "running" /\ ~Held(j))
    /\ jobs' = [jobs EXCEPT ![j].status = "running",
                 ![j].attempts = IF @ < JobAttempts THEN @ + 1 ELSE @]
    /\ worker' = [worker EXCEPT ![w] =
                     [pc |-> IF j[1] = "ingest" THEN "load" ELSE "purge",
                      job |-> j]]
    /\ UNCHANGED <<topic, src, versions, files, request, stray, unswept, faults>>

\* Variant: the deletion mark is not looked at.
LoadAnyRow(w) ==
    LET s == Ref(w) IN
    /\ Doing(w, "load")
    /\ Goto(w, IF s \in Rows /\ src[s].status = "processing"
                 THEN IF src[s].kind = "web" THEN "fetch" ELSE "read"
                 ELSE "finish")
    /\ UNCHANGED <<dbVars, files, request, stray, unswept, faults>>

\* What is deleted, ready or failed is left alone.
Load(w) ==
    LET s == Ref(w) IN
    /\ Doing(w, "load")
    /\ Goto(w, IF Visible(s) /\ src[s].status = "processing"
                 THEN IF src[s].kind = "web" THEN "fetch" ELSE "read"
                 ELSE "finish")
    /\ UNCHANGED <<dbVars, files, request, stray, unswept, faults>>

\* An ExtractionError: retried while it may help, else the end of it.
MarkFailed(w) ==
    src' = [src EXCEPT ![Ref(w)].status =
               IF Ref(w) \in Rows THEN "failed" ELSE @]

ExtractionError(w) ==
    \/ ~IsLast(w) /\ Goto(w, "retry") /\ UNCHANGED src
    \/ MarkFailed(w) /\ Goto(w, "finish")

\* A web article is downloaded and its snapshot stored ...
Fetch(w) ==
    /\ Doing(w, "fetch")
    /\ \/ ExtractionError(w) /\ UNCHANGED files
       \/ /\ files' = files \cup {Ref(w)}
          /\ Goto(w, "record")
          /\ UNCHANGED src
    /\ UNCHANGED <<topic, versions, jobs, request, stray, unswept, faults>>

\* ... and then recorded: its size counts only from here on.
Record(w) ==
    LET s == Ref(w) IN
    /\ Doing(w, "record")
    /\ src' = IF s \in Rows
                THEN [src EXCEPT ![s].file = TRUE, ![s].size = WebSize]
                ELSE src
    /\ Goto(w, "extract")
    /\ UNCHANGED <<topic, versions, files, jobs, request, stray, unswept, faults>>

\* storage.read(): a file that is gone is an unexpected exception; what a
\* removal left behind need not be this one.
Read(w) ==
    /\ Doing(w, "read")
    /\ \/ Ref(w) \in files /\ Goto(w, "extract")
       \/ Ref(w) \notin files \ unswept /\ Goto(w, "retry")
    /\ UNCHANGED <<dbVars, files, request, stray, unswept, faults>>

\* Extraction ends in an error, or in _write_version(): one transaction,
\* whether or not the source was deleted meanwhile; without a row the foreign
\* key raises.
Extract(w) ==
    LET s == Ref(w)
        n == Cardinality(versions[s]) + 1 IN
    /\ Doing(w, "extract")
    /\ \/ ExtractionError(w) /\ UNCHANGED versions
       \/ /\ s \in Rows
          /\ versions' = [versions EXCEPT ![s] = @ \cup {n}]
          /\ src' = [src EXCEPT ![s].status = "ready", ![s].version = n]
          /\ Goto(w, "finish")
       \/ /\ s \notin Rows
          /\ Goto(w, "retry")
          /\ UNCHANGED <<versions, src>>
    /\ UNCHANGED <<topic, files, jobs, request, stray, unswept, faults>>

\* Sources some ingest is still working on.
Underway == {s \in Sources : \E w \in Workers : worker[w].pc \in Ingesting
                                               /\ worker[w].job = Ingest(s)}

\* What a purge job is to remove.
Doomed(w) ==
    IF worker[w].job = PurgeTopic
      THEN IF topic = "deleted" THEN Rows ELSE {}
      ELSE {Ref(w)} \cap {s \in Rows : src[s].row = "deleted"}

\* The files go first, of each source as far as the file system lets them;
\* without a deleted row there is nothing to do ...
Sweep(w) ==
    /\ Doing(w, "purge")
    /\ DeleteSources(Doomed(w))
    /\ stray' = stray \cup (Doomed(w) \cap Underway)
    /\ Goto(w, IF Doomed(w) = {} /\ (worker[w].job = PurgeTopic =>
                                        topic /= "deleted")
                 THEN "finish" ELSE "erase")
    /\ UNCHANGED <<dbVars, request>>

\* ... then, whatever became of them, one transaction: DELETE of the topic with everything below it,
\* or of the source's versions, leaving a tombstone.
Erase(w) ==
    LET topical == worker[w].job = PurgeTopic IN
    /\ Doing(w, "erase")
    /\ src' = [s \in Sources |->
          IF s \notin Doomed(w) THEN src[s]
          ELSE IF topical THEN [NoRow EXCEPT !.row = "gone"]
          ELSE [src[s] EXCEPT !.file = FALSE, !.size = 0, !.version = 0,
                              !.content = "none"]]
    /\ versions' = [s \in Sources |->
                       IF s \in Doomed(w) THEN {} ELSE versions[s]]
    /\ topic' = IF topical THEN "gone" ELSE topic
    /\ Goto(w, "finish")
    /\ UNCHANGED <<files, jobs, request, stray, unswept, faults>>

Finish(w) ==
    /\ Doing(w, "finish")
    /\ jobs' = [jobs EXCEPT ![worker[w].job] = Closed("done")]
    /\ Release(w)
    /\ UNCHANGED <<topic, src, versions, files, request, stray, unswept, faults>>

\* Variant: the first failure is the last.
FailAtOnce(w) ==
    /\ Doing(w, "retry")
    /\ jobs' = [jobs EXCEPT ![worker[w].job] = Closed("failed")]
    /\ IF Ingests(w) THEN Goto(w, "failentity") ELSE Release(w)
    /\ UNCHANGED <<topic, src, versions, files, request, stray, unswept, faults>>

RetryOrFail(w) ==
    /\ Doing(w, "retry")
    /\ jobs' = [jobs EXCEPT ![worker[w].job] =
                   IF IsLast(w) THEN Closed("failed")
                   ELSE [@ EXCEPT !.status = "queued"]]
    /\ IF IsLast(w) /\ Ingests(w) THEN Goto(w, "failentity")
       ELSE Release(w)
    /\ UNCHANGED <<topic, src, versions, files, request, stray, unswept, faults>>

\* Variant: the error code lands in the status.
FailEntityRaw(w) ==
    /\ Doing(w, "failentity")
    /\ src' = [src EXCEPT ![Ref(w)].status = "internal_error"]
    /\ Release(w)
    /\ UNCHANGED <<topic, versions, files, jobs, request, stray, unswept, faults>>

\* _fail_entity(): a material is marked failed whatever it has become.
FailEntity(w) ==
    /\ Doing(w, "failentity")
    /\ MarkFailed(w)
    /\ Release(w)
    /\ UNCHANGED <<topic, versions, files, jobs, request, stray, unswept, faults>>

\* The worker is killed, or something unexpected is raised: by the database,
\* the queue or a download, but not by the removal of a file.
Die(w) ==
    /\ ~Doing(w, "idle")
    /\ faults < MaxFaults
    /\ faults' = faults + 1
    /\ Release(w)
    /\ UNCHANGED <<dbVars, files, request, stray, unswept>>

Raise(w) ==
    /\ worker[w].pc \in Dispatched
    /\ faults < MaxFaults
    /\ faults' = faults + 1
    /\ Goto(w, "retry")
    /\ UNCHANGED <<dbVars, files, request, stray, unswept>>

-----------------------------------------------------------------------------

WorkerStep(w) ==
    \/ Load(w) \/ Fetch(w) \/ Record(w) \/ Read(w) \/ Extract(w)
    \/ Sweep(w) \/ Erase(w)
    \/ Finish(w) \/ RetryOrFail(w) \/ FailEntity(w)

RequestStep(q) == Put(q) \/ Insert(q) \/ Abort(q)

Next ==
    \/ \E q \in Requests : RequestStep(q) \/ \E o \in Offers : Check(q, o)
    \/ \E s \in Sources : EnsureDemo(s) \/ Delete(s) \/ Retry(s)
    \/ CreateTopic \/ DeleteTopic
    \/ \E w \in Workers : \/ WorkerStep(w) \/ Die(w) \/ Raise(w)
                         \/ \E j \in JobIds : Claim(w, j)

Spec == Init /\ [][Next]_vars

-----------------------------------------------------------------------------

(***************************************************************************)
(* A material that shows as ready can be read: content() finds its current *)
(* version and the original can be downloaded, whatever was uploaded,      *)
(* deleted, purged or retried around it.                                   *)
(***************************************************************************)
ReadyIsReadable ==
    \A s \in Sources :
        Visible(s) /\ src[s].status = "ready" =>
            Content(s) = "text" /\ Original(s) = "file"

(***************************************************************************)
(* What was purged, and an upload that was refused, leave neither files    *)
(* nor text behind (purge.py: "files, versions, chunks"), except in the    *)
(* three cases the code does not handle: a request that broke off after it *)
(* had stored its file and a purge under an ingest that was running        *)
(* (stray), and files a removal could not remove (unswept), which          *)
(* storage.py ignores.  The text goes in the third case too.               *)
(***************************************************************************)
NothingLeftBehind ==
    \A s \in Sources \ stray :
        LET purged == \/ src[s].row = "gone"
                      \/ /\ src[s].row = "deleted"
                         /\ jobs[PurgeSource(s)].status = "done" IN
        /\ purged => s \notin files \ unswept /\ versions[s] = {}
        /\ src[s].row = "none" /\ s \in files \ unswept =>
               \E q \in Requests : request[q].id = s

LargestOffer == Max({o.size : o \in Offers})

UploadedBytes ==
    MapThenSumSet(LAMBDA s : src[s].size, {s \in Live : src[s].kind = "file"})

Inserts(q) == request[q].pc = "insert" /\ request'[q].pc = "idle"
              /\ Live' /= Live

CountBounded(q) == Cardinality(Live') <= MaxSources + request[q].met
BytesBounded(q) == UploadedBytes' <= MaxBytes + request[q].met * LargestOffer

(***************************************************************************)
(* _check_limits() is not serialized with the insert: an import may exceed *)
(* the limits, but by no more than the imports accepted while it was under *)
(* way bring.  (An article counts once it is downloaded.)                  *)
(***************************************************************************)
QuotaOvershoot ==
    [][\A q \in Requests :
          Inserts(q) => CountBounded(q) /\ BytesBounded(q)]_vars

(***************************************************************************)
(* A deletion is never forgotten: while a deleted material still has text, *)
(* or files no removal left behind, or a deleted topic its row, a purge    *)
(* job for it is queued or running, through retries and crashes (fewer     *)
(* than a job has attempts).  Files a removal left behind (unswept) are    *)
(* owed by nobody: the job goes on, and is done.                           *)
(***************************************************************************)
DeletionIsOwed ==
    LET owed(j) == jobs[j].status \in Queue IN
    /\ \A s \in Sources \ stray :
          src[s].row = "deleted"
             /\ (s \in files \ unswept \/ versions[s] /= {}) =>
                owed(PurgeSource(s))
    /\ topic = "deleted" => owed(PurgeTopic)

=============================================================================
