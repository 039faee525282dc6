------------------------------ MODULE Answers ------------------------------
(***************************************************************************)
(* A question from the chat screen to a charged answer: the API handlers   *)
(* (domain/chat.py), the durable job queue (domain/jobs.py), the workers   *)
(* (domain/worker.py, domain/runs.py) and the billed run they make         *)
(* (generation/service.py, generation/repository.py), under the access     *)
(* policy (policy/engine.py).                                              *)
(*                                                                         *)
(* One step is one committed transaction or one read whose result is used  *)
(* later, so that everything the code lets happen between them does        *)
(* happen.  The wallet is its promise, module Ledger: one debit is one     *)
(* step, as Wallet is shown to implement.  All state here is per user, and *)
(* the model follows one user and one live topic.                          *)
(*                                                                         *)
(* A lease runs out only on a job no live worker holds: the lease (1200 s) *)
(* is twice the provider's deadline (600 s in .env.prod.example).          *)
(***************************************************************************)
EXTENDS Integers, FiniteSets

CONSTANTS Messages,
          Workers,
          User,
          Price,          \* answer_price()
          TopUps,         \* grants the user may receive
          TopUpAmount,
          MaxAttempt,     \* bound: a question is sent at most so often
          JobAttempts,    \* worker_max_attempts
          MaxInflight,    \* generation_max_inflight_per_user
          DemoQuestions,  \* demo_free_questions
          MaxFaults       \* bound: crashes and unexpected exceptions

ASSUME BoundsAssumption ==
    /\ Price \in Nat \ {0}
    /\ TopUpAmount \in Nat \ {0}
    /\ MaxAttempt \in Nat \ {0}
    /\ JobAttempts \in Nat \ {0}
    /\ MaxInflight \in Nat
    /\ DemoQuestions \in Nat
    /\ MaxFaults \in Nat

VARIABLES sub,          \* the effective subscription status
          trialUsed,    \* users.trial_used
          posted,       \* ledger_transactions
          funds,        \* wallets.balance
          generations,  \* rows of generations, by idempotency key
          messages,     \* rows of chat_messages
          jobs,         \* rows of domain_jobs of kind 'answer'
          canceling,    \* cancel requests that have read a running question
          worker,       \* what each worker is doing
          faults

moneyVars == <<sub, trialUsed, posted, funds>>
vars == <<moneyVars, generations, messages, jobs, canceling, worker, faults>>

\* answer:{message_id}:{attempt}, the key of a run.  A job is enqueued at
\* most once per attempt, so the pair names jobs as well.
RunIds == Messages \X (1..MaxAttempt)

DebitKey(r) == <<"generation", r>>
TopUpKey(t) == <<"top-up", t>>
LedgerKeys == {DebitKey(r) : r \in RunIds} \cup {TopUpKey(t) : t \in TopUps}

L == INSTANCE Ledger WITH Users <- {User}, Keys <- LedgerKeys,
                          Amounts <- {Price, TopUpAmount},
                          ledger <- posted, balance <- funds

DebitRow(r) ==
    [user |-> User, key |-> DebitKey(r), type |-> "debit", amount |-> Price]
TopUpRow(t) ==
    [user |-> User, key |-> TopUpKey(t), type |-> "credit",
     amount |-> TopUpAmount]

Waiting == {"queued", "running"}
Closed == {"failed", "blocked", "canceled"}
ActiveJob == {"queued", "running"}

NoGeneration ==
    [status |-> "none", billing |-> "none", charged |-> 0, kept |-> FALSE]

\* The job of a worker without one.
NoRun == <<>>

Idle(w) == worker[w].pc = "idle"

\* The worker inside _dispatch: an exception there reaches _process.
Dispatched == {"load", "start", "context", "policy", "anchor", "orphan",
               "provider", "settle", "onfailure", "refresh", "write",
               "finish"}

TypeOK ==
    /\ sub \in {"none", "active", "expired"}
    /\ trialUsed \in BOOLEAN
    /\ posted \subseteq L!Rows
    /\ funds \in [{User} -> Int]
    /\ generations \in [RunIds ->
          [status: {"none", "running", "succeeded", "failed"},
           billing: {"none", "trial", "credits", "unbilled"},
           charged: {0, Price}, kept: BOOLEAN]]
    /\ messages \in [Messages ->
          [status: {"none", "succeeded"} \cup Waiting \cup Closed,
           attempt: 0..MaxAttempt, demo: BOOLEAN, free: BOOLEAN]]
    /\ jobs \in [RunIds ->
          [status: {"none", "done", "failed"} \cup ActiveJob,
           attempts: 0..JobAttempts]]
    /\ canceling \subseteq Messages
    /\ worker \in [Workers ->
          [pc: {"idle", "retry", "failentity"} \cup Dispatched,
           job: RunIds \cup {NoRun}, run: RunIds \cup {NoRun},
           free: BOOLEAN,
           seen: {"none", "succeeded"} \cup Waiting \cup Closed,
           decision: {"none", "trial", "credits"},
           outcome: {"none", "retryable", "fatal", "succeeded"} \cup Closed]]
    /\ faults \in 0..MaxFaults

-----------------------------------------------------------------------------
(* The access policy.                                                      *)

\* evaluate(): the subscription comes before the balance.
Evaluate ==
    CASE sub = "active" ->
            IF funds[User] >= Price THEN "credits" ELSE "credits_empty"
      [] sub = "expired" -> "subscription_expired"
      [] OTHER -> IF trialUsed THEN "trial_used" ELSE "trial"

Allowed == Evaluate \in {"trial", "credits"}

DemoFreeLeft ==
    Cardinality({m \in Messages : messages[m].free}) < DemoQuestions

-----------------------------------------------------------------------------
(* The job queue.                                                          *)

HasActiveJob(m) ==
    \E r \in RunIds : r[1] = m /\ jobs[r].status \in ActiveJob

\* Variant: no partial unique index over the active jobs.
EnqueueAlways(r) ==
    jobs' = [jobs EXCEPT ![r] = [status |-> "queued", attempts |-> 0]]

\* INSERT ... ON CONFLICT (kind, ref_id) WHERE active DO NOTHING
Enqueue(r) ==
    jobs' = IF HasActiveJob(r[1]) THEN jobs
            ELSE [jobs EXCEPT ![r] = [status |-> "queued", attempts |-> 0]]

\* Drops only a job no worker has started.
CancelQueued(m) ==
    jobs' = [r \in RunIds |->
                IF r[1] = m /\ jobs[r].status = "queued"
                  THEN [jobs[r] EXCEPT !.status = "done"] ELSE jobs[r]]

Held(r) == \E w \in Workers : ~Idle(w) /\ worker[w].job = r

-----------------------------------------------------------------------------

IdleWorker ==
    [pc |-> "idle", job |-> NoRun, run |-> NoRun, free |-> FALSE,
     seen |-> "none", decision |-> "none", outcome |-> "none"]

Init ==
    /\ sub = "none"
    /\ trialUsed = FALSE
    /\ L!LedgerInit
    /\ generations = [r \in RunIds |-> NoGeneration]
    /\ messages = [m \in Messages |->
                      [status |-> "none", attempt |-> 0,
                       demo |-> FALSE, free |-> FALSE]]
    /\ jobs = [r \in RunIds |-> [status |-> "none", attempts |-> 0]]
    /\ canceling = {}
    /\ worker = [w \in Workers |-> IdleWorker]
    /\ faults = 0

-----------------------------------------------------------------------------
(* The user, and what changes access while questions are being answered.   *)

\* A question goes to the queue, or to the paywall.
Submit(m, demo, free) ==
    LET n == messages[m].attempt + 1
        status == IF free \/ Allowed THEN "queued" ELSE "blocked" IN
    /\ n <= MaxAttempt
    /\ messages' = [messages EXCEPT ![m] =
                       [status |-> status, attempt |-> n, demo |-> demo,
                        free |-> free]]
    /\ IF status = "queued" THEN Enqueue(<<m, n>>) ELSE UNCHANGED jobs
    /\ UNCHANGED <<moneyVars, generations, canceling, worker, faults>>

\* ask(), in the demo topic or another: the row and its job are inserted in
\* one transaction.
Ask(m, demo) ==
    /\ messages[m].status = "none"
    /\ Submit(m, demo, demo /\ DemoFreeLeft)

\* retry(): a demo question that was free stays free.  One step: no property
\* is about a status that changes between its read and its writes (see
\* CancelRead for where that matters).
Retry(m) ==
    /\ messages[m].status \in Closed
    /\ Submit(m, messages[m].demo,
              messages[m].demo /\ (messages[m].free \/ DemoFreeLeft))

\* cancel() reads the row ...
CancelRead(m) ==
    /\ messages[m].status \in Waiting
    /\ canceling' = canceling \cup {m}
    /\ UNCHANGED <<moneyVars, generations, messages, jobs, worker, faults>>

\* ... and overwrites its status, whatever it has become.
CancelWrite(m) ==
    /\ m \in canceling
    /\ canceling' = canceling \ {m}
    /\ messages' = [messages EXCEPT ![m].status = "canceled"]
    /\ CancelQueued(m)
    /\ UNCHANGED <<moneyVars, generations, worker, faults>>

\* grant() of the operator.
TopUp(t) ==
    /\ L!Post(TopUpRow(t))
    /\ UNCHANGED <<sub, trialUsed, generations, messages, jobs, canceling,
                   worker, faults>>

\* grant_subscription(): access and the credits of a period, one transaction.
GrantSubscription(t) ==
    /\ sub' = "active"
    /\ L!Post(TopUpRow(t))
    /\ UNCHANGED <<trialUsed, generations, messages, jobs, canceling, worker,
                   faults>>

\* A channel renews the subscription or reports its end; without credits,
\* grant_subscription() does the same.
Subscription(status) ==
    /\ sub /= status
    /\ status = "expired" => sub = "active"
    /\ sub' = status
    /\ UNCHANGED <<trialUsed, posted, funds, generations, messages, jobs,
                   canceling, worker, faults>>

-----------------------------------------------------------------------------
(* The worker.                                                             *)

Goto(w, l) == worker' = [worker EXCEPT ![w].pc = l]

\* _finish() with this status comes next.
Verdict(w, status) ==
    worker' = [worker EXCEPT ![w].pc = "refresh", ![w].outcome = status]

Release(w) == worker' = [worker EXCEPT ![w] = IdleWorker]

Msg(w) == messages[worker[w].job[1]]

\* Variant: a running job is taken whether or not its lease is over.
ClaimHeld(w, r) ==
    /\ Idle(w)
    /\ jobs[r].status \in ActiveJob
    /\ jobs' = [jobs EXCEPT ![r].status = "running",
                 ![r].attempts = IF @ < JobAttempts THEN @ + 1 ELSE @]
    /\ worker' = [worker EXCEPT ![w].pc = "load", ![w].job = r, ![w].run = r]
    /\ UNCHANGED <<moneyVars, generations, messages, canceling, faults>>

\* A queued job, or one whose worker is gone.  Only "is this the last
\* attempt" is asked of the counter, so it stops there.
Claim(w, r) ==
    /\ Idle(w)
    /\ \/ jobs[r].status = "queued"
       \/ jobs[r].status = "running" /\ ~Held(r)
    /\ jobs' = [jobs EXCEPT ![r].status = "running",
                 ![r].attempts = IF @ < JobAttempts THEN @ + 1 ELSE @]
    /\ worker' = [worker EXCEPT ![w].pc = "load", ![w].job = r, ![w].run = r]
    /\ UNCHANGED <<moneyVars, generations, messages, canceling, faults>>

\* run_answer() reads the question, of a topic that is there; its attempt and
\* free flag are not read again.
Load(w) ==
    /\ worker[w].pc = "load"
    /\ IF Msg(w).status \in Waiting
         THEN worker' = [worker EXCEPT
                 ![w].pc = "start", ![w].seen = Msg(w).status,
                 ![w].run = <<worker[w].job[1], Msg(w).attempt>>,
                 ![w].free = Msg(w).free]
         ELSE Goto(w, "finish")
    /\ UNCHANGED <<moneyVars, generations, messages, jobs, canceling, faults>>

\* status = 'running' is written only when something else was read.
Start(w) ==
    /\ worker[w].pc = "start"
    /\ messages' = IF worker[w].seen = "running" THEN messages
                   ELSE [messages EXCEPT ![worker[w].job[1]].status = "running"]
    /\ worker' = [worker EXCEPT ![w].pc = "context", ![w].seen = "none"]
    /\ UNCHANGED <<moneyVars, generations, jobs, canceling, faults>>

\* build_context(): the materials may be gone by now.
Context(w) ==
    /\ worker[w].pc = "context"
    /\ \/ Verdict(w, "failed")
       \/ Goto(w, IF worker[w].free THEN "provider" ELSE "policy")
    /\ UNCHANGED <<moneyVars, generations, messages, jobs, canceling, faults>>

Inflight == Cardinality({r \in RunIds : generations[r].status = "running"})

\* GenerationService.run(), steps 1 and 1.5.
Policy(w) ==
    /\ worker[w].pc = "policy"
    /\ CASE ~Allowed -> Verdict(w, "blocked")
         [] Allowed /\ MaxInflight > 0 /\ Inflight >= MaxInflight ->
               Goto(w, "retry")
         [] OTHER -> worker' = [worker EXCEPT ![w].pc = "anchor",
                                              ![w].decision = Evaluate]
    /\ UNCHANGED <<moneyVars, generations, messages, jobs, canceling, faults>>

\* get_by_key(), and what becomes of the row of a key: anchor() inserts it
\* and retry() starts it again, fail() and finalize() end it.
Existing(w) == generations[worker[w].run]
Anchored(r) == [generations EXCEPT ![r].status = "running"]
FailedRow(r) == [generations EXCEPT ![r].status = "failed"]
Finalized(r, billing, kept) ==
    [generations EXCEPT ![r] =
        [status |-> "succeeded", billing |-> billing, kept |-> kept,
         charged |-> IF billing = "credits" THEN Price ELSE 0]]

\* flip_trial() updates the row of the user only if the trial is left.
FlipsTrial(w) == worker[w].decision = "trial" /\ ~trialUsed

\* Variant: a row that exists is taken for a finished one.
AnchorTrustsRow(w) ==
    LET g == Existing(w) IN
    /\ worker[w].pc = "anchor"
    /\ IF g.status = "none" THEN Goto(w, "provider")
       ELSE Verdict(w, "succeeded")
    /\ generations' = IF g.status = "none" THEN Anchored(worker[w].run)
                      ELSE generations
    /\ UNCHANGED <<moneyVars, messages, jobs, canceling, faults>>

\* Step 2, committed before the provider is called.
Anchor(w) ==
    LET g == Existing(w) IN
    /\ worker[w].pc = "anchor"
    /\ CASE g.status \in {"none", "failed"} -> Goto(w, "provider")
         [] g.status = "running" -> Goto(w, "orphan")
         [] OTHER -> Verdict(w, IF g.kept THEN "succeeded" ELSE "failed")
    /\ generations' = IF g.status \in {"none", "failed"}
                        THEN Anchored(worker[w].run) ELSE generations
    /\ UNCHANGED <<moneyVars, messages, jobs, canceling, faults>>

\* _run_billed() on AlreadyInProgressError: an anchor older than the lease is
\* failed and run() is called again; a younger one is waited for.
Orphan(w) ==
    /\ worker[w].pc = "orphan"
    /\ \/ /\ generations' = FailedRow(worker[w].run)
          /\ Goto(w, "policy")
       \/ Goto(w, "retry") /\ UNCHANGED generations
    /\ UNCHANGED <<moneyVars, messages, jobs, canceling, faults>>

\* A provider failure: the row is failed without a debit.
ProviderFails(w, code) ==
    /\ worker' = [worker EXCEPT ![w].pc = "onfailure", ![w].outcome = code]
    /\ generations' = IF worker[w].free THEN generations
                      ELSE FailedRow(worker[w].run)

\* Step 3: the provider looks at the question before and after every model
\* call, and stops when it was canceled.
Provider(w) ==
    /\ worker[w].pc = "provider"
    /\ \/ \E code \in {"retryable", "fatal"} : ProviderFails(w, code)
       \/ Msg(w).status = "canceled" /\ ProviderFails(w, "canceled")
       \/ /\ Msg(w).status /= "canceled"
          /\ IF worker[w].free THEN Verdict(w, "succeeded")
             ELSE Goto(w, "settle")
          /\ UNCHANGED generations
    /\ UNCHANGED <<moneyVars, messages, jobs, canceling, faults>>

\* _settle(): the trial if it is still there, else a debit, else nothing.
Settlement(w) ==
    LET paid == L!RowsAt(posted, User, DebitKey(worker[w].run)) /= {} IN
    CASE FlipsTrial(w) -> "trial"
      [] paid \/ funds[User] >= Price -> "credits"
      [] OTHER -> "unbilled"

\* Variant: the debit is committed before the generation is finalized.
SettleUnrecorded(w) ==
    /\ worker[w].pc = "settle"
    /\ IF Settlement(w) = "credits" THEN L!Post(DebitRow(worker[w].run))
       ELSE UNCHANGED <<posted, funds>>
    /\ trialUsed' = (trialUsed \/ Settlement(w) = "trial")
    /\ Verdict(w, "succeeded")
    /\ UNCHANGED <<sub, generations, messages, jobs, canceling, faults>>

\* Variant: the trial is taken without WHERE trial_used = FALSE.
SettleTrialBlindly(w) ==
    LET r == worker[w].run
        billing == IF worker[w].decision = "trial" THEN "trial"
                   ELSE Settlement(w) IN
    /\ worker[w].pc = "settle"
    /\ IF billing = "credits" THEN L!Post(DebitRow(r))
       ELSE UNCHANGED <<posted, funds>>
    /\ trialUsed' = (trialUsed \/ billing = "trial")
    /\ generations' = Finalized(r, billing, TRUE)
    /\ Verdict(w, "succeeded")
    /\ UNCHANGED <<sub, messages, jobs, canceling, faults>>

\* Step 4, one transaction.  An output above generation_meta_max_bytes is
\* not kept.
Settle(w) ==
    LET r == worker[w].run
        billing == Settlement(w) IN
    /\ worker[w].pc = "settle"
    /\ IF billing = "credits" /\ L!RowsAt(posted, User, DebitKey(r)) = {}
         THEN L!Post(DebitRow(r)) ELSE UNCHANGED <<posted, funds>>
    /\ trialUsed' = (trialUsed \/ billing = "trial")
    /\ \E kept \in BOOLEAN : generations' = Finalized(r, billing, kept)
    /\ Verdict(w, "succeeded")
    /\ UNCHANGED <<sub, messages, jobs, canceling, faults>>

IsLast(w) == jobs[worker[w].job].attempts >= JobAttempts

\* Variant: the error code lands in the status.
OnFailureRaw(w) ==
    /\ worker[w].pc = "onfailure"
    /\ Verdict(w, worker[w].outcome)
    /\ UNCHANGED <<moneyVars, generations, messages, jobs, canceling, faults>>

\* _on_failure() reads the question's status.
OnFailure(w) ==
    LET code == worker[w].outcome IN
    /\ worker[w].pc = "onfailure"
    /\ CASE Msg(w).status = "canceled" \/ code = "canceled" ->
               Verdict(w, "canceled")
         [] Msg(w).status /= "canceled" /\ code = "retryable" /\ ~IsLast(w) ->
               Goto(w, "retry")
         [] OTHER -> Verdict(w, "failed")
    /\ UNCHANGED <<moneyVars, generations, messages, jobs, canceling, faults>>

\* _finish() reads it again: only a success replaces a cancellation ...
Refresh(w) ==
    /\ worker[w].pc = "refresh"
    /\ IF Msg(w).status = "canceled" /\ worker[w].outcome /= "succeeded"
         THEN Goto(w, "finish")
         ELSE worker' = [worker EXCEPT ![w].pc = "write",
                                       ![w].seen = Msg(w).status]
    /\ UNCHANGED <<moneyVars, generations, messages, jobs, canceling, faults>>

\* ... and writes its status when that differs from what it read.
Write(w) ==
    /\ worker[w].pc = "write"
    /\ messages' = IF worker[w].seen = worker[w].outcome THEN messages
                   ELSE [messages EXCEPT ![worker[w].job[1]].status =
                            worker[w].outcome]
    /\ Goto(w, "finish")
    /\ UNCHANGED <<moneyVars, generations, jobs, canceling, faults>>

\* jobs.finish(), in a transaction of its own.
Finish(w) ==
    /\ worker[w].pc = "finish"
    /\ jobs' = [jobs EXCEPT ![worker[w].job].status = "done"]
    /\ Release(w)
    /\ UNCHANGED <<moneyVars, generations, messages, canceling, faults>>

\* Variant: the last attempt is queued again like every other.
RetryForever(w) ==
    /\ worker[w].pc = "retry"
    /\ jobs' = [jobs EXCEPT ![worker[w].job].status = "queued"]
    /\ Release(w)
    /\ UNCHANGED <<moneyVars, generations, messages, canceling, faults>>

\* _retry_or_fail()
RetryOrFail(w) ==
    /\ worker[w].pc = "retry"
    /\ jobs' = [jobs EXCEPT ![worker[w].job].status =
                   IF IsLast(w) THEN "failed" ELSE "queued"]
    /\ IF IsLast(w) THEN Goto(w, "failentity") ELSE Release(w)
    /\ UNCHANGED <<moneyVars, generations, messages, canceling, faults>>

\* _fail_entity(): "... nothing was charged".
FailEntity(w) ==
    /\ worker[w].pc = "failentity"
    /\ messages' = [messages EXCEPT ![worker[w].job[1]].status =
                       IF @ \in Waiting THEN "failed" ELSE @]
    /\ Release(w)
    /\ UNCHANGED <<moneyVars, generations, jobs, canceling, faults>>

\* The process is killed: the transaction it was in is rolled back.
Die(w) ==
    /\ ~Idle(w)
    /\ faults < MaxFaults
    /\ faults' = faults + 1
    /\ Release(w)
    /\ UNCHANGED <<moneyVars, generations, messages, jobs, canceling>>

\* Any other exception inside _dispatch or jobs.finish (a lost database
\* connection): logged, and the job is retried or failed.
Raise(w) ==
    /\ worker[w].pc \in Dispatched
    /\ faults < MaxFaults
    /\ faults' = faults + 1
    /\ Goto(w, "retry")
    /\ UNCHANGED <<moneyVars, generations, messages, jobs, canceling>>

-----------------------------------------------------------------------------

WorkerStep(w) ==
    \/ Load(w) \/ Start(w) \/ Context(w)
    \/ Policy(w) \/ Anchor(w) \/ Orphan(w) \/ Provider(w) \/ Settle(w)
    \/ OnFailure(w) \/ Refresh(w) \/ Write(w)
    \/ Finish(w) \/ RetryOrFail(w) \/ FailEntity(w)

UserStep ==
    \/ \E m \in Messages, demo \in BOOLEAN : Ask(m, demo)
    \/ \E m \in Messages : Retry(m) \/ CancelRead(m) \/ CancelWrite(m)
    \/ \E t \in TopUps : TopUp(t) \/ GrantSubscription(t)
    \/ \E status \in {"active", "expired"} : Subscription(status)

Next ==
    \/ UserStep
    \/ \E w \in Workers : \/ WorkerStep(w) \/ Die(w) \/ Raise(w)
                         \/ \E r \in RunIds : Claim(w, r)

Spec == Init /\ [][Next]_vars

(***************************************************************************)
(* A worker loop that is alive and a request that was accepted go on; jobs *)
(* are claimed in the order of run_after, which a retry moves back, so no  *)
(* job is passed over for ever.  Nothing obliges the user to do anything,  *)
(* or a fault to happen.                                                   *)
(***************************************************************************)
GoOn == /\ \A w \in Workers : WF_vars(WorkerStep(w))
        /\ \A m \in Messages : WF_vars(CancelWrite(m))

Claimed(r) == \E w \in Workers : Claim(w, r)

Fairness == GoOn /\ \A r \in RunIds : SF_vars(Claimed(r))

FairSpec == Spec /\ Fairness

-----------------------------------------------------------------------------

Debits(r) == L!RowsAt(posted, User, DebitKey(r))

Running(w) == worker[w].pc \notin {"idle", "failentity"}

(***************************************************************************)
(* Two workers never process one question at the same time: the partial    *)
(* unique index of enqueue(), the lease of claim() and the order in which  *)
(* a worker closes its job keep them apart, across retries, cancellations  *)
(* and crashes.                                                            *)
(***************************************************************************)
OneRunner ==
    \A v, w \in Workers :
        v /= w /\ Running(v) /\ Running(w) => worker[v].job[1] /= worker[w].job[1]

(***************************************************************************)
(* A worker that is about to call the provider or to settle owns the       *)
(* generations row it anchored: nobody has failed or finished it since, so *)
(* the unconditional UPDATEs of fail() and finalize() hit the state they   *)
(* were written for, and no CHECK of the table is what stops them.         *)
(***************************************************************************)
AnchorOwned ==
    \A w \in Workers :
        worker[w].pc \in {"provider", "settle"} /\ ~worker[w].free =>
            /\ generations[worker[w].run].status = "running"
            /\ Debits(worker[w].run) = {}

(***************************************************************************)
(* The debits of the ledger and the charges of the generations are the     *)
(* same facts: credits go exactly for runs recorded as succeeded and       *)
(* charged, once each, whatever died in between (BR-7, step 4).            *)
(***************************************************************************)
ChargesRecorded ==
    \A r \in RunIds :
        LET g == generations[r] IN
        /\ Debits(r) = IF g.charged > 0 THEN {DebitRow(r)} ELSE {}
        /\ g.charged > 0 => g.status = "succeeded" /\ g.billing = "credits"

(***************************************************************************)
(* The lifetime trial buys one delivered generation: it is marked used     *)
(* exactly when one run was finalized as the trial, however many first     *)
(* questions were allowed on it at the same time (flip_trial).             *)
(***************************************************************************)
TrialSpentOnce ==
    Cardinality({r \in RunIds : generations[r].status = "succeeded"
                                /\ generations[r].billing = "trial"})
        = IF trialUsed THEN 1 ELSE 0

(***************************************************************************)
(* Questions that race for one trial and one balance are each billed once: *)
(* by a debit of their own, by the one trial, or not at all.               *)
(***************************************************************************)
BilledOnce == ChargesRecorded /\ TrialSpentOnce

(***************************************************************************)
(* An answer shown as succeeded outside the free demo was produced: one of *)
(* the question's runs is a succeeded generation.                          *)
(***************************************************************************)
AnswerBacked ==
    \A m \in Messages :
        messages[m].status = "succeeded" /\ ~messages[m].free =>
            \E r \in RunIds : r[1] = m /\ generations[r].status = "succeeded"

(***************************************************************************)
(* Every job leaves the queue: claimed, retried at most JobAttempts times  *)
(* and then closed, whatever the provider answers and whoever crashes.     *)
(***************************************************************************)
EveryJobEnds ==
    \A r \in RunIds : []<>(jobs[r].status \notin ActiveJob)

-----------------------------------------------------------------------------
(* What comments of the code claim.                                        *)

(***************************************************************************)
(* jobs.py: a row committed without its job "is exactly the bug of a       *)
(* status stuck for ever".  No question waits for ever.                    *)
(***************************************************************************)
QuestionsSettle ==
    \A m \in Messages :
        messages[m].status \in Waiting ~> messages[m].status \notin Waiting

(***************************************************************************)
(* runs.py: a job re-run after a crash "hits the same key: finished =>     *)
(* idempotent replay (0 credits, same result)".  A question never ends at  *)
(* the paywall once its current key was charged.                           *)
(***************************************************************************)
PaidNeverBlocked ==
    \A m \in Messages :
        messages[m].status = "blocked" =>
            Debits(<<m, messages[m].attempt>>) = {}

(***************************************************************************)
(* provider.py: "a canceled request stops, raises ProviderError and is     *)
(* therefore NOT charged".  A canceled question no worker is busy with was *)
(* not charged on its current key.                                         *)
(***************************************************************************)
CanceledNotCharged ==
    \A m \in Messages :
        messages[m].status = "canceled" /\ ~HasActiveJob(m) =>
            Debits(<<m, messages[m].attempt>>) = {}

=============================================================================
