# TLA+ verification of the ai-text backend

The backend (`src/src/app`, FastAPI + PostgreSQL + a worker process) answers
questions over a user's own materials and charges credits for the answers.  What
is hard in it is money and time: the same purchase is reported by several
channels, debits race, workers die between two commits, and users cancel and
retry while all that happens.  This directory holds the TLA+ models of that
code, the TLC runs that check them on small instances, and the TLAPS proofs that
hold for every instance.

`PROJECT.json` lists, for every definition, the source lines it models.

## 1. Inventory

| Part | State | Operations | Talks to | Correct when |
|---|---|---|---|---|
| **wallet and ledger** `wallet/service.py`, `audit/service.py` | `wallets`, `ledger_transactions`, `audit_logs` | `consume`, `grant`, `get_wallet` | called inside the transactions of generation, journal, admin | balance = sum of ledger, never negative, one movement per idempotency key, audit = ledger |
| **payments journal** `billing/payments.py` | `payments` | `record_and_grant`, `record_refund` | wallet; called by every channel | a purchase is credited once across channels, journalled truly, reversed at most once and never beyond its grant |
| **StoreKit channel** `subscription/service.py`, `token_purchase/service.py` | `subscriptions` | `sync`, `purchase`, `_revoked` | journal | access agrees with what was paid |
| **Adapty channel** `billing_adapty/` | `subscriptions` | `handle`, `_apply`, `_refund` | journal | "access follows the journal" |
| **CloudPayments channel** `billing_cloudpayments/` | `subscriptions`, `payments` | check, pay, fail, refund webhooks, checkout | journal, outgoing verification calls | verified before credited, paid periods add up |
| **access policy** `policy/`, `domain/access.py` | reads `users.trial_used`, `subscriptions`, `wallets` | `evaluate`, `load_policy_state`, `demo_free_left` | chat, generation | same verdict rule at acceptance and in the worker |
| **generation service** `generation/` | `generations` | `run` (policy, inflight guard, anchor, provider, settle, finalize) | wallet, policy, provider | one delivered result is charged at most once, no charge without a recorded result |
| **job queue** `domain/jobs.py` | `domain_jobs` | `enqueue`, `claim`, `finish`, `retry_later`, `fail`, `cancel_queued` | chat, summaries, sources, worker | one active job per entity, every job ends |
| **worker** `domain/worker.py`, `domain/runs.py` | none of its own | `run_once`, `_process`, `run_answer`, `run_summary`, `_finish`, `_fail_entity` | queue, generation, chat rows | a re-run after a crash neither loses nor repeats a charge |
| **chat** `domain/chat.py` | `chat_messages` | `ask`, `cancel`, `retry` | policy, queue | every question is settled, a canceled one is not charged |
| **summaries** `domain/summaries.py` | `summaries` | create, cancel, retry | as chat | as chat, plus: a reused summary was made from exactly the wanted materials |
| **materials** `domain/sources.py`, `ingest.py`, `purge.py`, `topics.py`, `storage.py`, `demo.py` | `topics`, `sources`, versions, chunks, files | upload, import, select, retry, delete, ingest, purge, demo topic | queue, storage | what shows as ready can be read, what was deleted goes and stays gone unless the file system refuses, limits hold but for concurrent imports |
| **context** `domain/context.py`, `repository.py` | `source_version_ids` of messages and summaries | selection, context, history | worker | the model reads only what the user may still use |
| **replies** `domain/provider.py`, `llm.py`, `citations.py`, `text.py`, `pricing.py` | the state of one run | failover, verification of claims, support check, map and reduce, numbering, chunking, quote lookup, price | worker | every block is backed, offsets are exact, a summary costs what was shown for it (it does not always: finding 7) |
| **authentication** `auth/` | `auth_devices`, `auth_identities`, `auth_refresh_tokens` | register, token, Sign in with Apple, refresh | all routers | one account per device and per Apple subject, a refresh token is used once |
| **catalogue** `products.py`, `billing_cloudpayments/checkout.py` | configuration | parse, price, extend | checkout, journal | what is sold is honoured |
| **rate limits** `api_gateway/rate_limit.py` | sorted sets in Redis | `_allow`, `enforce_*` | all routers | never more than the limit in any window |
| **admin** `admin/service.py` | none | `grant`, `grant_subscription` | wallet, subscriptions | as the wallet |
| rest of the gateway, observability, profile | none to speak of | – | – | – |

Where it is hard:

* *Concurrency.* PostgreSQL at READ COMMITTED: every statement sees what others
  have committed since the last one.  API processes and workers share the rows.
* *Non-atomic sequences.* A worker commits the anchor, the debit with the
  finalized generation, the question and the job in four transactions.
* *Delivery.* Webhooks are repeated until answered 200, arrive late and out of
  order, and overlap with the client's own reports of the same purchase.
* *Crashes and leases.* A dead worker is noticed by the expiry of its lease.
* *Stale reads.* `cancel`, `_finish` and `record_refund` act on rows read by an
  earlier statement of theirs.

`PROJECT.json` lists each such hazard at the line where it bites, with the
properties that cover it or the reason none does.

## 2. Modules

```
            Ledger                the promise of the wallet (abstract)
            /    \
      Wallet      \               the wallet, statement by statement
      |            Payments, CloudPayments, Answers   (INSTANCE Ledger)
      |               |            |           |
      |          MCPayments  MCCloudPayments   | MCAnswers
      |                                        |
      +------------- MCBilling ----------------+------.
                                                      |
  Reading (MCReading), Replying (MCReplying), Citing ------ MCPipeline
  Materials, Auth, RateLimit, Catalogue ------------------- MCServices
```

Beside them stand the proofs (section 5): `WalletProofs` (of `Ledger` and
`Wallet`), `PaymentsProofs`, `CloudPaymentsProofs`, `AnswersProofs`,
`MaterialsProofs`, `PipelineProofs` (of `Reading`, `Replying` and `Citing`) and
`GatewayProofs` (of `Auth`, `RateLimit` and `Catalogue`).  Each extends the modules it proves
about, and those that sum money, periods or bytes extend `Sums`, the facts
about sums over finite sets.

`Payments` (journal, StoreKit, Adapty), `CloudPayments` (its webhook) and
`Answers` (chat, queue, worker, generation, policy) use the wallet through `Ledger`, where a debit or a
grant is one atomic step.  That is justified by `WalletImplementsLedger`: the
statement-level wallet refines `Ledger`.

### Ledger
`ledger` (rows `[user, key, type, amount]`), `balance`.  One action, `Post(r)`:
the key is free, a debit is covered, row and balance change together.

### Wallet
A *session* is one database transaction.  `pc` names its next statement:

| action | code |
|---|---|
| `Begin` | the call and its `amount <= 0` check |
| `EnsureWallet` | `INSERT INTO wallets ... ON CONFLICT DO NOTHING` |
| `InsertLedger` | `INSERT INTO ledger_transactions ... ON CONFLICT DO NOTHING RETURNING` |
| `ReplayOrConflict` | `_replay_or_conflict` |
| `UpdateWallet` | `UPDATE wallets ... WHERE balance >= amount`, then the audit record |
| `Commit`, `Rollback` | `session_scope`; a rollback may follow any statement |

What a session wrote (`newWallet`, `newRow`, `moved`) is private until `Commit`,
and the same flags are its locks: an insert of a key another open transaction
has inserted, or an update of a row it has updated, waits.  `consume` and
`grant` differ only in the row's type and the `WHERE` clause, so `op[s].type`
selects between them.

### Payments
The journal with its two idempotency layers (delivery: `UNIQUE (channel,
external_id)`; grant: the ledger key), the StoreKit endpoints, and the Adapty
webhook for each class of event `classify_event` yields.  `Buy`, `StoreRefund`
and `Lapse` are the App Store and the calendar; `Spend` is a generation being
charged.  Any delivery may happen in any order and any number of times once the
store has done what it reports.  Granting handlers are one step: every write in
them is guarded by a unique key and no earlier read of theirs is used in it.
`record_refund` computes the amount to take from the balance it read, so it is
`RefundRead` and `RefundWrite`, with `RefundAbort` for a `consume` that raises or
a process that dies.  Expiry times are abstracted to the set `lapsed`.

### CloudPayments
One known user and concurrent webhook requests.  A callback carries nothing but
the order to look, so it is only remembered as answered or not (`owed`).  The
callbacks `handle` answers 200 without settling anything (a malformed body, a
missed gate, an account that is no id, an unknown user) and the 404 of the
aggregator taken as an empty list are left out: `UnsettledIsOwed` speaks of a
user the resolver finds and the aggregator knows.

| action | code |
|---|---|
| `Receive`, `Verify`, `Answer` | `handle`: the callback, the outgoing call and its two selections, the 200 |
| `RefundRead`, `RefundWrite`, `RefundRaises` | `_apply_refunds`, `record_refund` |
| `Journal`, `Grant`, `ReadExpiry`, `Commit` | `_apply_payment`, `record_and_grant`, `_upsert_subscription` |
| `Fail` | an outage of the aggregator, a database error, a crash: 500 |
| `Pay`, `PayBack`, `Tick`, `Spend` | the aggregator, the clock, a generation |

The transaction of a payment is cut at its statements because the term of the
subscription is read and written back inside it; the waits for the journal row
and the wallet row are in the guards (`RowFree`, `WalletFree`).  `now()` inside a
transaction is the time it began (`began`).  The user pays through this channel
only: StoreKit, Adapty and the operator, who overwrite the same subscription
row, are not in this model.

### Answers
One user, one topic that stays live (the return of `run_answer` for a deleted
one, `runs.py:142-144`, is left out).  A step is one committed transaction or one
read whose result is used later; `Retry` reads and writes in one step, which only
leaves out a second retry of the same question in between.

| action | code |
|---|---|
| `Ask`, `Retry`, `CancelRead`/`CancelWrite` | `ChatService.ask`, `retry`, `cancel` |
| `Claim`, `Finish`, `RetryOrFail`, `FailEntity` | `jobs.claim`, `Worker._process`, `_retry_or_fail`, `_fail_entity` |
| `Load`, `Start`, `Context` | `run_answer` up to the key |
| `Policy`, `Anchor`, `Provider`, `Settle` | steps 1–4 of `GenerationService.run` |
| `Orphan` | `_run_billed` on `AlreadyInProgressError` |
| `OnFailure`, `Refresh`, `Write` | `_on_failure`, `_execute`, `_finish` |
| `Die`, `Raise` | the process is killed; any other exception |
| `Existing`, `Anchored`, `FailedRow`, `Finalized`, `FlipsTrial` | the statements of `GenerationsRepository` |
| `TopUp`, `GrantSubscription` | `AdminService.grant`, `grant_subscription` |
| `Subscription` | a channel renews the subscription or reports its end |

`Refresh` and `Write` are separate because `_finish` refreshes the row with one
statement and writes it with a later one; SQLAlchemy omits an UPDATE of a column
that did not change, hence `seen`.  The ledger's rows and balances are
`posted` and `funds` here.  A job row is named by the question and the
attempt for which it was enqueued.  The free demo questions skip the policy and
the generation, as `run_answer` does.

A summary job takes the same path as an answer job (`run_summary` calls the same
`_execute`); what differs, the selection it reads and the reuse of a finished
summary, is in `Reading`.

The model assumes that a live worker finishes inside its lease (1200 s against a
provider deadline of 600 s): a running job is claimed again only when its worker
is gone.

### Reading
What the model may read.  A text *is* the set of sources it was made from,
directly or through an earlier answer in its prompt; so "deleted text reaches a
prompt" is a set inclusion.

| action | code |
|---|---|
| `Toggle`, `RemoveSource` | `SourceService.update`, `delete` |
| `Create`, `Cancel`, `Resend` | `ask` and `SummaryService.create`, `cancel`, `retry`, with `resolve_selection` and `_reusable` |
| `Begin`, `Assemble` | `run_answer`, `run_summary`: `build_context`, `answer_history`, and the versions written back |
| `Generate`, `Store` | the billed run or its replay under the same key, `_finish` |
| `Crash` | the worker is killed; its lease runs out |

The history variable `mixed` marks entities whose text and recorded versions come
from different runs: the case of finding 6, which `PromptIsolated` and
`ReuseIsExact` exclude and `DeletedTextStaysOut` does not.

### Replying
One run of the provider, from its calls to its reply.  `CallFails` is the
failover of `OpenAILLMClient.complete_json` over keys and proxies;
`ReceiveAnswer` and `CheckSupport` are `_answer` with `verify_claims`,
`_filter_supported` and the numbering of citations; `ReadPart`, `OnePart` and
`Reduce` are `_summary`, with `Plan` (`plan_summary_parts`) as an operator.
The price has two computations.  `ShowPrice` is `summary_quote`: the chunks of the
sources that were asked for, in the order of the request (`repository.py:144`).
`BuildContext` is what the run splits later: the sources that are still allowed,
in the order of their creation (`context.py:62`); `Charged` is `charge` of the
parts that were read.  `shelf` holds the sources by creation, `asked` the request
and `allowed` what is left of it.  The model's answer is any small list of claims, each with citations
that are found, not found, repeated or too many.

### Citing
`Normalize`, `FindQuote`, `ChunkText` and `ResolveQuote` are `normalize_with_map`,
`find_quote`, `chunk_text` and `CitationResolver` over sequences of characters;
a character is a letter, a capital, a ligature, a soft hyphen, a hyphen, a stop, a
bracket, a space or a line end, the classes the code treats differently.
`Index`, `Select` and `Cite` store the chunks, pick some for a question and
resolve a quote.  `CitationsExact` compares them with reference definitions: the
text, for the chunks; all the placings of the parts (`Placings`), for the search;
and the version's own characters, for the offsets.

### Materials
One topic; a row and a file are written by different steps, so the store
(`files`) and the database (`src`, `versions`, `jobs`, `topic`) are separate.

| action | code |
|---|---|
| `Check`, `Put`, `Insert`, `Abort` | `add_pdf`, `add_text`, `add_web`: limits, file, row and job |
| `CreateTopic`, `EnsureDemo`, `DeleteTopic` | `TopicService.create`, `ensure_demo`, `soft_delete_topics` |
| `Delete`, `Retry`, `Content`, `Original` | `SourceService` |
| `Claim`, `Load`, `Fetch`, `Record`, `Read`, `Extract` | `claim`, `run_ingest`, `_extract`, `_write_version` |
| `Sweep`, `Erase` | `purge_source`, `purge_topic`: files, then rows |
| `Finish`, `RetryOrFail`, `FailEntity`, `Die`, `Raise` | `Worker._process` |

`DeleteSources` is `storage.delete_source`: `rmtree(ignore_errors=True)`
(`storage.py:60`), so any file may stay, and its caller goes on as if it had not;
one such removal counts as a fault (`MaxFaults`).  Purges and the loser of an
import race call it.

Two history variables mark what the code gives up on.  `stray`: a file whose
request broke off after storing it, and a purge that begins under a running
ingest, whose version and snapshot are then written after the purge and never
removed.  `unswept`: a file that a removal left behind.

### Auth
A handler is one transaction; a step is one statement whose result is used
later, and the waits for uncommitted rows and keys are in the guards.
`Register`, `FindDevice`, `TouchDevice`, `CreateDevice` are `register_or_token`;
`SignIn`, `ChooseAccount`, `LinkIdentity`, `UpsertDevice` are
`sign_in_with_apple`; `Refresh`, `ClaimToken`, `Rotate`, `RevokeChain` are
`refresh`; `AbortCall` ends any of them.

### RateLimit
`Allow` is the Redis pipeline of `_allow`; `Enforce` walks the keys of a route
until the first refusal, as the `enforce_*` functions do; `Lose` is a restart of
Redis or an eviction.

### Catalogue
`AddPeriod` is `add_period` on a small calendar with a leap year, `Valid` is
`parse_products`, `Checkout` and `Pay` sell and honour an entry.

## 3. Runs

| run | instance | states | shows |
|---|---|---|---|
| `billing` | `Wallet`: 1 user, 3 keys, amounts 0 and 1, 2 sessions; `Answers`: 1 question sent twice, 2 workers, 1 fault | 238 thousand | every interleaving of two transactions refines `Ledger`, keeps sum, sign, key and audit, and ends; retries, cancellations and a crash at every point keep one runner and one charge |
| `payments` | a subscription and a token pack, a started, expired and refund event and a token event, 1 spend | 292 thousand | credited once, journalled truly, reversed within bounds, refunds get through |
| `cloudpayments` | 2 payments of any of 4 products, 2 requests, 2 instants, 1 spend, 1 fault | 2.7 million | periods add up and never slide, refunds are confirmed, nothing unsettled is acknowledged, no deadlock |
| `pipeline` | `Answers`: 2 questions, 2 workers, inflight limit 1, 1 top-up; `Reading`: 2 sources, 2 requests, 1 upset; `Replying`: 2 keys with 2 proxies, 2 batches, topics of up to 2 sources and 3 chunks; `Citing`: 681 texts of up to 6 characters | 1.0 million | questions racing for one trial and one balance, prompts within the selection, complete failover, backed replies, exact citations, sound parts, no summary dearer than shown if it was asked for in the order of creation |
| `services` | `Materials`: 2 sources, 2 requests, 2 workers, 1 fault; `Auth`: 2 devices, 2 subjects, 2 calls, 3 tokens; `RateLimit`: 2 keys, window 2; `Catalogue`: 168 entries | 2.0 million | ready is readable, deletion is owed and complete but for removals the file system refused, accounts converge, reuse revokes, windows and terms hold |
| `refund_twice` | as `payments` | violated | finding 1 |
| `rejected_access` | an unlisted subscription | violated | finding 2 |
| `stuck_question` | 1 question sent twice, no fault | violated | finding 3 |
| `paid_blocked` | 1 question, 1 fault | violated | finding 4 |
| `canceled_charged` | 1 question, no fault | violated | finding 5 |
| `deleted_text` | 2 sources, 2 requests, 1 upset | violated | finding 6 |
| `price_shown` | 2 sources, parts of 3 characters | violated | finding 7 |

`billing`, `pipeline` and `services` hold several modules that share no variable.  A
behaviour of such a run is a behaviour of one of them (`part`), the others rest
in their initial state; so each module is explored in full, and the states are
the sum, not the product.  Model values with the same role in different modules
are shared, so that one symmetry set serves all.

**Properties.**

* `BalanceIsLedgerSum`, `NonNegative`, `OneRowPerKey`: the invariants
  `wallet/service.py` is written around.  `AnswersAreTrue`: what a caller was
  told (done, replay, 409) is and stays true.  `AuditMatchesLedger`: no debit
  without its record or record without its debit.  `LedgerSpec`: refinement.
  `EveryCallEnds`: no deadlock among the locks.
* `GrantedOnce`, `JournalMatchesLedger`, `ReversalBounded`, `RefundsGetThrough`.
* `NoSlidingAccess`: access never exceeds the periods paid for.  `PeriodsAddUp`:
  each credited renewal moves a running term by its whole period.
  `RefundsConfirmed`, `UnsettledIsOwed`: a 200 is only given when nothing paid
  and fresh is missing from the journal.
* `OneRunner`: two workers never process one question.  `AnchorOwned`: a worker
  that settles still owns its anchor and has not been paid for it.
  `ChargesRecorded`: debits and charged generations are the same facts.
  `BilledOnce` adds that the one trial is spent once.  `AnswerBacked`,
  `EveryJobEnds`.
* `PromptIsolated`, `ReuseIsExact`: prompts and reused summaries hold exactly
  what their recorded selection says.
* `PartsAreSound`: the split of a summary reads each chunk once and in order and
  overfills no part.  `NeverDearer`: what was shown bounds what is charged, and is
  it if no source is lost, as long as the request names the sources in the order
  of their creation (or none of them).  Without that condition it is finding 7.
* `FailoverComplete`, `RepliesBacked`, `CitationsExact`: what a
  reply promises its reader.  `CitationsExact` lets an offset enclose a character
  more than the quote only where that character is a ligature whose other half the
  quote leaves out.  Three facts the last one accommodates: a quote that
  crosses chunks is stored with spaces where the text has line ends, a word
  hyphenated across a chunk border is not matched as one word, and the table of a
  summary may hold entries no thesis refers to.
* `ReadyIsReadable`.  `NothingLeftBehind`: nothing of a purged material stays,
  with three exceptions the code has: a file whose request broke off, an ingest the
  purge overtook (both `stray`), and a file the file system would not remove
  (`unswept`).  `DeletionIsOwed`: a deletion that is not complete has a job that
  will do it; the unswept files are nobody's job any more, because `storage.py:60`
  keeps the error to itself and the purge is closed as done, so the property does
  not speak of them.
* `QuotaOvershoot`: the limits are not serialized with the insert; what can be
  exceeded is bounded by the imports that were under way together.  In this
  instance the limit of one source per topic always binds first, so the run
  exercises the count; the bytes are covered by the proof (`QuotaOvershootHolds`).
* `AccountsConverge`, `ReuseRevokes`.  Not claimed, because the code does not
  provide it: one Apple identity per account (two subjects signing in at once on
  one device are both linked to it), and the revocation of tokens issued
  concurrently with the detection, except the direct successor.  Three requests
  can wait for each other in a circle; PostgreSQL aborts one (`AbortCall`).
* `WindowBound`, under the assumption that taking the time and running the
  pipeline are one step; `SoldIsHonoured`.

**Bounds.**  Two sessions, two workers and two questions are enough to make
every pairwise race; each lock, index or guard in the code protects against one
other actor.  Three keys are the least with
which two debits race for one granted credit; one key reused with the other type
makes a conflict, and the amount 0 is the one the calls refuse.  The proofs of
section 5 cover every other instance.  In `payments` the token pack gives the
second source of credits a refund could wrongly reach.  `MaxAttempt = 2` gives a
retry with a new key beside the old job; `MaxFaults = 1` puts a crash, or in `services`
a refused removal, at every point of a run, and `JobAttempts = 2` makes the second attempt the last one.
`Price`, `TopUpAmount` and `MaxInflight` of 1 put the limits where two actors
meet them; `MaxInflight = 2` in `billing` keeps the limit out of the way.
In `cloudpayments` two instants with periods of one instant and a freshness
window of the current one are enough for a term to run, to end, and for a
payment to grow stale; each payment may be a subscription, a token pack, an
unlisted product or an unknown class.
In `pipeline` the part limits sit at three characters, so that one pass, a full
part, an oversized chunk and one part too many all occur, and a topic whose order
of request changes the number of parts; two keys with two
proxies are the least in which a refused key must skip the rest of its proxies.
In `services` one source per topic and one byte of storage put two imports at
the limit; two versions allow a retry after a failed one; three users and three
tokens are a winner, a loser and a successor.  The calendar runs over a leap
February and four renewals, the start days include the 28th to the 31st.
`pipeline`, `services`, `deleted_text` and `cloudpayments` are checked up to
renaming of questions, sources, workers, payments and requests (safety runs; the
liveness runs use no symmetry).

Deadlock is checked for the CloudPayments webhook, which can always begin a
request; in the wallet `EveryCallEnds` is the absence of deadlocks.  The other
systems may stop: all deliveries made, or all questions closed and the attempts
used up.

**Fairness.**  A started statement of a session runs when it is unblocked again
and again: PostgreSQL wakes the waiters of a lock when its holder ends (strong
fairness of `Step`).  Adapty repeats a webhook until it is answered 200 and every
handler ends; a refund that could commit again and again does (strong fairness:
the read-to-write window is milliseconds, and the spends that can defeat it are
finite).  A worker loop that is alive goes on, an accepted cancel request goes
on, and `claim` takes the job with the earliest `run_after`, which a retry moves
back, so no job is passed over for ever.  `billing` states the same conditions for
the part that runs: the strong fairness of a session and that of a run are one
condition (`Resumes`), since only one of the two parts ever moves.  Users, faults and the store owe
nothing.

## 4. What the checks found

1. **A refund may take credits of another purchase** (`refund_twice`,
   `billing/payments.py:380`).  A refund that finds the balance at 0 posts no
   reversal row; the other channel's report of the same refund then debits
   whatever the user has bought since.  The comments promise one reversal.
2. **A rejected purchase gives access on redelivery** (`rejected_access`,
   `billing_adapty/service.py:237`).  The delivery layer answers `replayed` for
   any row that exists, a rejected one too, and `replayed` activates.
3. **A question can wait for ever** (`stuck_question`, `domain/jobs.py:46`).  A
   retry between the worker's closing of the question and of its job is queued
   without a job.  The run has no fault: a crash between the failing of a job and of
   its question, which would leave the question waiting too, is not shown by it.
4. **A paid question can end at the paywall** (`paid_blocked`,
   `generation/service.py:141`).  After a crash between the debit and the
   closing of the question, the policy is asked before the existing result is
   looked for.
5. **A canceled question can be charged** (`canceled_charged`,
   `domain/chat.py:170`).  `cancel` overwrites the status it read, though the
   answer was charged and delivered in between.
6. **Deleted text can come back through the history** (`deleted_text`,
   `domain/runs.py:169`).  A re-run after a crash records the narrowed selection
   and then replays the result made from the wider one; `answer_history` trusts
   the record.
7. **A summary can cost more, or less, than was shown** (`price_shown`,
   `domain/summaries.py:59`).  The price is computed over the chunks in the order of
   the request, the run splits them in the order of creation, and the greedy split
   depends on the order.  The comments (`summaries.py:42-43`, `pricing.py:7-9`) say
   the two are equal; that holds only while both orders agree and no source is lost
   in between (`NeverDearer`).

Beside these, `Materials` reaches states that contradict a comment without a run of
their own: a removal the file system refuses is forgotten.  `storage.py:60` keeps
the error to itself, the purge erases the rows and is done, and the files stay,
while `purge.py:7-8` says they are gone.  The same holds of a purge that overtakes
a running ingest (`stray`).

## 5. Proofs

The runs check small instances; the theorems hold for every value of the
constants that satisfies the named assumptions: any number of users, keys,
sessions, purchases, requests, questions, workers, sources, and any prices,
limits and bounds.  In each module the theorems are at the end and follow from
one inductive invariant, `IInv` unless another name is given.

| module | theorem | states |
|---|---|---|
| `WalletProofs` | `TypeCorrect`, `NeverNegative`, `KeyPostsOnce`, `AnswersHold`, `AuditComplete` | the safety invariants of the wallet |
| | `BalanceAddsUp`, `LedgerAddsUp` | `BalanceIsLedgerSum`, of the wallet and of `LedgerSpec` |
| | `WalletImplementsLedger` | `WalletSpec => LedgerSpec` |
| `PaymentsProofs` | `PaymentsTypeCorrect`, `GrantedOnceHolds`, `JournalMatchesLedgerHolds`, `ReversalBoundedHolds` | the safety invariants of the journal |
| | `PaymentsUseLedger` | `Spec => L!LedgerSpec` |
| `CloudPaymentsProofs` | `CloudTypeCorrect`, `RefundsConfirmedHolds`, `UnsettledIsOwedHolds`, `NoSlidingAccessHolds` | the safety invariants of the webhook |
| | `PeriodsAddUpHolds` | the action property `PeriodsAddUp` |
| | `CloudUsesLedger` | `Spec => L!LedgerSpec` |
| `AnswersProofs` | `TypeCorrect`, `OneRunnerHolds`, `AnchorOwnedHolds`, `ChargesRecordedHolds`, `BilledOnceHolds`, `AnswerBackedHolds` | the safety invariants of questions and charges |
| | `FinalizedForGood` | no step takes back or changes a finalized generation |
| | `UsesLedger` | `Spec => L!LedgerSpec` |
| `MaterialsProofs` | `MaterialsTypeCorrect`, `ReadyIsReadableHolds`, `NothingLeftBehindHolds`, `DeletionIsOwedHolds` | the safety invariants of materials |
| | `CountOvershoot`, `QuotaOvershootHolds` | the action property `QuotaOvershoot` |
| `PipelineProofs` | `ReadingTypeCorrect`, `PromptIsolatedHolds`, `ReuseIsExactHolds` | what a run may read |
| | `FailoverCompleteHolds` | how a run asks |
| | `PartsAreSoundHolds`, `NeverDearerHolds`, `RepliesBackedHolds` | what a run reads, costs and hands out |
| | `CitationsExactHolds`, with `ChunksCoverHolds` and `OffsetsExactHolds` | what citations rest on |
| `GatewayProofs` | `AuthTypeCorrect`, `AccountsConvergeHolds`, `ReuseRevokesHolds` | identity |
| | `WindowBoundHolds` | the rate limits |
| | `SellingHonours` | what the catalogue sells |

`WalletImplementsLedger` and the three theorems named after `Ledger` fit
together: `Payments`, `CloudPayments` and `Answers` only ever post to the ledger,
and the wallet's statements implement that posting, so what `LedgerAddsUp` says
of balances holds in each of them.

### Assumptions

* `AmountsAssumption`, `CallsAssumption` (wallet): amounts are integers, there
  is a call to make.  Whether an amount is positive is the wallet's own check.
* `PurchasesAssumption`, `EventsAssumption`, `ReportsAssumption` (payments):
  transaction ids are unique, configured credits are positive, and an event names
  the purchase's own user and kind.  The code keys the ledger by user and
  transaction and compares neither with what the other channel said.
* `ProductsAssumption`, `BillsAssumption`, `BoundsAssumption` (CloudPayments):
  periods and credits are positive.
* `BoundsAssumption` (answers): price and top-ups are positive, bounds are
  natural numbers.
* `OffersAssumption`, `LimitsAssumption` (materials): sizes and limits are
  natural numbers.  `DeletionIsOwedHolds` assumes `MaxFaults < JobAttempts`: with
  as many failures as attempts the worker gives a purge up, which is what the
  code means to do.  `QuotaOvershootHolds` assumes a largest offer, as
  `pdf_max_bytes` and `text_max_chars` provide (`domain/sources.py:170`, `:227`);
  `CountOvershoot` needs no such bound.
* `ReadingAssumption`, `AuthAssumption`, `RateAssumption`: entities are numbered
  by their age, "nobody" is nobody, window and limits are natural numbers.
* `ReplyingAssumption`: there is a key and a proxy, the limits and prices are
  natural numbers, no chunk is empty (`chunk_text` stores none, which is
  `ChunksCoverHolds`), and a citation names a chunk or one that is not found.
* `CitingAssumption`: texts and quotes are sequences of the model characters, and
  the target, the least quote and the span of an elided one are positive.
* `CatalogueAssumption`: the credits of an entry are integers, its period is a
  positive count of days, weeks, months or years, absent or not valid, the start
  dates exist, `Year0` and `MaxPaid` are natural numbers.

### Inductive invariants

None of the properties is inductive alone, each for the same reason: between
two steps an actor holds something it has read or written and others have not
seen, and the invariant must say what that is worth.

* *Wallet.*  `WritesMatchPc`: which private writes a session can have at each
  statement.  `KeyOwned`, `WalletOwned`: who inserted a key or updated a balance
  is the only one, and its debit is still covered.  `InsertLedger` and
  `UpdateWallet` establish them because they waited, `Commit` uses them.  For
  the sum a second invariant, `LedgerIInv`, adds that the ledger is finite.
* *Payments.*  A credit pays a purchase under its one key and is journalled
  (`CreditOK`); a granted row has its credit (`JournalOK`) and is the only one of
  its purchase (`JournalledOnce`); a reversal is no larger than the credit its key
  names (`ReversalOK`); and the grants a refund has read are still there
  (`RefundOK`), since the ledger only grows.
* *CloudPayments.*  `HandlerOK`: what the aggregator said of a refund or payment
  does not become false while a request acts on it, what is still to be
  journalled stays in the list of the request, and the term it has read is the
  running one, because the wallets row it holds keeps the others out
  (`OneWriter`).  `SlideInv` is the second invariant, for `NoSlidingAccess`: the
  term a request has read before a refund ended the subscription has a bound of
  its own.
* *Answers.*  A question has one active job (`OneActiveJob`) and a worker that
  holds one is its only runner; the anchor it will settle is running, unpaid and
  its own (`Owns`); a debit and a generation finalized in credits are one fact
  (`RunOK`); a question that shows as answered has such a run (`MessageOK`); and
  the runs finalized as the trial are one, or none (`TrialRunIsOne`).
* *Materials.*  One part for each pair of things that meet: rows and what is
  stored for them (`RowOK`), requests and the files they put before their rows
  (`RequestOK`, `FileOwned`), jobs and their one holder (`HolderOK`,
  `AttemptsOK`, `SourceJobsOK`), ingests and versions (`IngestOK`), purges and
  what they have swept (`PurgeOK`, `PurgedOK`).  `QuotaInv` and `BytesInv` bound,
  for every accepted import, what there is plus what the others may still bring.
* *Reading.*  An entity is worked on by its own reader only, so the invariant
  speaks of one entity, its reader and whether it is mixed (`Sound`).
* *Failover.*  `FailoverInv`: whatever comes before the next client was tried or
  has a refused key, and no refused key reaches that far.
* *Auth.*  What a request has read is still what it takes it for (`CallOK`); an
  uncommitted row or a claimed token has one holder (`OneHolder`); a token has
  one successor, and the chain a revocation has read holds it (`OneSuccessor`).
* *Rate limits.*  Counted from the end, the stamps in Redis are no older than the
  admitted attempts that are still in the window (`Covered`): so the set counted
  is never smaller than the number of attempts let through.
* *Catalogue.*  `CatalogueInv`: after n payments n times the credits are paid
  out and the term is n periods long (`Lasts`): exactly so in days for a period of
  days or weeks; for months and years the calendar months are exact, and the day
  it ends on is at most the day it began on, and is that day or one from the 28th
  on.  Without that last half a renewal could shorten a term more than once.
* *Price.*  `PriceInv`: the chunks of the run are those of the allowed sources by
  creation, the price shown is that of the sources asked for, and the units of the
  reply are the parts of what was read.  The work is in the plan: `_partition` cuts
  the chunks in order, part after part, and no part but one of a single chunk is
  over the limit (`PlanCuts`, `CutsCover`, `PlanHolds`).  `NeverDearer` compares two
  plans, of some chunks and of some of those: chunk by chunk, the shorter one is
  never in a later part, nor in the same part with more in it.
* *Replies.*  `BackedInv`: the theses and conflicts a run holds are claims with
  citations that were found, at most `MaxCited` each, and every one of them is a
  claim of the model's reply or counted as dropped; so filtering, numbering and
  merging them keep it.  `TableHolds`: the table of a reply is what was added to
  it, each entry once, and a number given out keeps its meaning.
* *Citations.*  `CitingInv`: the chunks written cover the version (`Covers`), the
  context is some of them.  `ChunkText`, `Normalize` and `Search` go on at a place
  of their own choice; that such a function exists is `RecursionExists`, and what
  it returns follows backwards from where it stops (`ChunkThenRest`,
  `CharThenRest`, `SearchIs`).  A citation is exact because nothing but spaces
  lies between the chunks of a run, which is `Covers` again (`RunSpans`).
* *Quotes.*  `QuotesExact` is about every text and quote, so no invariant but the
  type of the version is behind it.  A search takes each part as early as it can,
  so no placing of the parts that begins where it begins ends earlier
  (`GreedyLeast`), and it stops at the first beginning that works: it finds the
  parts exactly when they can be placed (`SearchExact`).  That the slice it names
  holds them has three steps.  What `Normalize` puts out is tidy, with no space at
  its ends and no two in a row (`PlaceTidy`), so a part begins and ends with a
  character that is no space.  From such a character on, a text is put out as if
  it began there (`Restarts`).  So the slice is put out as the text is, up to its
  end (`SliceFollows`), and the placing stands in it, but for the half of a
  ligature at either end (`SliceHolds`).  The facts about what is put out from a
  place on go backwards from the end of the text (`DownInduction`).

`Sums` shows that a sum over a finite set exists, is unique, and grows with its
set.  `MapThenSumSet` is a recursive function over the subsets of its argument,
and what it computes needs an induction; the induction theorems of the library
take a predicate, which the provers cannot instantiate, but well-foundedness of
`<` on numbers and of strict inclusion on finite sets is stated about *sets*
(`WFMin`), and the least counterexample of a set of bad subsets does the rest
(`SubsetInduction`).  The same argument gives the loops of the code, which the
modules write as iterations, folds and recursive functions: that they exist
(`Iteration`, `FoldExists`, `RecursionExists`), and that what every step keeps
holds at the end (`FoldSteps`, `RecursionInduction`).

### What the proofs found

* The bound on the number of imports a request meets, once in the type
  invariant of `Materials`, was wrong in general: one request may import many
  times while another is under way.  `met` is now any number.
* `GrantedOnce` and `ReversalBounded` need that two purchases do not share a
  transaction id and that reports agree on user and kind (`ReportsAssumption`);
  the instances satisfied that without saying so.
* `PartsAreSound` needs that no chunk is empty: a plan of empty chunks would have
  a part without text.  The instances had none and the code stores none, but
  nothing said so.
* `SelectSeq` is a recursive function inside a library module and no fact about
  it is known to the provers.  `Replying` and `Citing` select with folds instead,
  as the loops of the code do.

### Only model-checked

* *Liveness* (`EveryCallEnds`, `RefundsGetThrough`, `EveryJobEnds`): fairness
  and ENABLED are out of the prover's reach.
* `BillingTypeOK` and `ServicesTypeOK` as such: their cases are the theorems
  `TypeCorrect` of `WalletProofs` and `AnswersProofs`, `MaterialsTypeCorrect` and
  `AuthTypeCorrect`.

## 6. Not modelled

* *What becomes of files the file system refused to remove*: the model leaves them
  (`unswept`), and nothing in the code removes them later, so no property asks for it.
* *The lease overtaken by a slow worker*: assumed away in `Answers`, `Materials`
  and `Reading`.
* *`POST /v1/generate`* (a development route) racing on one key.
* *Expiry times in `Payments`*: an old report that overwrites a newer expiry
  cannot be told apart there; no line says which report must win.
* *Lock order between channels*: a StoreKit sync and an Adapty webhook of one
  purchase take the subscriptions row and the ledger key in opposite orders, and
  PostgreSQL aborts one of them; in `Payments` a handler is one step.
* *A retry of a material between its `failed` mark and the end of its job* finds
  the old job active and leaves the material processing without a job, and a late
  `_fail_entity` marks a material failed that became ready meanwhile.  Both are
  behaviours of `Materials`; they are the materials' form of finding 3, and no
  property claims otherwise.
* *The verification of Apple tokens and StoreKit receipts, the aggregator's API,
  the model, the web and the PDF parser*: their answers are inputs.
* *HTTP plumbing, settings, schemas, migrations, logging, metrics, prompts, views
  and lists*: no state of their own that a property is about.
* *Anonymisation of payloads, key formats, time zones, page numbers*: data the
  properties do not tell apart.

## 7. Plan

What is left, in this order:

1. `Answers` with an overtaken lease, where the CHECK constraints and the
   conditional updates of `generations` are what keeps charges single; abandoned
   anchors and the inflight limit.
2. `Payments` with expiry times as small numbers.
