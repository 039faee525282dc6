------------------------------ MODULE Payments ------------------------------
(***************************************************************************)
(* The payments journal (billing/payments.py) and the two channels an      *)
(* Apple purchase reaches it through: the client's StoreKit calls          *)
(* (subscription/service.py, token_purchase/service.py) and the Adapty     *)
(* webhook (billing_adapty/).                                              *)
(*                                                                         *)
(* Every delivery may come late, in any order and more than once: the      *)
(* client resends, Adapty retries every non-2xx answer for ever.  A        *)
(* handler is one database transaction.  Granting handlers read nothing    *)
(* that a concurrent handler could change under them and are one step;     *)
(* record_refund reads the grant, the reversal and the balance first and   *)
(* acts on what it read, so it is two.  Expiry times are abstracted to the *)
(* set of purchases whose period is over.                                  *)
(***************************************************************************)
EXTENDS Integers, FiniteSets

CONSTANTS Users,
          Purchases,  \* store transactions: [id, user, kind, credits, listed]
          Events,     \* Adapty events: [id, user, sem, txn, revokes]
          Spends,     \* identities of the debits the user's generations make
          NoTxn       \* no store transaction

Semantics == {"granting", "tokens", "refund", "expiring", "noop"}

ASSUME PurchasesAssumption ==
    /\ NoTxn \notin Purchases
    /\ \A p, q \in Purchases : p.id = q.id => p = q   \* Apple's transaction ids
    /\ \A p \in Purchases :
          /\ p.user \in Users
          /\ p.kind \in {"subscription", "tokens"}
          /\ p.credits \in Nat \ {0}
          /\ p.listed \in BOOLEAN    \* in PRODUCTS, sold through both channels

ASSUME EventsAssumption ==
    \A e \in Events :
        /\ e.user \in Users
        /\ e.sem \in Semantics
        /\ e.txn \in Purchases \cup {NoTxn}
        /\ e.revokes \in BOOLEAN   \* event_type = subscription_refunded

\* Adapty reports a purchase as what it is and to the user who made it: the
\* code compares neither with what StoreKit said.
ASSUME ReportsAssumption ==
    \A e \in Events : e.txn /= NoTxn =>
        /\ e.user = e.txn.user
        /\ e.sem = "granting" => e.txn.kind = "subscription"
        /\ e.sem = "tokens" => e.txn.kind = "tokens"

VARIABLES store,      \* what the App Store did with each purchase
          lapsed,     \* purchases whose paid period has ended
          ledger,     \* rows of ledger_transactions
          balance,    \* wallets.balance
          payments,   \* rows of the payments journal
          sub,        \* the subscriptions row of each user
          refunding   \* what the refunds in progress have read

vars == <<store, lapsed, ledger, balance, payments, sub, refunding>>

-----------------------------------------------------------------------------
(* Ledger keys and the wallet.                                             *)

SubKey(p) == <<"sub-grant", p.id>>
TokenKey(p) == <<"token-purchase", p.id>>
LegacyKey(p) == <<"adapty-txn", p.id>>
RefundKey(key) == <<"refund", key>>
SpendKey(g) == <<"generation", g>>

\* apple_grant_keys: nothing grants under the legacy key any more.
AppleGrantKeys(p) ==
    IF p = NoTxn THEN {} ELSE {SubKey(p), TokenKey(p), LegacyKey(p)}

LedgerKeys ==
    LET grant == UNION {AppleGrantKeys(p) : p \in Purchases} IN
    grant \cup {RefundKey(k) : k \in grant} \cup {SpendKey(g) : g \in Spends}

L == INSTANCE Ledger WITH Keys <- LedgerKeys, Amounts <- Nat

Row(u, key, type, amount) ==
    [user |-> u, key |-> key, type |-> type, amount |-> amount]

-----------------------------------------------------------------------------
(* The journal.                                                            *)

Synced(p) == <<"apple", p.id>>
Revoked(p) == <<"apple", "revocation", p.id>>
Webhook(e) == <<"adapty", e.id>>

\* UNIQUE (channel, external_id)
Journalled(d) == \E row \in payments : row.delivery = d

\* What record_and_grant will answer.  key is the set of at most one grant key.
Outcome(d, kind, p, u, key) ==
    IF Journalled(d) THEN "duplicate"
    ELSE IF kind /= "subscription_event" /\ (p = NoTxn \/ ~p.listed)
           THEN "rejected"
    ELSE IF key = {} \/ p = NoTxn THEN "no_grant"
    ELSE IF \E k \in key : L!RowsAt(ledger, u, k) /= {} THEN "replayed"
    ELSE "granted"

\* Variant: the journal row records the credits of a replayed grant too.
RecordAndGrantForgetsReplay(d, kind, p, u, key, outcome) ==
    LET credits == IF p = NoTxn THEN 0 ELSE p.credits
        new == {Row(u, k, "credit", credits) : k \in key} IN
    /\ payments' = IF outcome = "duplicate" THEN payments
                   ELSE payments \cup
                       {[delivery |-> d, user |-> u, txn |-> p, kind |-> kind,
                         status |-> IF outcome = "replayed" THEN "granted"
                                    ELSE outcome,
                         moved |-> credits, found |-> FALSE]}
    /\ IF outcome = "granted"
         THEN \E r \in new : L!Post(r)
         ELSE UNCHANGED <<ledger, balance>>

\* record_and_grant: the journal row and the grant, in the caller's transaction.
RecordAndGrant(d, kind, p, u, key, outcome) ==
    LET credits == IF outcome = "granted" THEN p.credits ELSE 0
        new == {Row(u, k, "credit", credits) : k \in key} IN
    /\ payments' = IF outcome = "duplicate" THEN payments
                   ELSE payments \cup
                       {[delivery |-> d, user |-> u, txn |-> p, kind |-> kind,
                         status |-> outcome, moved |-> credits,
                         found |-> FALSE]}
    /\ IF outcome = "granted"
         THEN \E r \in new : L!Post(r)
         ELSE UNCHANGED <<ledger, balance>>

Credits(u, p) == {r \in ledger : /\ r.user = u
                                 /\ r.type = "credit"
                                 /\ r.key \in AppleGrantKeys(p)}

\* record_refund up to the debit: the row is inserted, the grant, its reversal
\* and the balance are read.  The insert keeps a second copy of d out.  The three
\* reads are one step: a grant or reversal committed between them has the effect
\* of one committed just before or just after them.
RefundRead(d, u, p, revokes) ==
    /\ ~Journalled(d)
    /\ d \notin {f.delivery : f \in refunding}
    /\ refunding' = refunding \cup
         {[delivery |-> d, user |-> u, txn |-> p, revokes |-> revokes,
           grants |-> {r \in Credits(u, p) :
                         L!RowsAt(ledger, u, RefundKey(r.key)) = {}},
           found |-> Credits(u, p) /= {},
           balance |-> balance[u]]}
    /\ UNCHANGED <<store, lapsed, ledger, balance, payments, sub>>

\* Variant: the refund takes what the user has, not what the purchase granted.
TakeEverything(f, grant) == f.balance

\* Variant: the refund insists on the whole grant.
TakeWholeGrant(f, grant) == grant.amount

\* take = min(amount, balance)
Take(f, grant) == IF grant.amount <= f.balance THEN grant.amount ELSE f.balance

\* Variant: the row is never moved on from its initial status.
JournalRefundUnfinished(f, revoked) ==
    /\ payments' = payments \cup
         {[delivery |-> f.delivery, user |-> f.user, txn |-> f.txn,
           kind |-> "refund", status |-> "received", moved |-> revoked,
           found |-> f.found]}
    /\ sub' = sub

JournalRefund(f, revoked) ==
    /\ payments' = payments \cup
         {[delivery |-> f.delivery, user |-> f.user, txn |-> f.txn,
           kind |-> "refund", status |-> "refunded", moved |-> revoked,
           found |-> f.found]}
    /\ sub' = IF f.revokes /\ sub[f.user].status /= "none"
                THEN [sub EXCEPT ![f.user].status = "expired"]
                ELSE sub

\* record_refund from the debit to the commit.  A purchase is granted under at
\* most one key (GrantedOnce), so the loop over the grants has at most one turn.
RefundWrite(f) ==
    /\ f \in refunding
    /\ refunding' = refunding \ {f}
    /\ UNCHANGED <<store, lapsed>>
    /\ \/ /\ \A g \in f.grants : Take(f, g) = 0   \* nothing found or nothing left
          /\ JournalRefund(f, 0)
          /\ UNCHANGED <<ledger, balance>>
       \/ \E g \in f.grants :
            LET r == Row(f.user, RefundKey(g.key), "debit", Take(f, g)) IN
            /\ Take(f, g) > 0
            /\ JournalRefund(f, Take(f, g))
            /\ \/ L!Post(r)
               \/ r \in ledger /\ UNCHANGED <<ledger, balance>>  \* a replay

\* The consume of the reversal raises (the balance went, or another channel
\* reversed another amount) or the process dies: nothing of the refund stays.
RefundAbort(f) ==
    /\ f \in refunding
    /\ refunding' = refunding \ {f}
    /\ UNCHANGED <<store, lapsed, ledger, balance, payments, sub>>

-----------------------------------------------------------------------------
(* The channels.                                                           *)

Active(u, p) == [sub EXCEPT ![u] = [status |-> "active", plan |-> p]]

\* effective_subscription_status(...) = active
HasAccess(u) == sub[u].status = "active" /\ sub[u].plan \notin lapsed

\* subscription/service.py sync: the row is upserted whatever the journal says.
Sync(p) ==
    LET o == Outcome(Synced(p), "subscription", p, p.user, {SubKey(p)}) IN
    /\ store[p] /= "none"
    /\ p.kind = "subscription" /\ p.listed
    /\ sub' = IF p \in lapsed
                THEN [sub EXCEPT ![p.user] = [status |-> "expired", plan |-> p]]
                ELSE Active(p.user, p)
    /\ RecordAndGrant(Synced(p), "subscription", p, p.user, {SubKey(p)}, o)
    /\ UNCHANGED <<store, lapsed, refunding>>

\* token_purchase/service.py purchase: only with an active subscription.  The
\* code reads it before the transaction that grants; here both are one step.
PurchaseTokens(p) ==
    LET o == Outcome(Synced(p), "tokens", p, p.user, {TokenKey(p)}) IN
    /\ store[p] /= "none"
    /\ p.kind = "tokens" /\ p.listed
    /\ HasAccess(p.user)
    /\ RecordAndGrant(Synced(p), "tokens", p, p.user, {TokenKey(p)}, o)
    /\ UNCHANGED <<store, lapsed, sub, refunding>>

\* Either endpoint with a transaction Apple has revoked.
SyncRevoked(p) ==
    /\ store[p] = "refunded"
    /\ p.listed
    /\ RefundRead(Revoked(p), p.user, p, p.kind = "subscription")

\* An Adapty event can arrive once the store has done what it reports.
Sent(e) ==
    e.txn /= NoTxn =>
        store[e.txn] \in (IF e.sem = "refund" THEN {"refunded"}
                          ELSE {"paid", "refunded"})

\* Variant: Adapty grants under a namespace of its own.
GrantKeyPerChannel(e) ==
    IF e.txn /= NoTxn /\ e.sem \in {"granting", "tokens"}
      THEN {LegacyKey(e.txn)} ELSE {}

GrantKey(e) ==
    CASE e.txn = NoTxn -> {}
      [] e.sem = "granting" -> {SubKey(e.txn)}
      [] e.sem = "tokens" -> {TokenKey(e.txn)}
      [] OTHER -> {}

\* A granting event without a transaction id is journalled as a mere event.
KindOf(e) ==
    CASE e.txn /= NoTxn /\ e.sem = "granting" -> "subscription"
      [] e.txn /= NoTxn /\ e.sem = "tokens" -> "tokens"
      [] OTHER -> "subscription_event"

\* _apply for everything but refunds.
AdaptyApply(e) ==
    LET o == Outcome(Webhook(e), KindOf(e), e.txn, e.user, GrantKey(e)) IN
    /\ e.sem /= "refund"
    /\ Sent(e)
    /\ RecordAndGrant(Webhook(e), KindOf(e), e.txn, e.user, GrantKey(e), o)
    /\ sub' =
         IF KindOf(e) = "subscription" /\ o \in {"granted", "replayed", "duplicate"}
           THEN Active(e.user, e.txn)
         ELSE IF e.sem = "expiring" /\ o /= "rejected"
           THEN [sub EXCEPT ![e.user].status = "expired"]
         ELSE sub
    /\ UNCHANGED <<store, lapsed, refunding>>

\* _refund
AdaptyRefund(e) ==
    /\ e.sem = "refund"
    /\ Sent(e)
    /\ RefundRead(Webhook(e), e.user, e.txn, e.revokes)

-----------------------------------------------------------------------------
(* The world around the service.                                           *)

Buy(p) ==
    /\ store[p] = "none"
    /\ store' = [store EXCEPT ![p] = "paid"]
    /\ UNCHANGED <<lapsed, ledger, balance, payments, sub, refunding>>

StoreRefund(p) ==
    /\ store[p] = "paid"
    /\ store' = [store EXCEPT ![p] = "refunded"]
    /\ UNCHANGED <<lapsed, ledger, balance, payments, sub, refunding>>

Lapse(p) ==
    /\ p.kind = "subscription"
    /\ store[p] /= "none"
    /\ p \notin lapsed
    /\ lapsed' = lapsed \cup {p}
    /\ UNCHANGED <<store, ledger, balance, payments, sub, refunding>>

\* A generation of the user is charged (module Answers).
Spend(u, g, amount) ==
    /\ L!Post(Row(u, SpendKey(g), "debit", amount))
    /\ UNCHANGED <<store, lapsed, payments, sub, refunding>>

-----------------------------------------------------------------------------

Init ==
    /\ store = [p \in Purchases |-> "none"]
    /\ lapsed = {}
    /\ L!LedgerInit
    /\ payments = {}
    /\ sub = [u \in Users |-> [status |-> "none", plan |-> NoTxn]]
    /\ refunding = {}

Next ==
    \/ \E p \in Purchases :
          \/ Buy(p) \/ StoreRefund(p) \/ Lapse(p)
          \/ Sync(p) \/ PurchaseTokens(p) \/ SyncRevoked(p)
    \/ \E e \in Events : AdaptyApply(e) \/ AdaptyRefund(e)
    \/ \E f \in refunding : RefundWrite(f) \/ RefundAbort(f)
    \/ \E u \in Users, g \in Spends : \E amount \in 1..balance[u] :
          Spend(u, g, amount)

RefundWriteOf(e) == \E f \in refunding : f.delivery = Webhook(e) /\ RefundWrite(f)
RefundAbortOf(e) == \E f \in refunding : f.delivery = Webhook(e) /\ RefundAbort(f)

\* Adapty repeats a refund webhook until it is answered 200, every handler ends,
\* and one that can commit again and again eventually does.
Fairness ==
    \A e \in {ev \in Events : ev.sem = "refund"} :
        /\ WF_vars(AdaptyRefund(e))
        /\ WF_vars(RefundWriteOf(e) \/ RefundAbortOf(e))
        /\ SF_vars(RefundWriteOf(e))

Spec == Init /\ [][Next]_vars

FairSpec == Spec /\ Fairness

-----------------------------------------------------------------------------

\* In particular no committed journal row is left at its initial 'received'.
TypeOK ==
    /\ store \in [Purchases -> {"none", "paid", "refunded"}]
    /\ lapsed \subseteq Purchases
    /\ ledger \subseteq L!Rows
    /\ balance \in [Users -> Nat]
    /\ \A row \in payments :
          row.status \in {"granted", "replayed", "no_grant", "rejected",
                          "refunded"}
    /\ sub \in [Users -> [status: {"none", "active", "expired"},
                          plan: Purchases \cup {NoTxn}]]

(***************************************************************************)
(* Two layers of idempotency: whatever mix of StoreKit calls and Adapty    *)
(* events reports a purchase, in whatever order and however often, its     *)
(* credits are granted at most once.                                       *)
(***************************************************************************)
GrantedOnce ==
    \A p \in Purchases : Cardinality(Credits(p.user, p)) <= 1

(***************************************************************************)
(* No credited amount exists outside the journal and none is journalled    *)
(* that was not credited: the purchase credits of the ledger are exactly   *)
(* the rows the journal calls granted, one each, with their amount.        *)
(***************************************************************************)
JournalMatchesLedger ==
    LET granted == {row \in payments : row.status = "granted"} IN
    /\ \A row \in granted :
          \E r \in Credits(row.user, row.txn) : r.amount = row.moved
    /\ \A row, other \in granted : row.txn = other.txn => row = other
    /\ \A p \in Purchases :
          Credits(p.user, p) /= {} => \E row \in granted : row.txn = p

(***************************************************************************)
(* A refund takes back no more than its purchase granted, and nothing for  *)
(* a purchase that was never granted.                                      *)
(***************************************************************************)
ReversalBounded ==
    \A p \in Purchases : \A k \in AppleGrantKeys(p) :
        \A debit \in L!RowsAt(ledger, p.user, RefundKey(k)) :
            \E credit \in L!RowsAt(ledger, p.user, k) :
                credit.type = "credit" /\ debit.amount <= credit.amount

(***************************************************************************)
(* A refund is never turned away for ever: however much of the purchase    *)
(* the user has spent, and whatever spends or other channels race with it, *)
(* the webhook's refund ends up in the journal.                            *)
(***************************************************************************)
RefundsGetThrough ==
    \A e \in {ev \in Events : ev.sem = "refund"} :
        Sent(e) ~> Journalled(Webhook(e))

(***************************************************************************)
(* Claim of record_refund: a purchase reported refunded by two channels    *)
(* "is reversed exactly once" and "credits already spent are not           *)
(* recovered".  Once a refund of a granted purchase is journalled, no      *)
(* later step debits the user for that purchase again.                     *)
(***************************************************************************)
TakenBackOnce ==
    [][\A row \in payments : row.kind = "refund" /\ row.found =>
          \A k \in AppleGrantKeys(row.txn) :
              L!RowsAt(ledger, row.user, RefundKey(k))' =
              L!RowsAt(ledger, row.user, RefundKey(k))]_vars

(***************************************************************************)
(* Claim of billing_adapty/service.py: access follows the journal, "a      *)
(* payment the system officially REJECTED ... must not hand out a          *)
(* subscription".  An active subscription rests on a purchase that was     *)
(* credited.                                                               *)
(***************************************************************************)
AccessFollowsJournal ==
    \A u \in Users :
        sub[u].status = "active" => Credits(u, sub[u].plan) /= {}

=============================================================================
