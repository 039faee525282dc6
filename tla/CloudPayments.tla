--------------------------- MODULE CloudPayments ---------------------------
(***************************************************************************)
(* The CloudPayments webhook (billing_cloudpayments/service.py, verify.py) *)
(* over the payments journal: a callback is only a trigger, the handler    *)
(* asks the aggregator which payments of the user are paid or refunded,    *)
(* and then reverses and credits them, each in a transaction of its own.   *)
(*                                                                         *)
(* All rows belong to one user, who pays through this channel.  Handlers   *)
(* run concurrently; what one has read from the aggregator may be out of   *)
(* date when it acts on it.  Inside the transaction of a payment the       *)
(* journal row keeps a second copy of the payment out and the updated      *)
(* wallet row keeps out everybody else who moves the user's credits: these *)
(* two waits are modelled, because the subscription is read and written    *)
(* back under them.  Times are small numbers.                              *)
(***************************************************************************)
EXTENDS Integers, FiniteSetsExt

CONSTANTS User,
          Bills,      \* payments at the aggregator, by payment_id
          Products,   \* [type, listed, credits, period]
          Handlers,   \* webhook requests that may be in progress at once
          Spends,     \* debits the user's generations make
          Freshness,  \* cloudpayments_payment_freshness_hours
          MaxNow,     \* bound: the end of time
          MaxFaults   \* bound: outages of the aggregator, crashes

ASSUME ProductsAssumption ==
    \A p \in Products :
        /\ p.type \in {"subscription", "one_time", "other"}
        /\ p.listed \in BOOLEAN      \* in PRODUCTS, for this channel
        /\ p.credits \in Nat \ {0}
        /\ p.period \in Nat \ {0}

ASSUME BoundsAssumption ==
    Freshness \in Nat /\ MaxNow \in Nat /\ MaxFaults \in Nat

VARIABLES now,
          bought,     \* the product of each payment
          bill,       \* the aggregator's record of each payment
          owed,       \* payments whose callback was not yet answered 200
          ledger, balance,
          payments,   \* journal rows of this channel
          sub,        \* the subscriptions row
          handler,    \* what each request is doing
          faults

world == <<now, bought, bill>>
moneyVars == <<ledger, balance>>
vars == <<world, owed, moneyVars, payments, sub, handler, faults>>

GrantKey(b) == <<"cp-txn", b>>
RefundKey(b) == <<"refund", b>>
SpendKey(g) == <<"generation", g>>

L == INSTANCE Ledger WITH
        Users <- {User}, Amounts <- Nat,
        Keys <- {GrantKey(b) : b \in Bills} \cup {RefundKey(b) : b \in Bills}
                    \cup {SpendKey(g) : g \in Spends}

Row(key, type, amount) ==
    [user |-> User, key |-> key, type |-> type, amount |-> amount]

Posted(key) == L!RowsAt(ledger, User, key) /= {}

Journalled(b, kind) == \E row \in payments : row.bill = b /\ row.kind = kind

IsSubscription(b) == bought[b].type = "subscription"

NoBill == "no bill"

ASSUME BillsAssumption == NoBill \notin Bills

\* The callback of a refund, one that was answered before, or a forged one.
Unsolicited == NoBill

IdleHandler ==
    [pc |-> "idle", callback |-> Unsolicited, credit |-> {}, refund |-> {},
     bill |-> NoBill, began |-> 0, read |-> 0]

TypeOK ==
    /\ now \in 0..MaxNow
    /\ bought \in [Bills -> Products]
    /\ bill \in [Bills -> [status: {"none", "paid", "refunded"}, at: 0..MaxNow]]
    /\ owed \subseteq Bills
    /\ ledger \subseteq L!Rows
    /\ balance \in [{User} -> Nat]
    /\ payments \subseteq [bill: Bills, kind: {"payment", "refund"},
                           status: {"granted", "rejected", "refunded"}]
    /\ sub \in [status: {"none", "active", "expired"}, expires: Nat]
    /\ \A h \in Handlers :
          /\ handler[h].pc \in {"idle", "verify", "loop", "refund", "grant",
                                "expiry", "commit"}
          /\ handler[h].credit \cup handler[h].refund \subseteq Bills
          /\ handler[h].bill \in Bills \cup {NoBill}
          /\ handler[h].read \in Nat
    /\ faults \in 0..MaxFaults

Init ==
    /\ now = 0
    /\ bought \in [Bills -> Products]
    /\ bill = [b \in Bills |-> [status |-> "none", at |-> 0]]
    /\ owed = {}
    /\ L!LedgerInit
    /\ payments = {}
    /\ sub = [status |-> "none", expires |-> 0]
    /\ handler = [h \in Handlers |-> IdleHandler]
    /\ faults = 0

-----------------------------------------------------------------------------
(* The aggregator, the calendar and the user.                              *)

Tick ==
    /\ now < MaxNow
    /\ now' = now + 1
    /\ UNCHANGED <<bought, bill, owed, moneyVars, payments, sub, handler,
                   faults>>

Pay(b) ==
    /\ bill[b].status = "none"
    /\ bill' = [bill EXCEPT ![b] = [status |-> "paid", at |-> now]]
    /\ owed' = owed \cup {b}
    /\ UNCHANGED <<now, bought, moneyVars, payments, sub, handler, faults>>

PayBack(b) ==
    /\ bill[b].status = "paid"
    /\ bill' = [bill EXCEPT ![b].status = "refunded"]
    /\ UNCHANGED <<now, bought, owed, moneyVars, payments, sub, handler,
                   faults>>

-----------------------------------------------------------------------------
(* The handler.                                                            *)

\* The UPDATE of the wallets row, held by others until they commit.
WalletFree(h) ==
    \A o \in Handlers \ {h} : handler[o].pc \notin {"expiry", "commit"}

\* The journal row of a payment or refund another handler has inserted.
RowFree(h, b, pcs) ==
    \A o \in Handlers \ {h} : ~(handler[o].bill = b /\ handler[o].pc \in pcs)

\* handle() up to the outgoing call, for a callback that passes the gate and
\* names the one user known here (every other is answered 200 at once and
\* changes nothing): the callback says nothing but "look".
Receive(h, c) ==
    /\ handler[h].pc = "idle"
    /\ handler' = [handler EXCEPT ![h].pc = "verify", ![h].callback = c]
    /\ UNCHANGED <<world, owed, moneyVars, payments, sub, faults>>

\* Variant: whatever is no longer creditable counts as refunded.
VerifyLeftovers(h) ==
    LET creditable == {b \in Bills : /\ bill[b].status = "paid"
                                     /\ bill[b].at + Freshness >= now} IN
    /\ handler[h].pc = "verify"
    /\ handler' = [handler EXCEPT
          ![h].pc = "loop", ![h].credit = creditable,
          ![h].refund = Bills \ creditable]
    /\ UNCHANGED <<world, owed, moneyVars, payments, sub, faults>>

\* list_payments and the two selections over its answer.
Verify(h) ==
    /\ handler[h].pc = "verify"
    /\ handler' = [handler EXCEPT
          ![h].pc = "loop",
          ![h].credit = {b \in Bills : /\ bill[b].status = "paid"
                                       /\ bill[b].at + Freshness >= now},
          ![h].refund = {b \in Bills : bill[b].status = "refunded"}]
    /\ UNCHANGED <<world, owed, moneyVars, payments, sub, faults>>

DoneRefund(h, b) ==
    handler' = [handler EXCEPT ![h].pc = "loop", ![h].bill = NoBill,
                               ![h].read = 0, ![h].refund = @ \ {b}]

DonePayment(h, b) ==
    handler' = [handler EXCEPT ![h].pc = "loop", ![h].bill = NoBill,
                               ![h].read = 0, ![h].began = 0,
                               ![h].credit = @ \ {b}]

\* _apply_refunds, one payment: passed over unless it was credited here and
\* not yet reversed; then record_refund up to the balance it reads.  (The
\* reversal row it looks for as well is only ever written with the journal row.)
RefundRead(h, b) ==
    /\ handler[h].pc = "loop"
    /\ b \in handler[h].refund
    /\ \/ /\ ~Posted(GrantKey(b)) \/ Journalled(b, "refund")
          /\ DoneRefund(h, b)
       \/ /\ Posted(GrantKey(b)) /\ ~Journalled(b, "refund")
          /\ RowFree(h, b, {"refund"})
          /\ handler' = [handler EXCEPT ![h].pc = "refund", ![h].bill = b,
                                        ![h].read = balance[User]]
    /\ UNCHANGED <<world, owed, moneyVars, payments, sub, faults>>

\* take = min(amount, balance)
Take(h) ==
    Min({bought[handler[h].bill].credits, handler[h].read})

\* record_refund from the debit to the commit.
RefundWrite(h) ==
    LET b == handler[h].bill IN
    /\ handler[h].pc = "refund"
    /\ \/ Take(h) = 0 /\ UNCHANGED moneyVars
       \/ /\ Take(h) > 0
          /\ WalletFree(h)
          /\ L!Post(Row(RefundKey(b), "debit", Take(h)))
    /\ payments' = payments \cup
          {[bill |-> b, kind |-> "refund", status |-> "refunded"]}
    /\ sub' = IF IsSubscription(b) /\ sub.status /= "none"
                THEN [sub EXCEPT !.status = "expired"] ELSE sub
    /\ DoneRefund(h, b)
    /\ UNCHANGED <<world, owed, faults>>

\* The user spent the credits first: consume raises, the request ends in 500.
RefundRaises(h) ==
    /\ handler[h].pc = "refund"
    /\ WalletFree(h)
    /\ Take(h) > balance[User]
    /\ handler' = [handler EXCEPT ![h] = IdleHandler]
    /\ UNCHANGED <<world, owed, moneyVars, payments, sub, faults>>

\* expires_at of _upsert_subscription, the current one being 0 if it is over.
Extended(h, b) ==
    [status |-> "active",
     expires |-> Max({bill[b].at, handler[h].read}) + bought[b].period]

\* Variant: a payment journalled before extends the access again.
JournalExtendsReplay(h, b) ==
    /\ handler[h].pc = "loop"
    /\ handler[h].refund = {}
    /\ b \in handler[h].credit
    /\ IF Journalled(b, "payment")
         THEN /\ DonePayment(h, b)
              /\ sub' = [status |-> "active", expires |->
                    Max({bill[b].at, sub.expires}) + bought[b].period]
         ELSE /\ handler' = [handler EXCEPT ![h].pc = "grant", ![h].bill = b,
                                            ![h].began = now]
              /\ UNCHANGED sub
    /\ UNCHANGED <<world, owed, moneyVars, payments, faults>>

\* _apply_payment, one payment: the class, the journal row and the product.
\* began is the time of the transaction, taken with its first write.
Journal(h, b) ==
    /\ handler[h].pc = "loop"
    /\ handler[h].refund = {}
    /\ b \in handler[h].credit
    /\ \/ /\ bought[b].type = "other"                         \* skipped
          /\ DonePayment(h, b)
          /\ UNCHANGED payments
       \/ /\ bought[b].type /= "other" /\ Journalled(b, "payment") \* replayed
          /\ DonePayment(h, b)
          /\ UNCHANGED payments
       \/ /\ bought[b].type /= "other" /\ ~Journalled(b, "payment")
          /\ RowFree(h, b, {"grant", "expiry", "commit"})
          /\ IF bought[b].listed
               THEN /\ handler' = [handler EXCEPT ![h].pc = "grant",
                                     ![h].bill = b, ![h].began = now]
                    /\ UNCHANGED payments
               ELSE /\ payments' = payments \cup
                          {[bill |-> b, kind |-> "payment",
                            status |-> "rejected"]}
                    /\ DonePayment(h, b)
    /\ UNCHANGED <<world, owed, moneyVars, sub, faults>>

Credit(h) ==
    LET b == handler[h].bill IN
    /\ L!Post(Row(GrantKey(b), "credit", bought[b].credits))
    /\ payments' = payments \cup
          {[bill |-> b, kind |-> "payment", status |-> "granted"]}
    /\ DonePayment(h, b)

\* Variant: nobody waits for the wallets row.
GrantUnlocked(h) ==
    /\ handler[h].pc = "grant"
    /\ IF IsSubscription(handler[h].bill)
         THEN /\ handler' = [handler EXCEPT ![h].pc = "expiry"]
              /\ UNCHANGED <<moneyVars, payments>>
         ELSE Credit(h)
    /\ UNCHANGED <<world, owed, sub, faults>>

\* wallet.grant: from here to the commit the wallets row is this handler's.
Grant(h) ==
    /\ handler[h].pc = "grant"
    /\ WalletFree(h)
    /\ IF IsSubscription(handler[h].bill)
         THEN /\ handler' = [handler EXCEPT ![h].pc = "expiry"]
              /\ UNCHANGED <<moneyVars, payments>>
         ELSE Credit(h)
    /\ UNCHANGED <<world, owed, sub, faults>>

\* SELECT expires_at ...: now() is when the transaction began.
ReadExpiry(h) ==
    /\ handler[h].pc = "expiry"
    /\ handler' = [handler EXCEPT ![h].pc = "commit",
          ![h].read = IF sub.status = "active" /\ sub.expires > handler[h].began
                        THEN sub.expires ELSE 0]
    /\ UNCHANGED <<world, owed, moneyVars, payments, sub, faults>>

\* Variant: the term is written without the journal row leaving 'received'.
CommitRaw(h) ==
    /\ handler[h].pc = "commit"
    /\ sub' = Extended(h, handler[h].bill)
    /\ payments' = payments \cup
          {[bill |-> handler[h].bill, kind |-> "payment", status |-> "received"]}
    /\ DonePayment(h, handler[h].bill)
    /\ UNCHANGED <<world, owed, moneyVars, faults>>

\* The subscription is written back, and all of the payment is committed.
Commit(h) ==
    /\ handler[h].pc = "commit"
    /\ sub' = Extended(h, handler[h].bill)
    /\ Credit(h)
    /\ UNCHANGED <<world, owed, faults>>

\* 200: the aggregator will not send this callback again.
Answer(h) ==
    /\ handler[h].pc = "loop"
    /\ handler[h].credit \cup handler[h].refund = {}
    /\ owed' = owed \ {handler[h].callback}
    /\ handler' = [handler EXCEPT ![h] = IdleHandler]
    /\ UNCHANGED <<world, moneyVars, payments, sub, faults>>

\* Variant: a failed verification is answered like a successful one.
FailAcknowledged(h) ==
    /\ handler[h].pc /= "idle"
    /\ faults < MaxFaults
    /\ faults' = faults + 1
    /\ owed' = owed \ {handler[h].callback}
    /\ handler' = [handler EXCEPT ![h] = IdleHandler]
    /\ UNCHANGED <<world, moneyVars, payments, sub>>

\* The aggregator's API is down, the database is, or the process dies: the
\* open transaction is rolled back and the callback is not answered 200.
Fail(h) ==
    /\ handler[h].pc /= "idle"
    /\ faults < MaxFaults
    /\ faults' = faults + 1
    /\ handler' = [handler EXCEPT ![h] = IdleHandler]
    /\ UNCHANGED <<world, owed, moneyVars, payments, sub>>

\* A generation of the user is charged (module Answers).
Spend(g) ==
    /\ \A h \in Handlers : handler[h].pc \notin {"expiry", "commit"}
    /\ L!Post(Row(SpendKey(g), "debit", 1))
    /\ UNCHANGED <<world, owed, payments, sub, handler, faults>>

-----------------------------------------------------------------------------

Step(h) ==
    \/ Verify(h)
    \/ \E b \in Bills : RefundRead(h, b) \/ Journal(h, b)
    \/ RefundWrite(h) \/ RefundRaises(h)
    \/ Grant(h) \/ ReadExpiry(h) \/ Commit(h)
    \/ Answer(h)

Next ==
    \/ Tick
    \/ \E b \in Bills : Pay(b) \/ PayBack(b)
    \/ \E g \in Spends : Spend(g)
    \/ \E h \in Handlers :
          \/ \E c \in owed \cup {Unsolicited} : Receive(h, c)
          \/ Step(h)
          \/ Fail(h)

Spec == Init /\ [][Next]_vars

-----------------------------------------------------------------------------

GrantedSubscriptions ==
    {b \in Bills : IsSubscription(b) /\ Posted(GrantKey(b))}

(***************************************************************************)
(* No sliding subscription: however often and from however many requests a *)
(* payment is reported, access never reaches beyond the last payment by    *)
(* more than the periods that were paid for, one per credited payment.     *)
(***************************************************************************)
NoSlidingAccess ==
    sub.status /= "none" =>
        \E last \in GrantedSubscriptions :
            sub.expires <= bill[last].at
                + MapThenSumSet(LAMBDA b : bought[b].period,
                                GrantedSubscriptions)

(***************************************************************************)
(* A renewal paid early is added to the remaining time: the commit that    *)
(* credits a subscription moves a running term by its whole period, though *)
(* the term was read in an earlier statement and other payments of the     *)
(* user are applied at the same time.                                      *)
(***************************************************************************)
PeriodsAddUp ==
    [][\A b \in Bills :
          IsSubscription(b) /\ ~Posted(GrantKey(b)) /\ Posted(GrantKey(b))'
              /\ sub.status = "active" /\ sub.expires > now
          => sub'.expires >= sub.expires + bought[b].period]_vars

(***************************************************************************)
(* Credits are taken back only for a payment that was credited and that    *)
(* the aggregator reports as refunded, and a journalled refund is the only *)
(* way: being old, or missing from an answer, takes nothing.               *)
(***************************************************************************)
RefundsConfirmed ==
    \A b \in Bills : Posted(RefundKey(b)) =>
        /\ bill[b].status = "refunded"
        /\ Posted(GrantKey(b))
        /\ Journalled(b, "refund")

(***************************************************************************)
(* 500 means the payment waits, 200 means it is settled: while a payment   *)
(* of a class we sell is paid, fresh and not in the journal, its callback  *)
(* has not been answered 200, so the aggregator will send it again.        *)
(***************************************************************************)
UnsettledIsOwed ==
    \A b \in Bills :
        /\ bill[b].status = "paid" /\ bill[b].at + Freshness >= now
        /\ bought[b].type /= "other"
        /\ ~Journalled(b, "payment")
        => b \in owed

=============================================================================
