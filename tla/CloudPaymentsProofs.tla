------------------------ MODULE CloudPaymentsProofs -------------------------
(***************************************************************************)
(* Proofs about the CloudPayments webhook (module CloudPayments) for any   *)
(* payments, products, concurrent requests, spends and faults.             *)
(***************************************************************************)
EXTENDS CloudPayments, Sums, TLAPS

-----------------------------------------------------------------------------
(* The inductive invariant, by what it is about.                           *)

HandlerRecords ==
    [pc: {"idle", "verify", "loop", "refund", "grant", "expiry", "commit"},
     callback: Bills \cup {NoBill}, credit: SUBSET Bills, refund: SUBSET Bills,
     bill: Bills \cup {NoBill}, began: Nat, read: Nat]

\* A payment of a class we sell that nobody has journalled and everybody still
\* would.
Unsettled(b) ==
    /\ bill[b].status = "paid" /\ bill[b].at + Freshness >= now
    /\ bought[b].type /= "other"
    /\ ~Journalled(b, "payment")

\* What a request has read of the aggregator and of the journal still allows
\* what it is about to do, and the term it has read is the running one.
HandlerOK(r) ==
    /\ r.began <= now
    /\ \A b \in r.refund : bill[b].status = "refunded"
    /\ r.pc = "refund" => r.bill \in r.refund
    /\ r.pc \in {"grant", "expiry", "commit"} => r.bill \in Bills
    /\ \A b \in Bills : r.bill = b =>
          /\ r.pc = "refund" => Posted(GrantKey(b))
          /\ r.pc \in {"expiry", "commit"} => IsSubscription(b)
    /\ r.pc = "commit" /\ sub.status = "active" /\ sub.expires > r.began =>
          r.read = sub.expires
    /\ \A c \in Bills : r.callback = c =>
          /\ bill[c].status /= "none"
          /\ r.pc \notin {"idle", "verify"} /\ Unsettled(c) => c \in r.credit

\* The wallets row is held by one request.
OneWriter ==
    \A h, o \in Handlers :
        /\ handler[h].pc \in {"expiry", "commit"}
        /\ handler[o].pc \in {"expiry", "commit"}
        => h = o

IInv ==
    /\ TypeOK
    /\ handler \in [Handlers -> HandlerRecords]
    /\ L!OneRowPerKey
    /\ \A b \in owed : bill[b].status /= "none"
    /\ \A h \in Handlers : HandlerOK(handler[h])
    /\ OneWriter
    /\ RefundsConfirmed
    /\ UnsettledIsOwed

-----------------------------------------------------------------------------
(* Money and numbers.                                                      *)

\* The larger of two numbers is one of them and below neither.
LEMMA LargerOfTwo ==
    ASSUME NEW m \in Int, NEW n \in Int
    PROVE  Max({m, n}) \in {m, n} /\ Max({m, n}) >= m /\ Max({m, n}) >= n
<1>1. \E x \in {m, n} : \A y \in {m, n} : x >= y
    <2>1. CASE m >= n
        BY <2>1
    <2>2. CASE n >= m
        BY <2>2
    <2>3. QED
        BY <2>1, <2>2
<1>2. QED
    BY <1>1 DEF Max

\* The smaller of two numbers is one of them.
LEMMA SmallerOfTwo ==
    ASSUME NEW m \in Int, NEW n \in Int
    PROVE  Min({m, n}) \in {m, n}
<1>1. \E x \in {m, n} : \A y \in {m, n} : x <= y
    <2>1. CASE m <= n
        BY <2>1
    <2>2. CASE n <= m
        BY <2>2
    <2>3. QED
        BY <2>1, <2>2
<1>2. QED
    BY <1>1 DEF Min

\* Grants, reversals and spends never share a key.
LEMMA KeysDiffer ==
    \A b, c, g : /\ GrantKey(b) /= RefundKey(c)
                 /\ SpendKey(g) /= RefundKey(c) /\ SpendKey(g) /= GrantKey(b)
                 /\ GrantKey(b) = GrantKey(c) => b = c
                 /\ RefundKey(b) = RefundKey(c) => b = c
    BY DEF GrantKey, RefundKey, SpendKey

\* A posted row is added, keeps the balance a natural number and takes its key.
LEMMA RowPosted ==
    ASSUME IInv, NEW r \in L!Rows, L!Post(r)
    PROVE  /\ ledger' = ledger \cup {r} /\ ledger' \subseteq L!Rows
           /\ balance' \in [{User} -> Nat]
           /\ L!OneRowPerKey'
           /\ \A k : Posted(k)' <=> Posted(k) \/ k = r.key
<1>1. /\ ledger' = ledger \cup {r}
      /\ L!RowsAt(ledger, r.user, r.key) = {}
      /\ r.type = "debit" => balance[r.user] >= r.amount
      /\ balance' = L!BalanceAfter(balance, r)
    BY DEF L!Post
<1>2. /\ ledger \subseteq L!Rows /\ balance \in [{User} -> Nat] /\ L!OneRowPerKey
      /\ r.user = User /\ r.amount \in Nat /\ r.type \in {"credit", "debit"}
    BY DEF IInv, TypeOK, L!Rows, L!Types
<1>3. balance[r.user] + L!Signed(r) \in Nat
    BY <1>1, <1>2 DEF L!Signed
<1>4. balance' \in [{User} -> Nat]
    BY <1>1, <1>2, <1>3 DEF L!BalanceAfter
<1>5. L!OneRowPerKey'
    BY <1>1, <1>2 DEF L!OneRowPerKey, L!RowsAt
<1>6. \A k : Posted(k)' <=> Posted(k) \/ k = r.key
    BY <1>1, <1>2 DEF Posted, L!RowsAt
<1>7. QED
    BY <1>1, <1>2, <1>4, <1>5, <1>6

-----------------------------------------------------------------------------
(* What a step leaves alone.                                               *)

\* The world and the journal move one way: time passes, a payment that was
\* made stays made, a refund refunded, and what is settled settled.
Onward ==
    /\ now' >= now /\ now' \in Nat
    /\ bought' = bought
    /\ \A b \in Bills :
          /\ bill[b].status /= "none" =>
                bill'[b].status /= "none" /\ (Unsettled(b)' => Unsettled(b))
          /\ bill[b].status = "refunded" => bill'[b].status = "refunded"
          /\ Posted(GrantKey(b)) => Posted(GrantKey(b))'

\* A request that does not move keeps what the invariant says of it, unless the
\* term it has read is written by another one.
LEMMA HandlerKept ==
    ASSUME TypeOK, NEW r \in HandlerRecords, HandlerOK(r), Onward,
           sub' = sub \/ sub'.status /= "active" \/ r.pc /= "commit"
    PROVE  HandlerOK(r)'
<1>1. r.began <= now' /\ \A b \in r.refund : bill'[b].status = "refunded"
    BY DEF TypeOK, HandlerOK, HandlerRecords, Onward
<1>2. \A b \in Bills : r.bill = b =>
          /\ r.pc = "refund" => Posted(GrantKey(b))'
          /\ r.pc \in {"expiry", "commit"} => IsSubscription(b)'
    BY DEF HandlerOK, Onward, IsSubscription
<1>3. r.pc = "commit" /\ sub'.status = "active" /\ sub'.expires > r.began =>
          r.read = sub'.expires
    BY DEF HandlerOK
<1>4. \A c \in Bills : r.callback = c =>
          /\ bill'[c].status /= "none"
          /\ r.pc \notin {"idle", "verify"} /\ Unsettled(c)' => c \in r.credit
    BY DEF HandlerOK, Onward
<1>5. QED
    BY <1>1, <1>2, <1>3, <1>4 DEF HandlerOK

\* One request moves.
LEMMA OneMoves ==
    ASSUME IInv, NEW h \in Handlers, NEW rec \in HandlerRecords,
           handler' = [handler EXCEPT ![h] = rec], Onward, HandlerOK(rec)',
           \/ sub' = sub \/ sub'.status /= "active"
           \/ \A o \in Handlers \ {h} : handler[o].pc /= "commit",
           rec.pc \in {"expiry", "commit"} =>
               \A o \in Handlers \ {h} : handler[o].pc \notin {"expiry", "commit"}
    PROVE  /\ handler' \in [Handlers -> HandlerRecords]
           /\ \A o \in Handlers : HandlerOK(handler[o])'
           /\ OneWriter'
<1>1. /\ handler' \in [Handlers -> HandlerRecords]
      /\ handler'[h] = rec
      /\ \A o \in Handlers \ {h} : handler'[o] = handler[o]
    BY DEF IInv
<1>2. ASSUME NEW o \in Handlers PROVE HandlerOK(handler[o])'
  <2>1. PICK r \in HandlerRecords : r = handler'[o]
      BY <1>1
  <2>2. HandlerOK(r)'
    <3>1. CASE o = h
        BY <1>1, <2>1, <3>1
    <3>2. CASE o /= h
      <4>1. HandlerOK(handler[o]) /\ r = handler[o] /\ TypeOK
          BY <1>1, <2>1, <3>2 DEF IInv
      <4>2. HandlerOK(r)
          BY <4>1
      <4>3. sub' = sub \/ sub'.status /= "active" \/ r.pc /= "commit"
          BY <3>2, <4>1
      <4>4. QED
          BY <4>1, <4>2, <4>3, HandlerKept
    <3>3. QED
        BY <3>1, <3>2
  <2>3. QED
      BY <2>1, <2>2 DEF HandlerOK
<1>3. OneWriter'
    BY <1>1 DEF IInv, OneWriter
<1>4. QED
    BY <1>1, <1>2, <1>3

\* No request moves.
LEMMA NoneMoves ==
    ASSUME IInv, UNCHANGED <<sub, handler>>, Onward
    PROVE  /\ handler' \in [Handlers -> HandlerRecords]
           /\ \A o \in Handlers : HandlerOK(handler[o])'
           /\ OneWriter'
<1>1. ASSUME NEW o \in Handlers PROVE HandlerOK(handler[o])'
  <2>1. PICK r \in HandlerRecords : r = handler[o]
      BY DEF IInv
  <2>2. TypeOK /\ HandlerOK(r)
      BY <2>1 DEF IInv
  <2>3. HandlerOK(r)'
      BY <2>2, HandlerKept
  <2>4. handler'[o] = r
      BY <2>1
  <2>5. QED
      BY <2>3, <2>4 DEF HandlerOK
<1>2. QED
    BY <1>1 DEF IInv, OneWriter

\* The types of everything but the requests.
TablesOK ==
    /\ now \in 0..MaxNow
    /\ bought \in [Bills -> Products]
    /\ bill \in [Bills -> [status: {"none", "paid", "refunded"}, at: 0..MaxNow]]
    /\ owed \subseteq Bills
    /\ ledger \subseteq L!Rows
    /\ balance \in [{User} -> Nat]
    /\ payments \subseteq [bill: Bills, kind: {"payment", "refund"},
                           status: {"granted", "rejected", "refunded"}]
    /\ sub \in [status: {"none", "active", "expired"}, expires: Nat]
    /\ faults \in 0..MaxFaults

\* With well-typed requests, the type invariant is that of the tables.
LEMMA TypeSplit == handler \in [Handlers -> HandlerRecords] => (TypeOK <=> TablesOK)
    BY DEF TypeOK, TablesOK, HandlerRecords

\* Within the transaction of a payment the aggregator and the clock do not move.
LEMMA Within ==
    ASSUME IInv, UNCHANGED <<now, bought, bill, owed>>, payments \subseteq payments',
           \A k : Posted(k) => Posted(k)'
    PROVE  Onward /\ UnsettledIsOwed' /\ (\A b \in owed : bill[b].status /= "none")'
<1>1. ASSUME NEW b \in Bills, Unsettled(b)' PROVE Unsettled(b)
    BY <1>1 DEF Unsettled, Journalled
<1>2. UnsettledIsOwed'
    BY <1>1 DEF IInv, UnsettledIsOwed, Unsettled
<1>3. QED
    BY <1>1, <1>2 DEF IInv, TypeOK, Onward

\* No reversal is posted: those there are stay confirmed.
LEMMA ConfirmedKept ==
    ASSUME IInv, Onward, payments \subseteq payments',
           \A b \in Bills : Posted(RefundKey(b))' => Posted(RefundKey(b))
    PROVE  RefundsConfirmed'
<1>1. ASSUME NEW b \in Bills, Posted(RefundKey(b))'
      PROVE  /\ bill'[b].status = "refunded" /\ Posted(GrantKey(b))'
             /\ Journalled(b, "refund")'
  <2>1. /\ bill[b].status = "refunded" /\ Posted(GrantKey(b))
        /\ Journalled(b, "refund")
      BY <1>1 DEF IInv, RefundsConfirmed
  <2>2. QED
      BY <2>1 DEF Onward, Journalled
<1>2. QED
    BY <1>1 DEF RefundsConfirmed

-----------------------------------------------------------------------------
(* The steps.  Each one keeps the invariant, is a step of the ledger, and  *)
(* adds the period it credits to the running term.                         *)

PeriodStep ==
    \A b \in Bills :
        IsSubscription(b) /\ ~Posted(GrantKey(b)) /\ Posted(GrantKey(b))'
            /\ sub.status = "active" /\ sub.expires > now
        => sub'.expires >= sub.expires + bought[b].period

StepOK == IInv' /\ [L!LedgerNext]_(L!ledgerVars) /\ PeriodStep

\* A request that goes back to its list.
LoopRecord(r, callback, credit, refund) ==
    /\ r.pc = "loop" /\ r.bill = NoBill /\ r.callback = callback
    /\ r.credit = credit /\ r.refund = refund

\* A request that is done with a refund goes on with those that are left ...
LEMMA RefundDone ==
    ASSUME IInv, NEW h \in Handlers, NEW b, DoneRefund(h, b)
    PROVE  \E rec \in HandlerRecords :
               /\ handler' = [handler EXCEPT ![h] = rec]
               /\ LoopRecord(rec, handler[h].callback, handler[h].credit,
                             handler[h].refund \ {b})
               /\ rec.began = handler[h].began
<1> DEFINE rec == [handler[h] EXCEPT !.pc = "loop", !.bill = NoBill, !.read = 0,
                                     !.refund = @ \ {b}]
<1>1. handler[h] \in HandlerRecords /\ handler \in [Handlers -> HandlerRecords]
    BY DEF IInv
<1>2. /\ rec \in HandlerRecords /\ rec.began = handler[h].began
      /\ LoopRecord(rec, handler[h].callback, handler[h].credit,
                    handler[h].refund \ {b})
    BY <1>1 DEF HandlerRecords, LoopRecord
<1>3. handler' = [handler EXCEPT ![h] = rec]
    BY <1>1 DEF DoneRefund, HandlerRecords
<1> HIDE DEF rec
<1>4. QED
    BY <1>2, <1>3

\* ... and one that is done with a payment with the payments left.
LEMMA PaymentDone ==
    ASSUME IInv, NEW h \in Handlers, NEW b, DonePayment(h, b)
    PROVE  \E rec \in HandlerRecords :
               /\ handler' = [handler EXCEPT ![h] = rec]
               /\ LoopRecord(rec, handler[h].callback, handler[h].credit \ {b},
                             handler[h].refund)
               /\ rec.began = 0
<1> DEFINE rec == [handler[h] EXCEPT !.pc = "loop", !.bill = NoBill, !.read = 0,
                                     !.began = 0, !.credit = @ \ {b}]
<1>1. handler[h] \in HandlerRecords /\ handler \in [Handlers -> HandlerRecords]
    BY DEF IInv
<1>2. /\ rec \in HandlerRecords /\ rec.began = 0
      /\ LoopRecord(rec, handler[h].callback, handler[h].credit \ {b},
                    handler[h].refund)
    BY <1>1 DEF HandlerRecords, LoopRecord
<1>3. handler' = [handler EXCEPT ![h] = rec]
    BY <1>1 DEF DonePayment, HandlerRecords
<1> HIDE DEF rec
<1>4. QED
    BY <1>2, <1>3

\* Its list is shorter by what it has settled.
LEMMA LoopOK ==
    ASSUME IInv, NEW h \in Handlers, NEW rec \in HandlerRecords, Onward,
           handler[h].pc \notin {"idle", "verify"},
           NEW S, NEW T, LoopRecord(rec, handler[h].callback, S, T),
           rec.began \in {0, handler[h].began}, T \subseteq handler[h].refund,
           \A b \in handler[h].credit \ S : b \in Bills => ~Unsettled(b)'
    PROVE  HandlerOK(rec)'
<1>1. PICK r \in HandlerRecords : r = handler[h]
    BY DEF IInv
<1>2. HandlerOK(r) /\ TypeOK /\ r.pc \notin {"idle", "verify"}
    BY <1>1 DEF IInv
<1>3. /\ rec.pc = "loop" /\ rec.bill = NoBill /\ rec.callback = r.callback
      /\ rec.refund \subseteq r.refund /\ rec.began \in {0, r.began}
      /\ \A b \in r.credit \ rec.credit : b \in Bills => ~Unsettled(b)'
    BY <1>1 DEF LoopRecord
<1>4. rec.began <= now' /\ \A b \in rec.refund : bill'[b].status = "refunded"
    BY <1>2, <1>3 DEF HandlerOK, HandlerRecords, Onward, TypeOK
<1>5. \A c \in Bills : rec.callback = c =>
          bill'[c].status /= "none" /\ (Unsettled(c)' => c \in rec.credit)
    BY <1>2, <1>3 DEF HandlerOK, Onward
<1>6. QED
    BY <1>3, <1>4, <1>5, BillsAssumption DEF HandlerOK

\* A request reads, and writes nothing.
LEMMA ReadStep ==
    ASSUME IInv, NEW h \in Handlers, NEW rec \in HandlerRecords,
           handler' = [handler EXCEPT ![h] = rec],
           UNCHANGED <<world, owed, moneyVars, payments, sub>>,
           faults' \in 0..MaxFaults, HandlerOK(rec),
           rec.pc \in {"expiry", "commit"} =>
               \A o \in Handlers \ {h} : handler[o].pc \notin {"expiry", "commit"}
    PROVE  StepOK
<1>1. UNCHANGED <<now, bought, bill, owed, ledger, balance, payments, sub>>
    BY DEF world, moneyVars
<1>2. \A k : Posted(k)' <=> Posted(k)
    BY <1>1 DEF Posted, L!RowsAt
<1>3. Onward /\ UnsettledIsOwed' /\ (\A b \in owed : bill[b].status /= "none")'
    BY <1>1, <1>2, Within
<1>4. RefundsConfirmed'
    BY <1>1, <1>2, <1>3, ConfirmedKept
<1>5. HandlerOK(rec)'
    BY <1>1, <1>3, HandlerKept DEF IInv
<1>6. /\ handler' \in [Handlers -> HandlerRecords]
      /\ \A o \in Handlers : HandlerOK(handler[o])'
      /\ OneWriter'
    BY <1>1, <1>3, <1>5, OneMoves
<1>7. TypeOK'
  <2>1. TablesOK'
      BY <1>1, TypeSplit DEF IInv, TablesOK
  <2>2. QED
      BY <1>6, <2>1, TypeSplit DEF TypeOK, TablesOK, HandlerRecords
<1>8. L!OneRowPerKey'
    BY <1>1 DEF IInv, L!OneRowPerKey
<1>9. [L!LedgerNext]_(L!ledgerVars) /\ PeriodStep
  <2>1. PeriodStep
      BY <1>2 DEF PeriodStep
  <2>2. QED
      BY <1>1, <2>1 DEF L!ledgerVars
<1>10. QED
    BY <1>3, <1>4, <1>6, <1>7, <1>8, <1>9 DEF IInv, StepOK

\* An idle request is well typed and has read nothing.
LEMMA IdleOK == TypeOK => IdleHandler \in HandlerRecords /\ HandlerOK(IdleHandler)
<1>1. IdleHandler \in HandlerRecords
    BY DEF IdleHandler, HandlerRecords, Unsolicited
<1>2. TypeOK => HandlerOK(IdleHandler)
    BY BillsAssumption, BoundsAssumption DEF TypeOK, IdleHandler, HandlerOK, Unsolicited
<1>3. QED
    BY <1>1, <1>2

\* handle(): a callback is taken up, one still owed an answer or any other.
LEMMA ReceiveStep ==
    ASSUME IInv, NEW h \in Handlers, NEW c \in owed \cup {Unsolicited}, Receive(h, c)
    PROVE  StepOK
<1> DEFINE rec == [handler[h] EXCEPT !.pc = "verify", !.callback = c]
<1>1. PICK r \in HandlerRecords : r = handler[h]
    BY DEF IInv
<1>2. /\ HandlerOK(r) /\ TypeOK /\ r.pc = "idle"
      /\ c \in Bills \cup {NoBill} /\ (c \in Bills => bill[c].status /= "none")
    BY <1>1, BillsAssumption DEF IInv, Receive, TypeOK, Unsolicited
<1>3. /\ rec \in HandlerRecords /\ rec.pc = "verify" /\ rec.callback = c
      /\ rec.began = r.began /\ rec.refund = r.refund
    BY <1>1, <1>2 DEF HandlerRecords
<1>4. handler' = [handler EXCEPT ![h] = rec]
    BY <1>1 DEF Receive, IInv, HandlerRecords
<1>5. UNCHANGED <<world, owed, moneyVars, payments, sub, faults>>
    BY DEF Receive
<1> HIDE DEF rec
<1>6. HandlerOK(rec)
    BY <1>2, <1>3 DEF HandlerOK
<1>7. QED
    BY <1>2, <1>3, <1>4, <1>5, <1>6, ReadStep DEF TypeOK

\* The aggregator is asked, and what it says is sorted into two lists.
LEMMA VerifyStep == ASSUME IInv, NEW h \in Handlers, Verify(h) PROVE StepOK
<1> DEFINE rec == [handler[h] EXCEPT
          !.pc = "loop",
          !.credit = {b \in Bills : /\ bill[b].status = "paid"
                                    /\ bill[b].at + Freshness >= now},
          !.refund = {b \in Bills : bill[b].status = "refunded"}]
<1>1. PICK r \in HandlerRecords : r = handler[h]
    BY DEF IInv
<1>2. HandlerOK(r) /\ TypeOK
    BY <1>1 DEF IInv
<1>3. /\ rec \in HandlerRecords /\ rec.pc = "loop"
      /\ rec.callback = r.callback /\ rec.began = r.began
      /\ rec.credit = {b \in Bills : /\ bill[b].status = "paid"
                                     /\ bill[b].at + Freshness >= now}
      /\ rec.refund = {b \in Bills : bill[b].status = "refunded"}
    BY <1>1 DEF HandlerRecords
<1>4. handler' = [handler EXCEPT ![h] = rec]
    BY <1>1 DEF Verify, IInv, HandlerRecords
<1>5. UNCHANGED <<world, owed, moneyVars, payments, sub, faults>>
    BY DEF Verify
<1> HIDE DEF rec
<1>6. HandlerOK(rec)
    BY <1>2, <1>3 DEF HandlerOK, Unsettled
<1>7. QED
    BY <1>2, <1>3, <1>4, <1>5, <1>6, ReadStep DEF TypeOK

\* record_refund() up to the balance it reads; a refund with nothing to take
\* back is done at once.
LEMMA RefundReadStep ==
    ASSUME IInv, NEW h \in Handlers, NEW b \in Bills, RefundRead(h, b) PROVE StepOK
<1>1. PICK r \in HandlerRecords : r = handler[h]
    BY DEF IInv
<1>2. /\ HandlerOK(r) /\ TypeOK /\ r.pc = "loop" /\ b \in r.refund
      /\ UNCHANGED <<world, owed, moneyVars, payments, sub, faults>>
    BY <1>1 DEF IInv, RefundRead
<1>3. CASE DoneRefund(h, b)
  <2>1. PICK rec \in HandlerRecords :
               /\ handler' = [handler EXCEPT ![h] = rec]
               /\ LoopRecord(rec, r.callback, r.credit, r.refund \ {b})
               /\ rec.began = r.began
      BY <1>1, <1>3, RefundDone
  <2>2. HandlerOK(rec)
      BY <1>2, <2>1, BillsAssumption DEF HandlerOK, LoopRecord
  <2>3. QED
      BY <1>2, <2>1, <2>2, ReadStep DEF TypeOK, LoopRecord
<1>4. CASE /\ Posted(GrantKey(b))
           /\ handler' = [handler EXCEPT ![h].pc = "refund", ![h].bill = b,
                                         ![h].read = balance[User]]
  <2> DEFINE rec == [handler[h] EXCEPT !.pc = "refund", !.bill = b,
                                       !.read = balance[User]]
  <2>1. balance[User] \in Nat
      BY <1>2 DEF TypeOK
  <2>2. /\ rec \in HandlerRecords /\ rec.pc = "refund" /\ rec.bill = b
        /\ rec.callback = r.callback /\ rec.began = r.began
        /\ rec.credit = r.credit /\ rec.refund = r.refund
      BY <1>1, <2>1 DEF HandlerRecords
  <2>3. handler' = [handler EXCEPT ![h] = rec]
      BY <1>1, <1>4 DEF IInv, HandlerRecords
  <2> HIDE DEF rec
  <2>4. HandlerOK(rec)
      BY <1>2, <1>4, <2>2 DEF HandlerOK
  <2>5. QED
      BY <1>2, <2>2, <2>3, <2>4, ReadStep DEF TypeOK
<1>5. QED
    BY <1>3, <1>4 DEF RefundRead

\* A request that ends leaves nothing behind.
LEMMA BackToIdle ==
    ASSUME IInv, NEW h \in Handlers, handler' = [handler EXCEPT ![h] = IdleHandler],
           UNCHANGED <<world, owed, moneyVars, payments, sub>>,
           faults' \in 0..MaxFaults
    PROVE  StepOK
<1>1. /\ IdleHandler \in HandlerRecords /\ HandlerOK(IdleHandler)
      /\ IdleHandler.pc = "idle"
    BY IdleOK DEF IInv, IdleHandler
<1>2. QED
    BY <1>1, ReadStep

\* _upsert_subscription(): the running term is read under the wallet's lock.
LEMMA ReadExpiryStep == ASSUME IInv, NEW h \in Handlers, ReadExpiry(h) PROVE StepOK
<1>1. PICK r \in HandlerRecords : r = handler[h]
    BY DEF IInv
<1>2. PICK n \in Nat : n = IF sub.status = "active" /\ sub.expires > r.began
                             THEN sub.expires ELSE 0
    BY DEF IInv, TypeOK
<1> DEFINE rec == [handler[h] EXCEPT !.pc = "commit", !.read = n]
<1>3. /\ HandlerOK(r) /\ TypeOK /\ r.pc = "expiry"
      /\ UNCHANGED <<world, owed, moneyVars, payments, sub, faults>>
    BY <1>1 DEF IInv, ReadExpiry
<1>4. /\ rec \in HandlerRecords /\ rec.pc = "commit" /\ rec.read = n
      /\ rec.bill = r.bill /\ rec.callback = r.callback /\ rec.began = r.began
      /\ rec.credit = r.credit /\ rec.refund = r.refund
    BY <1>1 DEF HandlerRecords
<1>5. handler' = [handler EXCEPT ![h] = rec]
    BY <1>1, <1>2 DEF ReadExpiry, IInv, HandlerRecords
<1> HIDE DEF rec
<1>6. HandlerOK(rec)
    BY <1>2, <1>3, <1>4 DEF HandlerOK
<1>7. \A o \in Handlers \ {h} : handler[o].pc \notin {"expiry", "commit"}
    BY <1>1, <1>3 DEF IInv, OneWriter
<1>8. QED
    BY <1>3, <1>4, <1>5, <1>6, <1>7, ReadStep DEF TypeOK

\* A reversal is of a payment that was credited and is refunded.
LEMMA RefundWriteStep == ASSUME IInv, NEW h \in Handlers, RefundWrite(h) PROVE StepOK
<1>1. PICK r \in HandlerRecords : r = handler[h]
    BY DEF IInv
<1>2. HandlerOK(r) /\ TypeOK /\ r.pc = "refund" /\ handler[h].pc = "refund"
    BY <1>1 DEF IInv, RefundWrite
<1>3. PICK b \in Bills : /\ b = handler[h].bill /\ b \in r.refund
                         /\ Posted(GrantKey(b)) /\ bill[b].status = "refunded"
    BY <1>1, <1>2 DEF HandlerOK, HandlerRecords
<1>4. /\ UNCHANGED <<now, bought, bill, owed, faults>> /\ DoneRefund(h, b)
      /\ payments' = payments \cup
            {[bill |-> b, kind |-> "refund", status |-> "refunded"]}
      /\ sub' = IF IsSubscription(b) /\ sub.status /= "none"
                  THEN [sub EXCEPT !.status = "expired"] ELSE sub
    BY <1>3 DEF RefundWrite, world
<1>5. /\ ledger' \subseteq L!Rows /\ balance' \in [{User} -> Nat]
      /\ L!OneRowPerKey' /\ [L!LedgerNext]_(L!ledgerVars)
      /\ \A k : Posted(k) => Posted(k)'
      /\ \A k : Posted(k)' => Posted(k) \/ k = RefundKey(b)
  <2>1. CASE UNCHANGED <<ledger, balance>>
    <3>1. \A k : Posted(k)' <=> Posted(k)
        BY <2>1 DEF Posted, L!RowsAt
    <3>2. L!OneRowPerKey'
        BY <2>1 DEF IInv, L!OneRowPerKey
    <3>3. QED
        BY <1>2, <2>1, <3>1, <3>2 DEF TypeOK, L!ledgerVars
  <2>2. CASE Take(h) > 0 /\ L!Post(Row(RefundKey(b), "debit", Take(h)))
    <3>1. bought[b].credits \in Nat /\ r.read \in Nat
        BY <1>2, ProductsAssumption DEF TypeOK, HandlerRecords
    <3>2. Take(h) \in Nat
        BY <1>1, <1>3, <3>1, SmallerOfTwo DEF Take
    <3>3. PICK row : row = Row(RefundKey(b), "debit", Take(h))
        OBVIOUS
    <3>4. row \in L!Rows /\ row.key = RefundKey(b) /\ L!Post(row)
        BY <2>2, <3>2, <3>3 DEF Row, L!Rows, L!Types
    <3>5. QED
        BY <3>4, RowPosted DEF L!LedgerNext
  <2>3. QED
      BY <1>3, <2>1, <2>2 DEF RefundWrite, moneyVars
<1>6. /\ Onward /\ UnsettledIsOwed'
      /\ (\A c \in owed : bill[c].status /= "none")'
    BY <1>4, <1>5, Within
<1>7. RefundsConfirmed'
  <2>1. ASSUME NEW c \in Bills, Posted(RefundKey(c))'
        PROVE  /\ bill'[c].status = "refunded" /\ Posted(GrantKey(c))'
               /\ Journalled(c, "refund")'
    <3>1. CASE c = b
      <4>1. Journalled(b, "refund")'
        <5>1. PICK row : row = [bill |-> b, kind |-> "refund", status |-> "refunded"]
            OBVIOUS
        <5>2. row \in payments' /\ row.bill = b /\ row.kind = "refund"
            BY <1>4, <5>1
        <5>3. QED
            BY <5>2 DEF Journalled
      <4>2. bill'[b].status = "refunded" /\ Posted(GrantKey(b))'
          BY <1>3, <1>4, <1>5
      <4>3. QED
          BY <3>1, <4>1, <4>2
    <3>2. CASE c /= b
      <4>1. Posted(RefundKey(c))
          BY <1>5, <2>1, <3>2, KeysDiffer
      <4>2. QED
          BY <1>4, <1>5, <4>1 DEF IInv, RefundsConfirmed, Journalled
    <3>3. QED
        BY <3>1, <3>2
  <2>2. QED
      BY <2>1 DEF RefundsConfirmed
<1>8. PICK rec \in HandlerRecords :
          /\ handler' = [handler EXCEPT ![h] = rec]
          /\ LoopRecord(rec, r.callback, r.credit, r.refund \ {b})
          /\ rec.began = r.began
    BY <1>1, <1>4, RefundDone
<1>9. HandlerOK(rec)'
    BY <1>1, <1>2, <1>6, <1>8, LoopOK
<1>10. /\ handler' \in [Handlers -> HandlerRecords]
       /\ \A o \in Handlers : HandlerOK(handler[o])'
       /\ OneWriter'
  <2>1. sub' = sub \/ sub'.status /= "active"
      BY <1>2, <1>4 DEF TypeOK
  <2>2. QED
      BY <1>6, <1>8, <1>9, <2>1, OneMoves DEF LoopRecord
<1>11. TypeOK'
  <2>1. TablesOK'
      BY <1>2, <1>4, <1>5 DEF TypeOK, TablesOK
  <2>2. QED
      BY <1>10, <2>1 DEF TypeOK, TablesOK, HandlerRecords
<1>12. PeriodStep
    BY <1>5, KeysDiffer DEF PeriodStep
<1>13. QED
    BY <1>5, <1>6, <1>7, <1>10, <1>11, <1>12 DEF IInv, StepOK

\* A payment is credited, journalled and committed.
LEMMA CreditStep ==
    ASSUME IInv, NEW h \in Handlers, NEW b \in Bills, b = handler[h].bill,
           handler[h].pc \in {"grant", "commit"}, Credit(h),
           UNCHANGED <<world, owed, faults>>,
           sub' \in [status: {"none", "active", "expired"}, expires: Nat],
           \/ sub' = sub
           \/ \A o \in Handlers \ {h} : handler[o].pc /= "commit",
           IsSubscription(b) /\ sub.status = "active" /\ sub.expires > now =>
               sub'.expires >= sub.expires + bought[b].period
    PROVE  StepOK
<1>1. PICK r \in HandlerRecords : r = handler[h]
    BY DEF IInv
<1>2. /\ TypeOK /\ UNCHANGED <<now, bought, bill, owed, faults>>
      /\ DonePayment(h, b)
      /\ payments' = payments \cup
            {[bill |-> b, kind |-> "payment", status |-> "granted"]}
    BY DEF IInv, Credit, world
<1>3. PICK row : row = Row(GrantKey(b), "credit", bought[b].credits)
    OBVIOUS
<1>4. row \in L!Rows /\ row.key = GrantKey(b) /\ L!Post(row)
    BY <1>2, <1>3, ProductsAssumption DEF Credit, TypeOK, Row, L!Rows, L!Types
<1>5. /\ ledger' \subseteq L!Rows /\ balance' \in [{User} -> Nat]
      /\ L!OneRowPerKey' /\ [L!LedgerNext]_(L!ledgerVars)
      /\ \A k : Posted(k)' <=> Posted(k) \/ k = GrantKey(b)
    BY <1>4, RowPosted DEF L!LedgerNext
<1>6. /\ Onward /\ UnsettledIsOwed'
      /\ (\A c \in owed : bill[c].status /= "none")'
    BY <1>2, <1>5, Within
<1>7. RefundsConfirmed'
    BY <1>2, <1>5, <1>6, KeysDiffer, ConfirmedKept
<1>8. PICK rec \in HandlerRecords :
          /\ handler' = [handler EXCEPT ![h] = rec]
          /\ LoopRecord(rec, handler[h].callback, handler[h].credit \ {b},
                        handler[h].refund)
          /\ rec.began = 0
    BY <1>2, PaymentDone
<1>9. HandlerOK(rec)'
  <2>1. Journalled(b, "payment")'
    <3>1. PICK new : new = [bill |-> b, kind |-> "payment", status |-> "granted"]
        OBVIOUS
    <3>2. new \in payments' /\ new.bill = b /\ new.kind = "payment"
        BY <1>2, <3>1
    <3>3. QED
        BY <3>2 DEF Journalled
  <2>2. ~Unsettled(b)'
      BY <2>1 DEF Unsettled
  <2>3. \A c \in handler[h].credit \ (handler[h].credit \ {b}) : ~Unsettled(c)'
      BY <2>2
  <2>4. handler[h].pc \notin {"idle", "verify"} /\ rec.began \in {0, handler[h].began}
      BY <1>8
  <2>5. QED
      BY <1>6, <1>8, <2>3, <2>4, LoopOK
<1>10. /\ handler' \in [Handlers -> HandlerRecords]
       /\ \A o \in Handlers : HandlerOK(handler[o])'
       /\ OneWriter'
    BY <1>6, <1>8, <1>9, OneMoves DEF LoopRecord
<1>11. TypeOK'
  <2>1. TablesOK'
      BY <1>2, <1>5 DEF TypeOK, TablesOK
  <2>2. QED
      BY <1>10, <2>1 DEF TypeOK, TablesOK, HandlerRecords
<1>12. PeriodStep
    BY <1>5, KeysDiffer DEF PeriodStep
<1>13. QED
    BY <1>5, <1>6, <1>7, <1>10, <1>11, <1>12 DEF IInv, StepOK

\* What the credit of a subscription writes rests on the term read under the
\* wallets row.
LEMMA CommitStep == ASSUME IInv, NEW h \in Handlers, Commit(h) PROVE StepOK
<1>1. PICK r \in HandlerRecords : r = handler[h]
    BY DEF IInv
<1>2. HandlerOK(r) /\ TypeOK /\ r.pc = "commit" /\ handler[h].pc = "commit"
    BY <1>1 DEF IInv, Commit
<1>3. PICK b \in Bills : b = r.bill /\ b = handler[h].bill
    BY <1>1, <1>2 DEF HandlerOK
<1>4. /\ bill[b].at \in Nat /\ r.read \in Nat /\ bought[b].period \in Nat
      /\ now \in Nat /\ r.began \in Nat /\ r.began <= now
    BY <1>2, ProductsAssumption, BoundsAssumption DEF TypeOK, HandlerRecords, HandlerOK
<1>5. PICK m \in Nat : m = Max({bill[b].at, r.read}) /\ m >= r.read
  <2>1. PICK x \in Nat, y \in Nat : x = bill[b].at /\ y = r.read
      BY <1>4
  <2>2. x \in Int /\ y \in Int
      OBVIOUS
  <2>3. Max({x, y}) \in {x, y} /\ Max({x, y}) >= y
      BY <2>2, LargerOfTwo
  <2>4. QED
      BY <2>1, <2>3
<1>6. sub' = [status |-> "active", expires |-> m + bought[b].period]
    BY <1>1, <1>3, <1>5 DEF Commit, Extended
<1>7. \A o \in Handlers \ {h} : handler[o].pc /= "commit"
    BY <1>2 DEF IInv, OneWriter
<1>8. sub.status = "active" /\ sub.expires > now =>
          sub'.expires >= sub.expires + bought[b].period
  <2>1. sub.expires \in Nat
      BY <1>2 DEF TypeOK
  <2>2. sub.status = "active" /\ sub.expires > now => r.read = sub.expires
      BY <1>2, <1>4, <2>1 DEF HandlerOK
  <2>3. sub'.expires = m + bought[b].period
      BY <1>6
  <2>4. QED
      BY <1>4, <1>5, <2>1, <2>2, <2>3
<1>9. sub' \in [status: {"none", "active", "expired"}, expires: Nat]
    BY <1>4, <1>5, <1>6
<1>10. Credit(h) /\ UNCHANGED <<world, owed, faults>>
    BY DEF Commit
<1>11. QED
    BY <1>2, <1>3, <1>7, <1>8, <1>9, <1>10, CreditStep

\* A payment is passed over only if it is settled, or is none of ours.
LEMMA JournalStep ==
    ASSUME IInv, NEW h \in Handlers, NEW b \in Bills, Journal(h, b) PROVE StepOK
<1>1. PICK r \in HandlerRecords : r = handler[h]
    BY DEF IInv
<1>2. /\ HandlerOK(r) /\ TypeOK /\ r.pc = "loop" /\ handler[h].pc = "loop"
      /\ UNCHANGED <<world, owed, moneyVars, sub, faults>>
    BY <1>1 DEF IInv, Journal
<1>3. CASE /\ DonePayment(h, b) /\ UNCHANGED payments
           /\ bought[b].type = "other" \/ Journalled(b, "payment")
  <2>1. PICK rec \in HandlerRecords :
               /\ handler' = [handler EXCEPT ![h] = rec]
               /\ LoopRecord(rec, r.callback, r.credit \ {b}, r.refund)
               /\ rec.began = 0
      BY <1>1, <1>3, PaymentDone
  <2>2. HandlerOK(rec)
      BY <1>2, <1>3, <2>1, BillsAssumption, BoundsAssumption
         DEF HandlerOK, LoopRecord, Unsettled, TypeOK
  <2>3. QED
      BY <1>2, <1>3, <2>1, <2>2, ReadStep DEF TypeOK, LoopRecord
<1>4. CASE /\ handler' = [handler EXCEPT ![h].pc = "grant", ![h].bill = b,
                                         ![h].began = now]
           /\ UNCHANGED payments
  <2> DEFINE rec == [handler[h] EXCEPT !.pc = "grant", !.bill = b, !.began = now]
  <2>1. now \in Nat
      BY <1>2, BoundsAssumption DEF TypeOK
  <2>2. /\ rec \in HandlerRecords /\ rec.pc = "grant" /\ rec.bill = b
        /\ rec.callback = r.callback /\ rec.began = now
        /\ rec.credit = r.credit /\ rec.refund = r.refund
      BY <1>1, <2>1 DEF HandlerRecords
  <2>3. handler' = [handler EXCEPT ![h] = rec]
      BY <1>1, <1>4 DEF IInv, HandlerRecords
  <2> HIDE DEF rec
  <2>4. HandlerOK(rec)
      BY <1>2, <2>1, <2>2 DEF HandlerOK
  <2>5. QED
      BY <1>2, <1>4, <2>2, <2>3, <2>4, ReadStep DEF TypeOK
<1>5. CASE /\ DonePayment(h, b)
           /\ payments' = payments \cup
                  {[bill |-> b, kind |-> "payment", status |-> "rejected"]}
  <2>1. UNCHANGED <<now, bought, bill, owed, ledger, balance, sub, faults>>
      BY <1>2 DEF world, moneyVars
  <2>2. \A k : Posted(k)' <=> Posted(k)
      BY <2>1 DEF Posted, L!RowsAt
  <2>3. /\ Onward /\ UnsettledIsOwed'
        /\ (\A c \in owed : bill[c].status /= "none")'
      BY <1>5, <2>1, <2>2, Within
  <2>4. RefundsConfirmed'
      BY <1>5, <2>2, <2>3, ConfirmedKept
  <2>5. PICK rec \in HandlerRecords :
            /\ handler' = [handler EXCEPT ![h] = rec]
            /\ LoopRecord(rec, handler[h].callback, handler[h].credit \ {b},
                          handler[h].refund)
            /\ rec.began = 0
      BY <1>5, PaymentDone
  <2>6. ~Unsettled(b)'
    <3>1. PICK new : new = [bill |-> b, kind |-> "payment", status |-> "rejected"]
        OBVIOUS
    <3>2. new \in payments' /\ new.bill = b /\ new.kind = "payment"
        BY <1>5, <3>1
    <3>3. QED
        BY <3>2 DEF Journalled, Unsettled
  <2>7. \A c \in handler[h].credit \ (handler[h].credit \ {b}) : ~Unsettled(c)'
      BY <2>6
  <2>8. HandlerOK(rec)'
      BY <1>2, <2>3, <2>5, <2>7, LoopOK
  <2>9. /\ handler' \in [Handlers -> HandlerRecords]
        /\ \A o \in Handlers : HandlerOK(handler[o])'
        /\ OneWriter'
      BY <2>1, <2>3, <2>5, <2>8, OneMoves DEF LoopRecord
  <2>10. TypeOK'
    <3>1. TablesOK'
        BY <1>2, <1>5, <2>1 DEF TypeOK, TablesOK
    <3>2. QED
        BY <2>9, <3>1 DEF TypeOK, TablesOK, HandlerRecords
  <2>11. L!OneRowPerKey'
      BY <2>1 DEF IInv, L!OneRowPerKey
  <2>12. PeriodStep
      BY <2>2 DEF PeriodStep
  <2>13. QED
      BY <2>1, <2>3, <2>4, <2>9, <2>10, <2>11, <2>12 DEF IInv, StepOK, L!ledgerVars
<1>6. QED
    BY <1>3, <1>4, <1>5 DEF Journal

\* The wallets row is taken, or the payment of no subscription credited.
LEMMA GrantStep == ASSUME IInv, NEW h \in Handlers, Grant(h) PROVE StepOK
<1>1. PICK r \in HandlerRecords : r = handler[h]
    BY DEF IInv
<1>2. /\ HandlerOK(r) /\ TypeOK /\ r.pc = "grant" /\ handler[h].pc = "grant"
      /\ UNCHANGED <<world, owed, sub, faults>>
    BY <1>1 DEF IInv, Grant
<1>3. PICK b \in Bills : b = r.bill /\ b = handler[h].bill
    BY <1>1, <1>2 DEF HandlerOK
<1>4. CASE IsSubscription(b)
  <2> DEFINE rec == [handler[h] EXCEPT !.pc = "expiry"]
  <2>1. /\ rec \in HandlerRecords /\ rec.pc = "expiry" /\ rec.bill = b
        /\ rec.callback = r.callback /\ rec.began = r.began
        /\ rec.credit = r.credit /\ rec.refund = r.refund
      BY <1>1, <1>3 DEF HandlerRecords
  <2>2. handler' = [handler EXCEPT ![h] = rec] /\ UNCHANGED <<moneyVars, payments>>
      BY <1>1, <1>3, <1>4 DEF Grant, IInv, HandlerRecords
  <2> HIDE DEF rec
  <2>3. HandlerOK(rec)
      BY <1>2, <1>4, <2>1 DEF HandlerOK
  <2>4. \A o \in Handlers \ {h} : handler[o].pc \notin {"expiry", "commit"}
      BY DEF Grant, WalletFree
  <2>5. QED
      BY <1>2, <2>1, <2>2, <2>3, <2>4, ReadStep DEF TypeOK
<1>5. CASE ~IsSubscription(b)
  <2>1. Credit(h)
      BY <1>3, <1>5 DEF Grant
  <2>2. QED
      BY <1>2, <1>3, <1>5, <2>1, CreditStep DEF TypeOK
<1>6. QED
    BY <1>4, <1>5

\* A callback is acknowledged once its payment is settled.
LEMMA AnswerStep == ASSUME IInv, NEW h \in Handlers, Answer(h) PROVE StepOK
<1>1. PICK r \in HandlerRecords : r = handler[h]
    BY DEF IInv
<1>2. /\ HandlerOK(r) /\ TypeOK /\ r.pc = "loop" /\ r.credit = {}
      /\ owed' = owed \ {r.callback}
      /\ handler' = [handler EXCEPT ![h] = IdleHandler]
      /\ UNCHANGED <<now, bought, bill, ledger, balance, payments, sub, faults>>
    BY <1>1 DEF IInv, Answer, world, moneyVars
<1>3. \A k : Posted(k)' <=> Posted(k)
    BY <1>2 DEF Posted, L!RowsAt
<1>4. \A b \in Bills : Unsettled(b)' <=> Unsettled(b)
    BY <1>2 DEF Unsettled, Journalled
<1>5. Onward
    BY <1>2, <1>3, <1>4, BoundsAssumption DEF Onward, TypeOK
<1>6. UnsettledIsOwed'
  <2>1. \A b \in Bills : Unsettled(b) => b \in owed /\ r.callback /= b
      BY <1>2 DEF IInv, UnsettledIsOwed, Unsettled, HandlerOK
  <2>2. QED
      BY <1>2, <1>4, <2>1 DEF UnsettledIsOwed, Unsettled
<1>7. RefundsConfirmed' /\ (\A b \in owed : bill[b].status /= "none")'
    BY <1>2, <1>3, <1>5, ConfirmedKept DEF IInv
<1>8. /\ IdleHandler \in HandlerRecords /\ HandlerOK(IdleHandler)
      /\ IdleHandler.pc = "idle"
    BY <1>2, IdleOK DEF IdleHandler
<1>9. HandlerOK(IdleHandler)'
    BY <1>2, <1>5, <1>8, HandlerKept
<1>10. /\ handler' \in [Handlers -> HandlerRecords]
       /\ \A o \in Handlers : HandlerOK(handler[o])'
       /\ OneWriter'
    BY <1>2, <1>5, <1>8, <1>9, OneMoves
<1>11. TypeOK'
  <2>1. TablesOK'
      BY <1>2 DEF TypeOK, TablesOK
  <2>2. QED
      BY <1>10, <2>1 DEF TypeOK, TablesOK, HandlerRecords
<1>12. L!OneRowPerKey' /\ PeriodStep
    BY <1>2, <1>3 DEF IInv, L!OneRowPerKey, PeriodStep
<1>13. QED
    BY <1>2, <1>6, <1>7, <1>10, <1>11, <1>12 DEF IInv, StepOK, L!ledgerVars

\* A debit of a generation is a row of its own.
LEMMA SpendStep == ASSUME IInv, NEW g \in Spends, Spend(g) PROVE StepOK
<1>1. TypeOK /\ UNCHANGED <<now, bought, bill, owed, payments, sub, handler, faults>>
    BY DEF IInv, Spend, world
<1>2. PICK row : row = Row(SpendKey(g), "debit", 1)
    OBVIOUS
<1>3. row \in L!Rows /\ row.key = SpendKey(g) /\ L!Post(row)
    BY <1>2 DEF Spend, Row, L!Rows, L!Types
<1>4. /\ ledger' \subseteq L!Rows /\ balance' \in [{User} -> Nat]
      /\ L!OneRowPerKey' /\ [L!LedgerNext]_(L!ledgerVars)
      /\ \A k : Posted(k)' <=> Posted(k) \/ k = SpendKey(g)
    BY <1>3, RowPosted DEF L!LedgerNext
<1>5. /\ Onward /\ UnsettledIsOwed'
      /\ (\A c \in owed : bill[c].status /= "none")'
    BY <1>1, <1>4, Within
<1>6. RefundsConfirmed'
    BY <1>1, <1>4, <1>5, KeysDiffer, ConfirmedKept
<1>7. /\ handler' \in [Handlers -> HandlerRecords]
      /\ \A o \in Handlers : HandlerOK(handler[o])'
      /\ OneWriter'
    BY <1>1, <1>5, NoneMoves
<1>8. TypeOK'
  <2>1. TablesOK'
      BY <1>1, <1>4 DEF TypeOK, TablesOK
  <2>2. QED
      BY <1>7, <2>1 DEF TypeOK, TablesOK, HandlerRecords
<1>9. PeriodStep
    BY <1>4, KeysDiffer DEF PeriodStep
<1>10. QED
    BY <1>4, <1>5, <1>6, <1>7, <1>8, <1>9 DEF IInv, StepOK

\* The aggregator and the clock.
LEMMA WorldStep ==
    ASSUME IInv, UNCHANGED <<bought, ledger, balance, payments, sub, handler, faults>>,
           Onward, now' \in 0..MaxNow,
           bill' \in [Bills -> [status: {"none", "paid", "refunded"}, at: 0..MaxNow]],
           owed \subseteq owed', owed' \subseteq Bills,
           \A b \in owed' : bill'[b].status /= "none",
           \A b \in Bills \ owed' : bill[b].status = "none" => bill'[b] = bill[b]
    PROVE  StepOK
<1>1. \A k : Posted(k)' <=> Posted(k)
    BY DEF Posted, L!RowsAt
<1>2. RefundsConfirmed'
    BY <1>1, ConfirmedKept
<1>3. UnsettledIsOwed'
  <2>1. ASSUME NEW b \in Bills, Unsettled(b)' PROVE b \in owed'
    <3>1. CASE bill[b].status /= "none"
        BY <2>1, <3>1 DEF IInv, UnsettledIsOwed, Unsettled, Onward
    <3>2. CASE bill[b].status = "none"
        BY <2>1, <3>2 DEF Unsettled
    <3>3. QED
        BY <3>1, <3>2
  <2>2. QED
      BY <2>1 DEF UnsettledIsOwed, Unsettled
<1>4. /\ handler' \in [Handlers -> HandlerRecords]
      /\ \A o \in Handlers : HandlerOK(handler[o])'
      /\ OneWriter'
    BY NoneMoves
<1>5. TypeOK'
  <2>1. TablesOK'
      BY DEF IInv, TypeOK, TablesOK
  <2>2. QED
      BY <1>4, <2>1 DEF TypeOK, TablesOK, HandlerRecords
<1>6. L!OneRowPerKey' /\ PeriodStep
    BY <1>1 DEF IInv, L!OneRowPerKey, PeriodStep
<1>7. QED
    BY <1>2, <1>3, <1>4, <1>5, <1>6 DEF IInv, StepOK, L!ledgerVars

\* Time passes: terms end and payments grow stale, nothing becomes owed.
LEMMA TickStep == ASSUME IInv, Tick PROVE StepOK
<1>1. /\ now' = now + 1 /\ now < MaxNow /\ TypeOK
      /\ UNCHANGED <<bought, bill, owed, ledger, balance, payments, sub, handler, faults>>
    BY DEF IInv, Tick, moneyVars
<1>2. now' \in 0..MaxNow /\ now' >= now /\ now' \in Nat
    BY <1>1, BoundsAssumption DEF TypeOK
<1>3. \A k : Posted(k)' <=> Posted(k)
    BY <1>1 DEF Posted, L!RowsAt
<1>4. \A b \in Bills : Unsettled(b)' => Unsettled(b)
  <2>1. ASSUME NEW b \in Bills PROVE bill[b].at \in Nat
      BY <1>1, BoundsAssumption DEF TypeOK
  <2>2. QED
      BY <1>1, <2>1, BoundsAssumption DEF TypeOK, Unsettled, Journalled
<1>5. Onward
    BY <1>1, <1>2, <1>3, <1>4 DEF Onward
<1>6. QED
    BY <1>1, <1>2, <1>5, WorldStep DEF IInv, TypeOK

\* A payment at the aggregator is owed its answer; its refund there changes
\* nothing of ours.
LEMMA PayStep == ASSUME IInv, NEW b \in Bills, Pay(b) \/ PayBack(b) PROVE StepOK
<1>1. /\ TypeOK /\ UNCHANGED <<now, bought, ledger, balance, payments, sub, handler, faults>>
    BY DEF IInv, Pay, PayBack, moneyVars
<1>2. \A k : Posted(k)' <=> Posted(k)
    BY <1>1 DEF Posted, L!RowsAt
<1>3. PICK s \in {"paid", "refunded"}, at \in 0..MaxNow :
          /\ bill' = [bill EXCEPT ![b] = [status |-> s, at |-> at]]
          /\ \/ bill[b].status = "none" /\ owed' = owed \cup {b}
             \/ bill[b].status = "paid" /\ s = "refunded" /\ owed' = owed
  <2>1. CASE Pay(b)
    <3>1. /\ bill' = [bill EXCEPT ![b] = [status |-> "paid", at |-> now]]
          /\ bill[b].status = "none" /\ owed' = owed \cup {b} /\ now \in 0..MaxNow
        BY <1>1, <2>1 DEF Pay, TypeOK
    <3>2. QED
        BY <3>1
  <2>2. CASE PayBack(b)
    <3>1. PICK old : old = bill[b]
        OBVIOUS
    <3>2. /\ old \in [status: {"none", "paid", "refunded"}, at: 0..MaxNow]
          /\ old.status = "paid" /\ owed' = owed
          /\ bill' = [bill EXCEPT ![b] = [old EXCEPT !.status = "refunded"]]
        BY <1>1, <2>2, <3>1 DEF PayBack, TypeOK
    <3>3. /\ [old EXCEPT !.status = "refunded"] = [status |-> "refunded", at |-> old.at]
          /\ old.at \in 0..MaxNow
        BY <3>2
    <3>4. QED
        BY <3>1, <3>2, <3>3
  <2>3. QED
      BY <2>1, <2>2
<1>4. /\ bill'[b].status = s
      /\ \A c \in Bills \ {b} : bill'[c] = bill[c]
      /\ bill' \in [Bills -> [status: {"none", "paid", "refunded"}, at: 0..MaxNow]]
    BY <1>1, <1>3 DEF TypeOK
<1>5. \A c \in Bills : bill[c].status /= "none" /\ Unsettled(c)' => Unsettled(c)
    BY <1>1, <1>3, <1>4 DEF Unsettled, Journalled
<1>6. Onward
    BY <1>1, <1>2, <1>3, <1>4, <1>5, BoundsAssumption DEF Onward, TypeOK
<1>7. /\ owed \subseteq owed' /\ owed' \subseteq Bills
      /\ \A c \in owed' : bill'[c].status /= "none"
      /\ \A c \in Bills \ owed' : bill[c].status = "none" => bill'[c] = bill[c]
    BY <1>1, <1>3, <1>4 DEF IInv, TypeOK
<1>8. QED
    BY <1>1, <1>4, <1>6, <1>7, WorldStep DEF TypeOK

-----------------------------------------------------------------------------
(* The invariant, and what follows from it.                                *)

\* The initial state satisfies the inductive invariant and is one of the ledger.
LEMMA InitIInv == Init => IInv /\ L!LedgerInit
<1> SUFFICES ASSUME Init PROVE IInv
    BY DEF Init
<1>1. /\ now = 0 /\ ledger = {} /\ payments = {} /\ owed = {}
      /\ handler = [h \in Handlers |-> IdleHandler]
    BY DEF Init, L!LedgerInit
<1>2. TablesOK
    BY <1>1, BoundsAssumption DEF Init, L!LedgerInit, TablesOK
<1>3. IdleHandler \in HandlerRecords /\ IdleHandler.pc = "idle"
    BY DEF IdleHandler, HandlerRecords, Unsolicited
<1>4. handler \in [Handlers -> HandlerRecords] /\ TypeOK
    BY <1>1, <1>2, <1>3, TypeSplit
<1>5. HandlerOK(IdleHandler)
    BY <1>4, IdleOK
<1>6. (\A h \in Handlers : HandlerOK(handler[h])) /\ OneWriter
    BY <1>1, <1>3, <1>5 DEF OneWriter
<1>7. L!OneRowPerKey /\ RefundsConfirmed
    BY <1>1 DEF L!OneRowPerKey, RefundsConfirmed, Posted, L!RowsAt
<1>8. UnsettledIsOwed
    BY DEF Init, UnsettledIsOwed
<1>9. QED
    BY <1>1, <1>4, <1>6, <1>7, <1>8 DEF IInv

\* Every step preserves it, is a step of the ledger or none, and adds the
\* period it credits.
LEMMA NextStep == IInv /\ [Next]_vars => StepOK
<1> SUFFICES ASSUME IInv, [Next]_vars PROVE StepOK
    OBVIOUS
<1>1. CASE UNCHANGED vars
  <2>1. /\ UNCHANGED <<now, bought, bill, owed, ledger, balance, payments, sub,
                       handler, faults>>
        /\ TypeOK
      BY <1>1 DEF vars, world, moneyVars, IInv
  <2>2. \A k : Posted(k)' <=> Posted(k)
      BY <2>1 DEF Posted, L!RowsAt
  <2>3. Onward
      BY <2>1, <2>2, Within
  <2>4. QED
      BY <2>1, <2>3, WorldStep DEF IInv, TypeOK
<1>2. CASE Tick
    BY <1>2, TickStep
<1>3. ASSUME NEW b \in Bills, Pay(b) \/ PayBack(b) PROVE StepOK
    BY <1>3, PayStep
<1>4. ASSUME NEW g \in Spends, Spend(g) PROVE StepOK
    BY <1>4, SpendStep
<1>5. ASSUME NEW h \in Handlers, NEW c \in owed \cup {Unsolicited}, Receive(h, c)
      PROVE  StepOK
    BY <1>5, ReceiveStep
<1>6. ASSUME NEW h \in Handlers, Step(h) PROVE StepOK
  <2>1. CASE RefundRaises(h)
      BY <2>1, BackToIdle DEF RefundRaises, IInv, TypeOK
  <2>2. QED
      BY <1>6, <2>1, VerifyStep, RefundReadStep, JournalStep, RefundWriteStep,
         GrantStep, ReadExpiryStep, CommitStep, AnswerStep DEF Step
<1>7. ASSUME NEW h \in Handlers, Fail(h) PROVE StepOK
  <2>1. faults' \in 0..MaxFaults
      BY <1>7, BoundsAssumption DEF Fail, IInv, TypeOK
  <2>2. QED
      BY <1>7, <2>1, BackToIdle DEF Fail
<1>8. QED
    BY <1>1, <1>2, <1>3, <1>4, <1>5, <1>6, <1>7 DEF Next

\* Every reachable state satisfies the inductive invariant.
LEMMA Invariance == Spec => []IInv
<1>1. IInv /\ [Next]_vars => IInv'
    BY NextStep DEF StepOK
<1>2. QED
    BY <1>1, InitIInv, PTL DEF Spec

\* Every row and every request is well formed.
THEOREM CloudTypeCorrect == Spec => []TypeOK
<1>1. IInv => TypeOK
    BY DEF IInv
<1>2. QED
    BY <1>1, Invariance, PTL

\* However requests overlap, fail and read an aggregator that moves on, credits
\* are taken back only for a payment that was credited and is refunded.
THEOREM RefundsConfirmedHolds == Spec => []RefundsConfirmed
<1>1. IInv => RefundsConfirmed
    BY DEF IInv
<1>2. QED
    BY <1>1, Invariance, PTL

\* No callback is answered 200 while its payment is paid, fresh and unsettled.
THEOREM UnsettledIsOwedHolds == Spec => []UnsettledIsOwed
<1>1. IInv => UnsettledIsOwed
    BY DEF IInv
<1>2. QED
    BY <1>1, Invariance, PTL

\* The credit of a subscription moves a running term by its whole period: the
\* wallets row is held from before the term is read until it is written back.
THEOREM PeriodsAddUpHolds == Spec => PeriodsAddUp
<1>1. IInv /\ [Next]_vars => PeriodStep
    BY NextStep DEF StepOK
<1>2. QED
    BY <1>1, Invariance, PTL DEF Spec, PeriodsAddUp, PeriodStep

\* The channel moves money through the ledger only, one row per step.
THEOREM CloudUsesLedger == Spec => L!LedgerSpec
<1>1. IInv /\ [Next]_vars => [L!LedgerNext]_(L!ledgerVars)
    BY NextStep DEF StepOK
<1>2. QED
    BY <1>1, InitIInv, Invariance, PTL DEF Spec, L!LedgerSpec

-----------------------------------------------------------------------------
(* How far access reaches.  The term is bounded by what was credited, and  *)
(* so is the term a request has read and is about to extend: a refund may  *)
(* end the subscription in between, so what was read has a bound of its    *)
(* own.                                                                    *)

Periods == [b \in Bills |-> bought[b].period]

Reached(t) ==
    \E last \in GrantedSubscriptions :
        t <= bill[last].at + SumOf(Periods, GrantedSubscriptions)

\* A request is about to credit what was paid for, and extends a bounded term.
SlideOK(r) ==
    /\ \A b \in r.credit : bill[b].status /= "none"
    /\ r.pc \in {"grant", "expiry", "commit"} =>
          r.bill \in Bills /\ bill[r.bill].status /= "none"
    /\ r.pc = "commit" => r.read = 0 \/ Reached(r.read)

SlideInv ==
    /\ IsFiniteSet(GrantedSubscriptions)
    /\ \A b \in GrantedSubscriptions : bill[b].status /= "none"
    /\ \A h \in Handlers : SlideOK(handler[h])
    /\ sub.status /= "none" => Reached(sub.expires)

\* A payment that was made keeps the time it was made at.
PaidForGood ==
    \A b \in Bills : bill[b].status /= "none" =>
        bill'[b].status /= "none" /\ bill'[b].at = bill[b].at

\* The periods that were paid for, as a sum of numbers.
LEMMA SumOfPeriods ==
    ASSUME NEW G \in SUBSET Bills, IsFiniteSet(G)
    PROVE  MapThenSumSet(LAMBDA b : bought[b].period, G) = SumOf(Periods, G)
<1> DEFINE Recurs(g) == g = [s \in SUBSET G |->
                IF s = {} THEN 0 ELSE bought[Some(s)].period + g[s \ {Some(s)}]]
<1>1. MapThenSumSet(LAMBDA b : bought[b].period, G) = (CHOOSE g : Recurs(g))[G]
    BY DEF MapThenSumSet, MapThenFoldSet, Some
<1>2. \A s \in SUBSET G : s /= {} => bought[Some(s)].period = Periods[Some(s)]
    BY SomeIsIn DEF Periods
<1>3. \A g : Recurs(g) <=> Adds(g, Periods, G)
    BY <1>2 DEF Adds
<1>4. PICK f : Adds(f, Periods, G)
    BY SumExists
<1>5. Recurs(CHOOSE g : Recurs(g))
  <2> HIDE DEF Recurs
  <2>1. Recurs(f)
      BY <1>3, <1>4
  <2>2. QED
      BY <2>1, Zenon
<1> HIDE DEF Recurs
<1>6. PICK g : g = (CHOOSE f1 : Recurs(f1))
    OBVIOUS
<1>7. Adds(g, Periods, G)
    BY <1>3, <1>5, <1>6
<1>8. QED
    BY <1>1, <1>6, <1>7, SumIsUnique

\* As long as nothing is credited to a subscription, what was bounded stays so.
LEMMA ReachKept ==
    ASSUME SlideInv, bought' = bought, PaidForGood,
           GrantedSubscriptions' = GrantedSubscriptions,
           NEW t, Reached(t)
    PROVE  Reached(t)'
<1>1. PICK last \in GrantedSubscriptions :
          t <= bill[last].at + SumOf(Periods, GrantedSubscriptions)
    BY DEF Reached
<1>2. Periods' = Periods
    BY DEF Periods
<1>3. bill'[last].at = bill[last].at
    BY DEF SlideInv, PaidForGood, GrantedSubscriptions
<1>4. PICK n : n = SumOf(Periods, GrantedSubscriptions)
    OBVIOUS
<1>5. SumOf(Periods, GrantedSubscriptions)' = n
    BY <1>2, <1>4
<1>6. last \in GrantedSubscriptions' /\ t <= bill'[last].at + n
    BY <1>1, <1>3, <1>4
<1>7. QED
    BY <1>5, <1>6 DEF Reached

\* Nothing is credited to a subscription, and no term is extended.
LEMMA SlideRests ==
    ASSUME IInv, SlideInv, bought' = bought, PaidForGood,
           GrantedSubscriptions' = GrantedSubscriptions,
           sub'.status /= "none" =>
               sub.status /= "none" /\ sub'.expires = sub.expires,
           \A h \in Handlers :
               \E r \in HandlerRecords : handler'[h] = r /\ SlideOK(r)
    PROVE  SlideInv'
<1>1. ASSUME NEW h \in Handlers PROVE SlideOK(handler[h])'
  <2>1. PICK r \in HandlerRecords : handler'[h] = r /\ SlideOK(r)
      OBVIOUS
  <2>2. \A b \in r.credit : bill'[b].status /= "none"
      BY <2>1 DEF SlideOK, PaidForGood, HandlerRecords
  <2>3. r.pc \in {"grant", "expiry", "commit"} =>
            r.bill \in Bills /\ bill'[r.bill].status /= "none"
      BY <2>1 DEF SlideOK, PaidForGood
  <2>4. r.pc = "commit" => r.read = 0 \/ Reached(r.read)'
    <3>1. CASE r.pc = "commit" /\ Reached(r.read)
      <4>1. PICK t : t = r.read
          OBVIOUS
      <4>2. Reached(t)
          BY <3>1, <4>1
      <4>3. Reached(t)'
          BY <4>2, ReachKept
      <4>4. QED
          BY <4>1, <4>3
    <3>2. QED
        BY <2>1, <3>1 DEF SlideOK
  <2>5. SlideOK(r)'
      BY <2>2, <2>3, <2>4 DEF SlideOK
  <2>6. QED
      BY <2>1, <2>5 DEF SlideOK
<1>2. sub'.status /= "none" => Reached(sub.expires)'
  <2>1. PICK t : t = sub.expires
      OBVIOUS
  <2>2. sub'.status /= "none" => Reached(t) /\ sub'.expires = t
      BY <2>1 DEF SlideInv
  <2>3. sub'.status /= "none" => Reached(t)'
      BY <2>2, ReachKept
  <2>4. QED
      BY <2>2, <2>3 DEF Reached
<1>3. \A b \in GrantedSubscriptions' : bill'[b].status /= "none"
    BY DEF SlideInv, PaidForGood, GrantedSubscriptions
<1>4. QED
    BY <1>1, <1>2, <1>3 DEF SlideInv

\* One request moves, the others keep what they have read.
LEMMA OneSlides ==
    ASSUME IInv, SlideInv, NEW h \in Handlers, NEW rec \in HandlerRecords,
           handler' = [handler EXCEPT ![h] = rec], SlideOK(rec)
    PROVE  \A o \in Handlers :
               \E r \in HandlerRecords : handler'[o] = r /\ SlideOK(r)
<1>1. handler \in [Handlers -> HandlerRecords]
    BY DEF IInv
<1>2. ASSUME NEW o \in Handlers
      PROVE  \E r \in HandlerRecords : handler'[o] = r /\ SlideOK(r)
  <2>1. CASE o = h
      BY <1>1, <2>1
  <2>2. CASE o /= h
    <3>1. PICK r \in HandlerRecords : r = handler[o]
        BY <1>1
    <3>2. handler'[o] = r /\ SlideOK(r)
        BY <1>1, <2>2, <3>1 DEF SlideInv
    <3>3. QED
        BY <3>2
  <2>3. QED
      BY <2>1, <2>2
<1>3. QED
    BY <1>2

\* Rows that are no credits of subscriptions leave the credited ones alone.
LEMMA NothingGranted ==
    ASSUME bought' = bought,
           \A b \in Bills : IsSubscription(b) =>
               (Posted(GrantKey(b))' <=> Posted(GrantKey(b)))
    PROVE  GrantedSubscriptions' = GrantedSubscriptions
    BY DEF GrantedSubscriptions, IsSubscription

\* A request reads.
LEMMA SlideReads ==
    ASSUME IInv, SlideInv, NEW h \in Handlers, NEW rec \in HandlerRecords,
           handler' = [handler EXCEPT ![h] = rec], SlideOK(rec),
           UNCHANGED <<world, ledger, sub>>
    PROVE  SlideInv'
<1>1. UNCHANGED <<bought, bill>>
    BY DEF world
<1>2. \A k : Posted(k)' <=> Posted(k)
    BY DEF Posted, L!RowsAt
<1>3. GrantedSubscriptions' = GrantedSubscriptions
    BY <1>1, <1>2, NothingGranted
<1>4. PaidForGood
    BY <1>1 DEF PaidForGood
<1>5. \A o \in Handlers : \E r \in HandlerRecords : handler'[o] = r /\ SlideOK(r)
    BY OneSlides
<1>6. QED
    BY <1>1, <1>3, <1>4, <1>5, SlideRests

\* A payment is credited that was not before: its period is what it adds.
LEMMA PeriodAdded ==
    ASSUME IInv, SlideInv, NEW b \in Bills, ~Posted(GrantKey(b)), IsSubscription(b),
           NEW t \in Nat, t = 0 \/ Reached(t), bill[b].status /= "none",
           UNCHANGED <<bought, bill>>,
           GrantedSubscriptions' = GrantedSubscriptions \cup {b}
    PROVE  Reached(Max({bill[b].at, t}) + bought[b].period)'
<1>1. PICK G, p : G = GrantedSubscriptions /\ p = Periods
    OBVIOUS
<1>2. IsFiniteSet(G) /\ G \subseteq Bills /\ b \notin G /\ Periods' = p
    BY <1>1 DEF SlideInv, GrantedSubscriptions, Periods
<1>3. \A c \in Bills : p[c] \in Nat /\ p[c] = bought[c].period /\ bill[c].at \in Nat
    BY <1>1, ProductsAssumption, BoundsAssumption DEF Periods, IInv, TypeOK
<1>4. SumOf(p, G) \in Nat
    BY <1>2, <1>3, SumNat
<1>5. SumOf(p, G \cup {b}) = SumOf(p, G) + p[b]
  <2>1. (\A c \in G : p[c] \in Int) /\ p[b] \in Int
      BY <1>2, <1>3
  <2>2. QED
      BY <1>2, <2>1, SumAdd
<1>6. PICK m : m = Max({bill[b].at, t}) + bought[b].period
    OBVIOUS
<1>7. \E last \in G \cup {b} : m <= bill[last].at + SumOf(p, G \cup {b})
  <2>1. PICK at \in Nat, n \in Nat, d \in Nat :
            at = bill[b].at /\ n = SumOf(p, G) /\ d = bought[b].period
      BY <1>3, <1>4
  <2>2. Max({at, t}) \in {at, t}
    <3>1. at \in Int /\ t \in Int
        OBVIOUS
    <3>2. QED
        BY <3>1, LargerOfTwo
  <2>3. CASE m = at + d \/ t = 0
    <3>1. m <= at + (n + d)
        BY <1>6, <2>1, <2>2, <2>3
    <3>2. QED
        BY <1>3, <1>5, <2>1, <3>1
  <2>4. CASE m = t + d /\ Reached(t)
    <3>1. PICK last \in G : t <= bill[last].at + n
        BY <1>1, <2>1, <2>4 DEF Reached
    <3>2. m <= bill[last].at + (n + d)
        BY <1>2, <1>3, <2>1, <2>4, <3>1
    <3>3. QED
        BY <1>3, <1>5, <2>1, <3>2
  <2>5. QED
      BY <1>6, <2>1, <2>2, <2>3, <2>4
<1>8. PICK s : s = SumOf(p, G \cup {b})
    OBVIOUS
<1>9. SumOf(Periods, GrantedSubscriptions)' = s
    BY <1>1, <1>2, <1>8
<1>10. \E last \in GrantedSubscriptions' : m <= bill'[last].at + s
    BY <1>1, <1>7, <1>8
<1>11. Reached(m)'
    BY <1>9, <1>10 DEF Reached
<1>12. Max({bill[b].at, t})' = Max({bill[b].at, t}) /\ bought' = bought
    OBVIOUS
<1>13. QED
    BY <1>6, <1>11, <1>12 DEF Reached

\* The commit extends what was read by one period.
LEMMA CommitSlides ==
    ASSUME IInv, SlideInv, NEW h \in Handlers, Commit(h) PROVE SlideInv'
<1>1. PICK r \in HandlerRecords : r = handler[h]
    BY DEF IInv
<1>2. /\ HandlerOK(r) /\ SlideOK(r) /\ TypeOK /\ r.pc = "commit"
      /\ UNCHANGED <<bought, bill>>
    BY <1>1 DEF IInv, SlideInv, Commit, world
<1>3. PICK b \in Bills : b = r.bill /\ b = handler[h].bill
    BY <1>1, <1>2 DEF HandlerOK
<1>4. /\ IsSubscription(b) /\ bill[b].status /= "none"
      /\ r.read \in Nat /\ (r.read = 0 \/ Reached(r.read))
    BY <1>2, <1>3 DEF HandlerOK, SlideOK, HandlerRecords
<1>5. PICK row : row = Row(GrantKey(b), "credit", bought[b].credits)
    OBVIOUS
<1>6. row \in L!Rows /\ row.key = GrantKey(b) /\ row.user = User /\ L!Post(row)
  <2>1. Credit(h)
      BY DEF Commit
  <2>2. QED
      BY <1>2, <1>3, <1>5, <2>1, ProductsAssumption
         DEF Credit, TypeOK, Row, L!Rows, L!Types
<1>7. ~Posted(GrantKey(b)) /\ \A k : Posted(k)' <=> Posted(k) \/ k = GrantKey(b)
  <2>1. L!RowsAt(ledger, User, GrantKey(b)) = {}
      BY <1>6 DEF L!Post
  <2>2. QED
      BY <1>6, <2>1, RowPosted DEF Posted
<1>8. GrantedSubscriptions' = GrantedSubscriptions \cup {b}
    BY <1>2, <1>4, <1>7, KeysDiffer DEF GrantedSubscriptions, IsSubscription
<1>9. /\ IsFiniteSet(GrantedSubscriptions')
      /\ \A c \in GrantedSubscriptions' : bill'[c].status /= "none"
  <2>1. IsFiniteSet(GrantedSubscriptions \cup {b})
      BY FS_AddElement DEF SlideInv
  <2>2. QED
      BY <1>2, <1>4, <1>8, <2>1 DEF SlideInv
<1>10. sub'.status /= "none" => Reached(sub.expires)'
  <2>1. PICK t \in Nat : t = r.read
      BY <1>4
  <2>2. Reached(Max({bill[b].at, t}) + bought[b].period)'
      BY <1>2, <1>4, <1>7, <1>8, <2>1, PeriodAdded
  <2>3. sub' = [status |-> "active",
                expires |-> Max({bill[b].at, t}) + bought[b].period]
      BY <1>1, <1>3, <2>1 DEF Commit, Extended
  <2>4. PICK m : m = Max({bill[b].at, t}) + bought[b].period
      OBVIOUS
  <2>5. sub'.expires = m /\ Reached(m)'
      BY <1>2, <2>2, <2>3, <2>4 DEF Reached
  <2>6. QED
      BY <2>5 DEF Reached
<1>11. PICK rec \in HandlerRecords :
           /\ handler' = [handler EXCEPT ![h] = rec]
           /\ LoopRecord(rec, handler[h].callback, handler[h].credit \ {b},
                         handler[h].refund)
           /\ rec.began = 0
    BY <1>3, PaymentDone DEF Commit, Credit
<1>12. ASSUME NEW o \in Handlers PROVE SlideOK(handler[o])'
  <2>1. handler \in [Handlers -> HandlerRecords]
      BY DEF IInv
  <2>2. PICK q \in HandlerRecords :
            q = handler'[o] /\ SlideOK(q) /\ q.pc /= "commit"
    <3>1. CASE o = h
      <4>1. handler'[o] = rec /\ rec.pc = "loop" /\ rec.credit \subseteq r.credit
          BY <1>1, <1>11, <2>1, <3>1 DEF LoopRecord
      <4>2. SlideOK(rec)
          BY <1>2, <4>1 DEF SlideOK
      <4>3. QED
          BY <4>1, <4>2
    <3>2. CASE o /= h
      <4>1. handler'[o] = handler[o] /\ handler[o] \in HandlerRecords
          BY <1>11, <2>1, <3>2
      <4>2. SlideOK(handler[o]) /\ handler[o].pc /= "commit"
          BY <1>1, <1>2, <3>2 DEF IInv, OneWriter, SlideInv
      <4>3. QED
          BY <4>1, <4>2
    <3>3. QED
        BY <3>1, <3>2
  <2>3. SlideOK(q)'
      BY <1>2, <2>2 DEF SlideOK
  <2>4. QED
      BY <2>2, <2>3 DEF SlideOK
<1>13. QED
    BY <1>9, <1>10, <1>12 DEF SlideInv

\* Every other step credits no subscription, extends no term, and reads nothing
\* but what is paid for and how far the term goes.
LEMMA OthersSlide ==
    ASSUME IInv, SlideInv, NEW h \in Handlers,
           \/ Verify(h) \/ RefundRaises(h) \/ ReadExpiry(h) \/ Answer(h) \/ Fail(h)
           \/ \E c \in owed \cup {Unsolicited} : Receive(h, c)
           \/ \E b \in Bills : RefundRead(h, b) \/ Journal(h, b)
    PROVE  SlideInv'
<1>1. PICK r \in HandlerRecords : r = handler[h]
    BY DEF IInv
<1>2. SlideOK(r) /\ TypeOK /\ handler \in [Handlers -> HandlerRecords]
    BY <1>1 DEF IInv, SlideInv
<1>3. UNCHANGED <<world, ledger, sub>>
    BY DEF Verify, RefundRaises, ReadExpiry, Answer, Fail, Receive, RefundRead,
           Journal, moneyVars
<1>4. SUFFICES \E rec \in HandlerRecords :
                   handler' = [handler EXCEPT ![h] = rec] /\ SlideOK(rec)
    BY <1>3, SlideReads
<1>5. CASE handler' = [handler EXCEPT ![h] = IdleHandler]
    BY <1>2, <1>5, IdleOK DEF SlideOK, IdleHandler
<1>6. CASE \E c \in owed \cup {Unsolicited} : Receive(h, c)
  <2>1. PICK c \in owed \cup {Unsolicited} : Receive(h, c)
      BY <1>6
  <2> DEFINE rec == [handler[h] EXCEPT !.pc = "verify", !.callback = c]
  <2>2. rec \in HandlerRecords /\ rec.pc = "verify" /\ rec.credit = r.credit
      BY <1>1, <1>2, <2>1 DEF HandlerRecords, TypeOK, Unsolicited
  <2>3. handler' = [handler EXCEPT ![h] = rec]
      BY <1>2, <2>1 DEF Receive, HandlerRecords
  <2> HIDE DEF rec
  <2>4. SlideOK(rec)
      BY <1>2, <2>2 DEF SlideOK
  <2>5. QED
      BY <2>2, <2>3, <2>4
<1>7. CASE Verify(h)
  <2> DEFINE rec == [handler[h] EXCEPT
          !.pc = "loop",
          !.credit = {b \in Bills : /\ bill[b].status = "paid"
                                    /\ bill[b].at + Freshness >= now},
          !.refund = {b \in Bills : bill[b].status = "refunded"}]
  <2>1. /\ rec \in HandlerRecords /\ rec.pc = "loop"
        /\ rec.credit = {b \in Bills : /\ bill[b].status = "paid"
                                       /\ bill[b].at + Freshness >= now}
      BY <1>1 DEF HandlerRecords
  <2>2. handler' = [handler EXCEPT ![h] = rec]
      BY <1>2, <1>7 DEF Verify, HandlerRecords
  <2> HIDE DEF rec
  <2>3. SlideOK(rec)
      BY <2>1 DEF SlideOK
  <2>4. QED
      BY <2>1, <2>2, <2>3
<1>8. CASE ReadExpiry(h)
  <2>1. PICK n \in Nat : n = IF sub.status = "active" /\ sub.expires > r.began
                               THEN sub.expires ELSE 0
      BY <1>2 DEF TypeOK
  <2>2. n = 0 \/ Reached(n)
      BY <2>1 DEF SlideInv
  <2> DEFINE rec == [handler[h] EXCEPT !.pc = "commit", !.read = n]
  <2>3. /\ rec \in HandlerRecords /\ rec.pc = "commit" /\ rec.read = n
        /\ rec.credit = r.credit /\ rec.bill = r.bill
      BY <1>1 DEF HandlerRecords
  <2>4. handler' = [handler EXCEPT ![h] = rec] /\ r.pc = "expiry"
      BY <1>1, <1>2, <1>8, <2>1 DEF ReadExpiry, HandlerRecords
  <2> HIDE DEF rec
  <2>5. SlideOK(rec)
      BY <1>2, <2>2, <2>3, <2>4 DEF SlideOK
  <2>6. QED
      BY <2>3, <2>4, <2>5
<1>9. ASSUME NEW b \in Bills, DoneRefund(h, b) \/ DonePayment(h, b)
      PROVE  \E rec \in HandlerRecords :
                 handler' = [handler EXCEPT ![h] = rec] /\ SlideOK(rec)
  <2>1. PICK rec \in HandlerRecords :
            /\ handler' = [handler EXCEPT ![h] = rec]
            /\ rec.pc = "loop" /\ rec.credit \subseteq r.credit
      BY <1>1, <1>9, RefundDone, PaymentDone DEF LoopRecord
  <2>2. SlideOK(rec)
      BY <1>2, <2>1 DEF SlideOK
  <2>3. QED
      BY <2>1, <2>2
<1>10. ASSUME NEW b \in Bills, RefundRead(h, b)
       PROVE  \E rec \in HandlerRecords :
                  handler' = [handler EXCEPT ![h] = rec] /\ SlideOK(rec)
  <2>1. CASE handler' = [handler EXCEPT ![h].pc = "refund", ![h].bill = b,
                                        ![h].read = balance[User]]
    <3> DEFINE rec == [handler[h] EXCEPT !.pc = "refund", !.bill = b,
                                         !.read = balance[User]]
    <3>1. balance[User] \in Nat
        BY <1>2 DEF TypeOK
    <3>2. rec \in HandlerRecords /\ rec.pc = "refund" /\ rec.credit = r.credit
        BY <1>1, <3>1 DEF HandlerRecords
    <3>3. handler' = [handler EXCEPT ![h] = rec]
        BY <1>2, <2>1 DEF HandlerRecords
    <3> HIDE DEF rec
    <3>4. SlideOK(rec)
        BY <1>2, <3>2 DEF SlideOK
    <3>5. QED
        BY <3>2, <3>3, <3>4
  <2>2. QED
      BY <1>9, <1>10, <2>1 DEF RefundRead
<1>11. ASSUME NEW b \in Bills, Journal(h, b)
       PROVE  \E rec \in HandlerRecords :
                  handler' = [handler EXCEPT ![h] = rec] /\ SlideOK(rec)
  <2>1. CASE handler' = [handler EXCEPT ![h].pc = "grant", ![h].bill = b,
                                        ![h].began = now]
    <3> DEFINE rec == [handler[h] EXCEPT !.pc = "grant", !.bill = b, !.began = now]
    <3>1. now \in Nat
        BY <1>2, BoundsAssumption DEF TypeOK
    <3>2. /\ rec \in HandlerRecords /\ rec.pc = "grant" /\ rec.bill = b
          /\ rec.credit = r.credit
        BY <1>1, <3>1 DEF HandlerRecords
    <3>3. handler' = [handler EXCEPT ![h] = rec]
        BY <1>2, <2>1 DEF HandlerRecords
    <3>4. b \in r.credit
        BY <1>1, <1>11 DEF Journal
    <3> HIDE DEF rec
    <3>5. SlideOK(rec)
        BY <1>2, <3>2, <3>4 DEF SlideOK
    <3>6. QED
        BY <3>2, <3>3, <3>5
  <2>2. QED
      BY <1>9, <1>11, <2>1 DEF Journal
<1>12. QED
    BY <1>5, <1>6, <1>7, <1>8, <1>10, <1>11 DEF RefundRaises, Answer, Fail

\* A reversal ends the subscription and leaves its term.
LEMMA RefundSlides ==
    ASSUME IInv, SlideInv, NEW h \in Handlers, RefundWrite(h) PROVE SlideInv'
<1>1. PICK r \in HandlerRecords : r = handler[h]
    BY DEF IInv
<1>2. HandlerOK(r) /\ SlideOK(r) /\ TypeOK /\ r.pc = "refund"
    BY <1>1 DEF IInv, SlideInv, RefundWrite
<1>3. PICK b \in Bills : b = handler[h].bill
    BY <1>1, <1>2 DEF HandlerOK, HandlerRecords
<1>4. /\ UNCHANGED <<bought, bill>> /\ DoneRefund(h, b)
      /\ sub' = IF IsSubscription(b) /\ sub.status /= "none"
                  THEN [sub EXCEPT !.status = "expired"] ELSE sub
    BY <1>3 DEF RefundWrite, world
<1>5. \A c \in Bills : Posted(GrantKey(c))' <=> Posted(GrantKey(c))
  <2>1. CASE UNCHANGED ledger
      BY <2>1 DEF Posted, L!RowsAt
  <2>2. CASE Take(h) > 0 /\ L!Post(Row(RefundKey(b), "debit", Take(h)))
    <3>1. bought[b].credits \in Nat /\ r.read \in Nat
        BY <1>2, ProductsAssumption DEF TypeOK, HandlerRecords
    <3>2. Take(h) \in Nat
        BY <1>1, <1>3, <3>1, SmallerOfTwo DEF Take
    <3>3. PICK row : row = Row(RefundKey(b), "debit", Take(h))
        OBVIOUS
    <3>4. row \in L!Rows /\ row.key = RefundKey(b) /\ L!Post(row)
        BY <2>2, <3>2, <3>3 DEF Row, L!Rows, L!Types
    <3>5. QED
        BY <3>4, RowPosted, KeysDiffer
  <2>3. QED
      BY <1>3, <2>1, <2>2 DEF RefundWrite, moneyVars
<1>6. PICK rec \in HandlerRecords :
          /\ handler' = [handler EXCEPT ![h] = rec]
          /\ LoopRecord(rec, r.callback, r.credit, r.refund \ {b})
    BY <1>1, <1>4, RefundDone
<1>7. SlideOK(rec)
    BY <1>2, <1>6 DEF SlideOK, LoopRecord
<1>8. GrantedSubscriptions' = GrantedSubscriptions
    BY <1>4, <1>5, NothingGranted
<1>9. PaidForGood /\ sub'.expires = sub.expires
      /\ (sub'.status /= "none" => sub.status /= "none")
    BY <1>2, <1>4 DEF PaidForGood, TypeOK
<1>10. \A o \in Handlers : \E q \in HandlerRecords : handler'[o] = q /\ SlideOK(q)
    BY <1>6, <1>7, OneSlides
<1>11. QED
    BY <1>4, <1>8, <1>9, <1>10, SlideRests

\* What is credited before the commit is no subscription.
LEMMA GrantSlides ==
    ASSUME IInv, SlideInv, NEW h \in Handlers, Grant(h) PROVE SlideInv'
<1>1. PICK r \in HandlerRecords : r = handler[h]
    BY DEF IInv
<1>2. /\ HandlerOK(r) /\ SlideOK(r) /\ TypeOK /\ r.pc = "grant"
      /\ UNCHANGED <<world, sub>>
    BY <1>1 DEF IInv, SlideInv, Grant
<1>3. PICK b \in Bills : b = handler[h].bill
    BY <1>1, <1>2 DEF HandlerOK
<1>4. CASE IsSubscription(b)
  <2> DEFINE rec == [handler[h] EXCEPT !.pc = "expiry"]
  <2>1. /\ rec \in HandlerRecords /\ rec.pc = "expiry" /\ rec.bill = r.bill
        /\ rec.credit = r.credit
      BY <1>1 DEF HandlerRecords
  <2>2. handler' = [handler EXCEPT ![h] = rec] /\ UNCHANGED ledger
      BY <1>1, <1>3, <1>4 DEF Grant, IInv, HandlerRecords, moneyVars
  <2> HIDE DEF rec
  <2>3. SlideOK(rec)
      BY <1>2, <2>1 DEF SlideOK
  <2>4. QED
      BY <1>2, <2>1, <2>2, <2>3, SlideReads
<1>5. CASE ~IsSubscription(b)
  <2>1. Credit(h) /\ UNCHANGED <<bought, bill>>
      BY <1>2, <1>3, <1>5 DEF Grant, world
  <2>2. PICK row : row = Row(GrantKey(b), "credit", bought[b].credits)
      OBVIOUS
  <2>3. row \in L!Rows /\ row.key = GrantKey(b) /\ L!Post(row)
      BY <1>2, <1>3, <2>1, <2>2, ProductsAssumption
         DEF Credit, TypeOK, Row, L!Rows, L!Types
  <2>4. \A c \in Bills \ {b} : Posted(GrantKey(c))' <=> Posted(GrantKey(c))
      BY <2>3, RowPosted, KeysDiffer
  <2>5. GrantedSubscriptions' = GrantedSubscriptions
      BY <1>5, <2>1, <2>4, NothingGranted
  <2>6. PICK rec \in HandlerRecords :
            /\ handler' = [handler EXCEPT ![h] = rec]
            /\ LoopRecord(rec, handler[h].callback, handler[h].credit \ {b},
                          handler[h].refund)
      BY <1>3, <2>1, PaymentDone DEF Credit
  <2>7. SlideOK(rec)
      BY <1>1, <1>2, <2>6 DEF SlideOK, LoopRecord
  <2>8. PaidForGood
      BY <2>1 DEF PaidForGood
  <2>9. \A o \in Handlers : \E q \in HandlerRecords : handler'[o] = q /\ SlideOK(q)
      BY <2>6, <2>7, OneSlides
  <2>10. QED
      BY <1>2, <2>1, <2>5, <2>8, <2>9, SlideRests
<1>6. QED
    BY <1>4, <1>5

\* Nor does the world move what was paid for.
LEMMA WorldSlides ==
    ASSUME IInv, SlideInv,
           \/ Tick \/ UNCHANGED vars
           \/ \E b \in Bills : Pay(b) \/ PayBack(b)
           \/ \E g \in Spends : Spend(g)
    PROVE  SlideInv'
<1>1. UNCHANGED <<bought, sub, handler>> /\ TypeOK
      /\ handler \in [Handlers -> HandlerRecords]
    BY DEF Tick, vars, world, Pay, PayBack, Spend, IInv
<1>2. PaidForGood
    BY <1>1 DEF PaidForGood, TypeOK, Tick, vars, world, Pay, PayBack, Spend
<1>3. \A b \in Bills : Posted(GrantKey(b))' <=> Posted(GrantKey(b))
  <2>1. CASE UNCHANGED ledger
      BY <2>1 DEF Posted, L!RowsAt
  <2>2. ASSUME NEW g \in Spends, Spend(g)
        PROVE  \A b \in Bills : Posted(GrantKey(b))' <=> Posted(GrantKey(b))
    <3>1. PICK row : row = Row(SpendKey(g), "debit", 1)
        OBVIOUS
    <3>2. row \in L!Rows /\ row.key = SpendKey(g) /\ L!Post(row)
        BY <2>2, <3>1 DEF Spend, Row, L!Rows, L!Types
    <3>3. QED
        BY <3>2, RowPosted, KeysDiffer
  <2>3. QED
      BY <2>1, <2>2 DEF Tick, vars, Pay, PayBack, moneyVars
<1>4. GrantedSubscriptions' = GrantedSubscriptions
    BY <1>1, <1>3, NothingGranted
<1>5. \A o \in Handlers : \E q \in HandlerRecords : handler'[o] = q /\ SlideOK(q)
  <2>1. ASSUME NEW o \in Handlers
        PROVE  \E q \in HandlerRecords : handler'[o] = q /\ SlideOK(q)
    <3>1. PICK q \in HandlerRecords : q = handler[o] /\ q = handler'[o]
        BY <1>1
    <3>2. SlideOK(q)
        BY <3>1 DEF SlideInv
    <3>3. QED
        BY <3>1, <3>2
  <2>2. QED
      BY <2>1
<1>6. QED
    BY <1>1, <1>2, <1>4, <1>5, SlideRests

\* However often and from however many requests a payment is reported, however
\* requests overlap, fail and read an aggregator that moves on, access reaches
\* no further beyond the last payment than the credited periods together.
THEOREM NoSlidingAccessHolds == Spec => []NoSlidingAccess
<1>1. Init => SlideInv
  <2> SUFFICES ASSUME Init PROVE SlideInv
      OBVIOUS
  <2>1. ledger = {} /\ sub.status = "none" /\ handler = [h \in Handlers |-> IdleHandler]
      BY DEF Init, L!LedgerInit
  <2>2. GrantedSubscriptions = {}
      BY <2>1 DEF GrantedSubscriptions, Posted, L!RowsAt
  <2>3. SlideOK(IdleHandler)
      BY DEF SlideOK, IdleHandler
  <2>4. QED
      BY <2>1, <2>2, <2>3, FS_EmptySet DEF SlideInv
<1>2. IInv /\ SlideInv /\ [Next]_vars => SlideInv'
    BY CommitSlides, OthersSlide, RefundSlides, GrantSlides, WorldSlides
       DEF Next, Step
<1>3. IInv /\ SlideInv => NoSlidingAccess
  <2> SUFFICES ASSUME SlideInv, sub.status /= "none" PROVE NoSlidingAccess
      BY DEF NoSlidingAccess
  <2>1. PICK last \in GrantedSubscriptions :
            sub.expires <= bill[last].at + SumOf(Periods, GrantedSubscriptions)
      BY DEF SlideInv, Reached
  <2>2. PICK G \in SUBSET Bills : G = GrantedSubscriptions
      BY DEF GrantedSubscriptions
  <2>3. IsFiniteSet(G)
      BY <2>2 DEF SlideInv
  <2>4. MapThenSumSet(LAMBDA b : bought[b].period, G) = SumOf(Periods, G)
      BY <2>3, SumOfPeriods
  <2>5. QED
      BY <2>1, <2>2, <2>4 DEF NoSlidingAccess
<1>4. QED
    BY <1>1, <1>2, <1>3, Invariance, PTL DEF Spec

=============================================================================
