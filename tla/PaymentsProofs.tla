--------------------------- MODULE PaymentsProofs ---------------------------
(***************************************************************************)
(* Proofs about the payments journal (module Payments) for any users,      *)
(* purchases, events and spends: a purchase is granted once, the journal   *)
(* and the ledger agree, and a refund takes back no more than was granted. *)
(***************************************************************************)
EXTENDS Payments, FiniteSetTheorems, TLAPS

-----------------------------------------------------------------------------
(* The inductive invariant, by what it is about.                           *)

\* The one key a purchase is granted under, whichever channel reports it.
KeyOf(p) == IF p.kind = "subscription" THEN SubKey(p) ELSE TokenKey(p)

GrantRow(row) == row.status = "granted"

\* A credit pays a purchase, is its amount, and is journalled.
CreditOK(r) ==
    r.type = "credit" =>
        \E p \in Purchases :
            /\ r.key = KeyOf(p)
            /\ r.amount = p.credits
            /\ \E row \in payments : /\ GrantRow(row)
                                     /\ row.user = r.user
                                     /\ row.txn = p

\* A reversal takes back no more than the grant whose key it names.
ReversalOK(r) ==
    \A p \in Purchases : \A k \in AppleGrantKeys(p) :
        r.key = RefundKey(k) =>
            \E credit \in L!RowsAt(ledger, r.user, k) :
                credit.type = "credit" /\ r.amount <= credit.amount

JournalOK(row) ==
    /\ row.status \in {"granted", "replayed", "no_grant", "rejected", "refunded"}
    /\ GrantRow(row) =>
          /\ row.user \in Users
          /\ row.txn \in Purchases
          /\ row.user = row.txn.user
          /\ \E r \in L!RowsAt(ledger, row.user, KeyOf(row.txn)) :
                r.type = "credit" /\ r.amount = row.moved

JournalledOnce ==
    \A row, other \in payments :
        GrantRow(row) /\ GrantRow(other) /\ row.txn = other.txn => row = other

\* What a refund in progress has read is still in the ledger.
RefundOK(f) ==
    /\ f.user \in Users
    /\ f.txn \in Purchases \cup {NoTxn}
    /\ f.balance \in Nat
    /\ \A g \in f.grants :
          /\ g \in ledger /\ g.user = f.user /\ g.type = "credit"
          /\ g.key \in AppleGrantKeys(f.txn)

IInv ==
    /\ TypeOK
    /\ L!OneRowPerKey
    /\ \A r \in ledger : CreditOK(r) /\ ReversalOK(r)
    /\ \A row \in payments : JournalOK(row)
    /\ JournalledOnce
    /\ \A f \in refunding : RefundOK(f)

-----------------------------------------------------------------------------
(* Keys.                                                                   *)

\* A grant key tells its purchase, and no reversal or spend has one.
LEMMA GrantKeys ==
    /\ \A p \in Purchases : KeyOf(p) \in AppleGrantKeys(p)
    /\ \A p, q \in Purchases : KeyOf(p) \in AppleGrantKeys(q) => p = q
    /\ \A p \in Purchases \cup {NoTxn} : \A k \in AppleGrantKeys(p) :
          /\ k \in LedgerKeys /\ RefundKey(k) \in LedgerKeys
          /\ p \in Purchases
<1>1. NoTxn \notin Purchases
    BY PurchasesAssumption
<1>2. ASSUME NEW p \in Purchases PROVE KeyOf(p) \in AppleGrantKeys(p)
    BY <1>1 DEF KeyOf, AppleGrantKeys
<1>3. ASSUME NEW p \in Purchases, NEW q \in Purchases, KeyOf(p) \in AppleGrantKeys(q)
      PROVE  p = q
  <2>1. p.id = q.id
      BY <1>1, <1>3 DEF KeyOf, AppleGrantKeys, SubKey, TokenKey, LegacyKey
  <2>2. QED
      BY <2>1, PurchasesAssumption
<1>4. ASSUME NEW p \in Purchases \cup {NoTxn}, NEW k \in AppleGrantKeys(p)
      PROVE  /\ k \in LedgerKeys /\ RefundKey(k) \in LedgerKeys
             /\ p \in Purchases
  <2>1. p \in Purchases
      BY DEF AppleGrantKeys
  <2>2. k \in UNION {AppleGrantKeys(q) : q \in Purchases}
      BY <2>1
  <2>3. QED
      BY <2>1, <2>2 DEF LedgerKeys
<1>5. QED
    BY <1>2, <1>3, <1>4

\* Reversals of different grants have different keys, none of which is a grant
\* key; nor is the key of a spend.
LEMMA OtherKeys ==
    ASSUME NEW p \in Purchases, NEW k \in AppleGrantKeys(p)
    PROVE  /\ \A j : RefundKey(j) = RefundKey(k) => j = k
           /\ \A q \in Purchases : KeyOf(q) /= RefundKey(k)
           /\ \A g \in Spends : SpendKey(g) /= RefundKey(k)
    BY DEF RefundKey, KeyOf, SubKey, TokenKey, SpendKey

-----------------------------------------------------------------------------
(* What a posted row changes.                                              *)

\* A posted row is added, keeps the balances natural numbers and takes a key
\* that was free.
LEMMA RowPosted ==
    ASSUME IInv, NEW r \in L!Rows, L!Post(r)
    PROVE  /\ ledger' = ledger \cup {r} /\ ledger' \subseteq L!Rows
           /\ balance' \in [Users -> Nat]
           /\ L!OneRowPerKey'
           /\ L!RowsAt(ledger, r.user, r.key) = {}
<1>1. /\ ledger' = ledger \cup {r}
      /\ L!RowsAt(ledger, r.user, r.key) = {}
      /\ r.type = "debit" => balance[r.user] >= r.amount
      /\ balance' = L!BalanceAfter(balance, r)
    BY DEF L!Post
<1>2. /\ ledger \subseteq L!Rows /\ balance \in [Users -> Nat] /\ L!OneRowPerKey
      /\ r.user \in Users /\ r.amount \in Nat /\ r.type \in {"credit", "debit"}
    BY DEF IInv, TypeOK, L!Rows, L!Types
<1>3. balance[r.user] + L!Signed(r) \in Nat
    BY <1>1, <1>2 DEF L!Signed
<1>4. balance' \in [Users -> Nat]
    BY <1>1, <1>2, <1>3 DEF L!BalanceAfter
<1>5. L!OneRowPerKey'
    BY <1>1, <1>2 DEF L!OneRowPerKey, L!RowsAt
<1>6. QED
    BY <1>1, <1>2, <1>4, <1>5

\* Rows are never taken back, so what rests on them still does.
LEMMA RowsStay ==
    ASSUME ledger \subseteq ledger', payments \subseteq payments'
    PROVE  /\ \A r \in ledger : CreditOK(r) => CreditOK(r)'
           /\ \A r \in ledger : ReversalOK(r) => ReversalOK(r)'
           /\ \A row \in payments : JournalOK(row) => JournalOK(row)'
           /\ \A f \in refunding : RefundOK(f) => RefundOK(f)'
<1>1. \A u, k : L!RowsAt(ledger, u, k) \subseteq L!RowsAt(ledger, u, k)'
    BY DEF L!RowsAt
<1>2. ASSUME NEW r \in ledger, CreditOK(r) PROVE CreditOK(r)'
    BY <1>2 DEF CreditOK
<1>3. ASSUME NEW r \in ledger, ReversalOK(r) PROVE ReversalOK(r)'
    BY <1>1, <1>3 DEF ReversalOK
<1>4. ASSUME NEW row \in payments, JournalOK(row) PROVE JournalOK(row)'
    BY <1>1, <1>4 DEF JournalOK
<1>5. ASSUME NEW f \in refunding, RefundOK(f) PROVE RefundOK(f)'
    BY <1>5 DEF RefundOK
<1>6. QED
    BY <1>2, <1>3, <1>4, <1>5

-----------------------------------------------------------------------------
(* The steps.  Each one keeps the invariant and is a step of the ledger.   *)

WorldOK ==
    /\ store \in [Purchases -> {"none", "paid", "refunded"}]
    /\ lapsed \subseteq Purchases
    /\ sub \in [Users -> [status: {"none", "active", "expired"},
                          plan: Purchases \cup {NoTxn}]]

StepOK == IInv' /\ [L!LedgerNext]_(L!ledgerVars)

\* A step that moves no money and writes no journal row.
LEMMA PlainStep ==
    ASSUME IInv, UNCHANGED <<ledger, balance, payments>>, WorldOK',
           \A f \in refunding' : RefundOK(f)'
    PROVE  StepOK
<1>1. TypeOK'
    BY DEF IInv, TypeOK, WorldOK
<1>2. L!OneRowPerKey' /\ JournalledOnce'
    BY DEF IInv, L!OneRowPerKey, JournalledOnce
<1>3. /\ \A r \in ledger' : CreditOK(r)' /\ ReversalOK(r)'
      /\ \A row \in payments' : JournalOK(row)'
    BY RowsStay DEF IInv
<1>4. QED
    BY <1>1, <1>2, <1>3 DEF IInv, StepOK, L!ledgerVars

\* Journalling a payment and granting its credits.
LEMMA GrantStep ==
    ASSUME IInv, NEW d, NEW kind, NEW p \in Purchases \cup {NoTxn}, NEW u \in Users,
           NEW key, p /= NoTxn => u = p.user /\ key \subseteq {KeyOf(p)},
           RecordAndGrant(d, kind, p, u, key, Outcome(d, kind, p, u, key)),
           UNCHANGED refunding, WorldOK'
    PROVE  StepOK
<1>1. PICK o : o = Outcome(d, kind, p, u, key)
    OBVIOUS
<1>2. /\ o \in {"duplicate", "rejected", "no_grant", "replayed", "granted"}
      /\ o = "granted" =>
            /\ p \in Purchases /\ u = p.user /\ key = {KeyOf(p)}
            /\ L!RowsAt(ledger, u, KeyOf(p)) = {}
    BY <1>1 DEF Outcome
<1>3. \A f \in refunding : RefundOK(f)
    BY DEF IInv
<1>4. CASE o = "duplicate"
  <2>1. UNCHANGED <<ledger, balance, payments>>
      BY <1>1, <1>4 DEF RecordAndGrant
  <2>2. QED
      BY <1>3, <2>1, PlainStep, RowsStay
<1>5. CASE o \in {"rejected", "no_grant", "replayed"}
  <2>1. PICK new : /\ payments' = payments \cup {new} /\ new.status = o
                   /\ UNCHANGED <<ledger, balance>>
    <3> DEFINE new == [delivery |-> d, user |-> u, txn |-> p, kind |-> kind,
                       status |-> o, moved |-> 0, found |-> FALSE]
    <3>1. payments' = payments \cup {new} /\ UNCHANGED <<ledger, balance>>
        BY <1>1, <1>5 DEF RecordAndGrant
    <3>2. new.status = o
        OBVIOUS
    <3>3. QED
        BY <3>1, <3>2
  <2>2. JournalOK(new)' /\ ~GrantRow(new)
      BY <1>5, <2>1 DEF JournalOK, GrantRow
  <2>3. /\ \A r \in ledger' : CreditOK(r)' /\ ReversalOK(r)'
        /\ \A row \in payments' : JournalOK(row)'
        /\ \A f \in refunding' : RefundOK(f)'
      BY <1>3, <2>1, <2>2, RowsStay DEF IInv
  <2>4. JournalledOnce'
      BY <2>1, <2>2 DEF IInv, JournalledOnce
  <2>5. L!OneRowPerKey'
      BY <2>1 DEF IInv, L!OneRowPerKey
  <2>6. \A row \in payments' :
            row.status \in {"granted", "replayed", "no_grant", "rejected", "refunded"}
      BY <1>5, <2>1 DEF IInv, TypeOK
  <2>7. TypeOK'
      BY <2>1, <2>6 DEF IInv, TypeOK, WorldOK
  <2>8. QED
      BY <2>1, <2>3, <2>4, <2>5, <2>7 DEF IInv, StepOK, L!ledgerVars
<1>6. CASE o = "granted"
  <2>1. PICK q \in Purchases : q = p
      BY <1>2, <1>6
  <2>2. PICK r : r = Row(u, KeyOf(q), "credit", q.credits)
      OBVIOUS
  <2>3. PICK new :
          /\ payments' = payments \cup {new}
          /\ new.status = "granted" /\ new.user = u /\ new.txn = q
          /\ new.moved = q.credits
    <3> DEFINE new == [delivery |-> d, user |-> u, txn |-> q, kind |-> kind,
                       status |-> o, moved |-> q.credits, found |-> FALSE]
    <3>1. payments' = payments \cup {new}
        BY <1>1, <1>6, <2>1 DEF RecordAndGrant
    <3>2. /\ new.status = "granted" /\ new.user = u /\ new.txn = q
          /\ new.moved = q.credits
        BY <1>6
    <3>3. QED
        BY <3>1, <3>2
  <2>4. L!Post(r)
      BY <1>1, <1>2, <1>6, <2>1, <2>2 DEF RecordAndGrant
  <2>5. /\ r \in L!Rows /\ r.user = u /\ r.key = KeyOf(q) /\ r.type = "credit"
        /\ r.amount = q.credits
      BY <2>2, GrantKeys, PurchasesAssumption DEF Row, L!Rows, L!Types
  <2>6. /\ ledger' = ledger \cup {r} /\ ledger' \subseteq L!Rows
        /\ balance' \in [Users -> Nat] /\ L!OneRowPerKey'
      BY <2>4, <2>5, RowPosted
  <2>7. JournalOK(new)'
      BY <1>2, <1>6, <2>1, <2>3, <2>5, <2>6 DEF JournalOK, GrantRow, L!RowsAt
  <2>8. CreditOK(r)'
      BY <2>3, <2>5 DEF CreditOK, GrantRow
  <2>9. ReversalOK(r)'
      BY <2>5, OtherKeys DEF ReversalOK
  <2>10. /\ \A s \in ledger' : CreditOK(s)' /\ ReversalOK(s)'
         /\ \A row \in payments' : JournalOK(row)'
         /\ \A f \in refunding' : RefundOK(f)'
      BY <1>3, <2>3, <2>6, <2>7, <2>8, <2>9, RowsStay DEF IInv
  <2>11. \A row \in payments : ~(GrantRow(row) /\ row.txn = q)
      BY <1>2, <1>6, <2>1 DEF IInv, JournalOK
  <2>12. JournalledOnce'
      BY <2>3, <2>11 DEF IInv, JournalledOnce
  <2>13. TypeOK'
      BY <2>3, <2>6 DEF IInv, TypeOK, WorldOK
  <2>14. QED
      BY <2>4, <2>5, <2>6, <2>10, <2>12, <2>13 DEF IInv, StepOK, L!LedgerNext
<1>7. QED
    BY <1>2, <1>4, <1>5, <1>6

\* A refund reads what its purchase was granted.
LEMMA RefundReadStep ==
    ASSUME IInv, NEW d, NEW u \in Users, NEW p \in Purchases \cup {NoTxn}, NEW rv,
           RefundRead(d, u, p, rv)
    PROVE  StepOK
<1>1. PICK new :
          /\ refunding' = refunding \cup {new}
          /\ new.user = u /\ new.txn = p /\ new.balance = balance[u]
          /\ new.grants \subseteq Credits(u, p)
  <2> DEFINE new == [delivery |-> d, user |-> u, txn |-> p, revokes |-> rv,
                     grants |-> {r \in Credits(u, p) :
                                   L!RowsAt(ledger, u, RefundKey(r.key)) = {}},
                     found |-> Credits(u, p) /= {},
                     balance |-> balance[u]]
  <2>1. refunding' = refunding \cup {new}
      BY DEF RefundRead
  <2>2. new.grants \subseteq Credits(u, p)
      OBVIOUS
  <2>3. new.user = u /\ new.txn = p /\ new.balance = balance[u]
      OBVIOUS
  <2>4. QED
      BY <2>1, <2>2, <2>3
<1>2. UNCHANGED <<store, lapsed, ledger, balance, payments, sub>>
    BY DEF RefundRead
<1>3. WorldOK' /\ balance[u] \in Nat
    BY <1>2 DEF IInv, TypeOK, WorldOK
<1>4. RefundOK(new)'
    BY <1>1, <1>2, <1>3 DEF RefundOK, Credits
<1>5. \A f \in refunding' : RefundOK(f)'
    BY <1>1, <1>2, <1>4, RowsStay DEF IInv
<1>6. QED
    BY <1>2, <1>3, <1>5, PlainStep

\* The journal row of a refund, and the end of access.
LEMMA RefundJournalled ==
    ASSUME IInv, NEW f \in refunding, NEW m, JournalRefund(f, m),
           UNCHANGED <<store, lapsed>>
    PROVE  /\ \E new : /\ payments' = payments \cup {new}
                       /\ JournalOK(new)' /\ ~GrantRow(new)
                       /\ new.status = "refunded"
           /\ WorldOK'
<1> DEFINE new == [delivery |-> f.delivery, user |-> f.user, txn |-> f.txn,
                   kind |-> "refund", status |-> "refunded", moved |-> m,
                   found |-> f.found]
<1>1. payments' = payments \cup {new}
    BY DEF JournalRefund
<1>2. new.status = "refunded"
    OBVIOUS
<1>3. f.user \in Users
    BY DEF IInv, RefundOK
<1>4. WorldOK'
    BY <1>3 DEF JournalRefund, IInv, TypeOK, WorldOK
<1> HIDE DEF new
<1>5. JournalOK(new)' /\ ~GrantRow(new)
    BY <1>2 DEF JournalOK, GrantRow
<1>6. QED
    BY <1>1, <1>2, <1>4, <1>5

\* A refund takes back what it read of the grant, or nothing.
LEMMA RefundWriteStep ==
    ASSUME IInv, NEW f \in refunding, RefundWrite(f)
    PROVE  StepOK
<1>1. /\ RefundOK(f) /\ refunding' \subseteq refunding
      /\ UNCHANGED <<store, lapsed>>
    BY DEF IInv, RefundWrite
<1>2. PICK m : JournalRefund(f, m)
    BY DEF RefundWrite
<1>3. PICK new : /\ payments' = payments \cup {new}
                 /\ JournalOK(new)' /\ ~GrantRow(new) /\ new.status = "refunded"
    BY <1>1, <1>2, RefundJournalled
<1>4. WorldOK'
    BY <1>1, <1>2, RefundJournalled
<1>5. JournalledOnce'
    BY <1>3 DEF IInv, JournalledOnce
<1>6. \A row \in payments' :
          row.status \in {"granted", "replayed", "no_grant", "rejected", "refunded"}
    BY <1>3 DEF IInv, TypeOK
<1>7. CASE UNCHANGED <<ledger, balance>>
  <2>1. /\ \A r \in ledger' : CreditOK(r)' /\ ReversalOK(r)'
        /\ \A row \in payments' : JournalOK(row)'
        /\ \A e \in refunding' : RefundOK(e)'
      BY <1>1, <1>3, <1>7, RowsStay DEF IInv
  <2>2. L!OneRowPerKey'
      BY <1>7 DEF IInv, L!OneRowPerKey
  <2>3. TypeOK'
      BY <1>4, <1>6, <1>7 DEF IInv, TypeOK, WorldOK
  <2>4. QED
      BY <1>5, <1>7, <2>1, <2>2, <2>3 DEF IInv, StepOK, L!ledgerVars
<1>8. ASSUME NEW g \in f.grants, Take(f, g) > 0,
             L!Post(Row(f.user, RefundKey(g.key), "debit", Take(f, g)))
      PROVE  StepOK
  <2>1. PICK p \in Purchases : p = f.txn /\ g.key \in AppleGrantKeys(p)
      BY <1>1, GrantKeys DEF RefundOK
  <2>2. /\ g \in ledger /\ g.user = f.user /\ g.type = "credit"
        /\ f.user \in Users /\ f.balance \in Nat /\ g.amount \in Nat
      BY <1>1 DEF RefundOK, IInv, TypeOK, L!Rows
  <2>3. PICK take \in Nat : take = Take(f, g) /\ take > 0 /\ take <= g.amount
      BY <1>8, <2>2 DEF Take
  <2>4. PICK r : r = Row(f.user, RefundKey(g.key), "debit", take)
      OBVIOUS
  <2>5. /\ r.user = f.user /\ r.key = RefundKey(g.key) /\ r.type = "debit"
        /\ r.amount = take
      BY <2>4 DEF Row
  <2>6. r \in L!Rows
      BY <2>1, <2>2, <2>3, <2>4, GrantKeys DEF Row, L!Rows, L!Types
  <2>7. L!Post(r)
      BY <1>8, <2>3, <2>4
  <2>8. /\ ledger' = ledger \cup {r} /\ ledger' \subseteq L!Rows
        /\ balance' \in [Users -> Nat] /\ L!OneRowPerKey'
      BY <2>6, <2>7, RowPosted
  <2>9. CreditOK(r)'
      BY <2>5 DEF CreditOK
  <2>10. ReversalOK(r)'
    <3>1. ASSUME NEW q \in Purchases, NEW k \in AppleGrantKeys(q), r.key = RefundKey(k)
          PROVE  \E credit \in L!RowsAt(ledger', r.user, k) :
                     credit.type = "credit" /\ r.amount <= credit.amount
      <4>1. g.key = k
          BY <2>5, <3>1, OtherKeys
      <4>2. QED
          BY <2>2, <2>3, <2>5, <2>8, <4>1 DEF L!RowsAt
    <3>2. QED
        BY <3>1 DEF ReversalOK
  <2>11. /\ \A s \in ledger' : CreditOK(s)' /\ ReversalOK(s)'
         /\ \A row \in payments' : JournalOK(row)'
         /\ \A e \in refunding' : RefundOK(e)'
      BY <1>1, <1>3, <2>8, <2>9, <2>10, RowsStay DEF IInv
  <2>12. TypeOK'
      BY <1>4, <1>6, <2>8 DEF IInv, TypeOK, WorldOK
  <2>13. QED
      BY <1>5, <2>6, <2>7, <2>8, <2>11, <2>12 DEF IInv, StepOK, L!LedgerNext
<1>9. QED
    BY <1>7, <1>8 DEF RefundWrite

\* A debit of a generation is a row of its own.
LEMMA SpendStep ==
    ASSUME IInv, NEW u \in Users, NEW g \in Spends, NEW amount \in 1..balance[u],
           Spend(u, g, amount)
    PROVE  StepOK
<1>1. PICK r : r = Row(u, SpendKey(g), "debit", amount)
    OBVIOUS
<1>2. balance[u] \in Nat
    BY DEF IInv, TypeOK
<1>3. amount \in Nat /\ amount > 0
    BY <1>2
<1>4. /\ r \in L!Rows /\ r.key = SpendKey(g) /\ r.type = "debit"
      /\ L!Post(r) /\ UNCHANGED <<store, lapsed, payments, sub, refunding>>
    BY <1>1, <1>3 DEF Row, Spend, L!Rows, L!Types, LedgerKeys
<1>5. /\ ledger' = ledger \cup {r} /\ ledger' \subseteq L!Rows
      /\ balance' \in [Users -> Nat] /\ L!OneRowPerKey'
    BY <1>4, RowPosted
<1>6. CreditOK(r)' /\ ReversalOK(r)'
    BY <1>4, OtherKeys DEF CreditOK, ReversalOK
<1>7. /\ \A s \in ledger' : CreditOK(s)' /\ ReversalOK(s)'
      /\ \A row \in payments' : JournalOK(row)'
      /\ \A f \in refunding' : RefundOK(f)'
    BY <1>4, <1>5, <1>6, RowsStay DEF IInv
<1>8. TypeOK' /\ JournalledOnce'
    BY <1>4, <1>5 DEF IInv, TypeOK, JournalledOnce
<1>9. QED
    BY <1>4, <1>5, <1>7, <1>8 DEF IInv, StepOK, L!LedgerNext

\* The client reports a subscription.
LEMMA SyncStep == ASSUME IInv, NEW p \in Purchases, Sync(p) PROVE StepOK
<1>1. /\ p.kind = "subscription" /\ UNCHANGED <<store, lapsed, refunding>>
      /\ RecordAndGrant(Synced(p), "subscription", p, p.user, {SubKey(p)},
           Outcome(Synced(p), "subscription", p, p.user, {SubKey(p)}))
    BY DEF Sync
<1>2. p.user \in Users /\ {SubKey(p)} \subseteq {KeyOf(p)}
    BY <1>1, PurchasesAssumption DEF KeyOf
<1>3. WorldOK'
    BY <1>1, <1>2 DEF Sync, Active, IInv, TypeOK, WorldOK
<1>4. QED
    BY <1>1, <1>2, <1>3, GrantStep

\* The client reports a token pack.
LEMMA PurchaseTokensStep == ASSUME IInv, NEW p \in Purchases, PurchaseTokens(p) PROVE StepOK
<1>1. /\ p.kind = "tokens" /\ UNCHANGED <<store, lapsed, sub, refunding>>
      /\ RecordAndGrant(Synced(p), "tokens", p, p.user, {TokenKey(p)},
           Outcome(Synced(p), "tokens", p, p.user, {TokenKey(p)}))
    BY DEF PurchaseTokens
<1>2. p.user \in Users /\ {TokenKey(p)} \subseteq {KeyOf(p)}
    BY <1>1, PurchasesAssumption DEF KeyOf
<1>3. WorldOK'
    BY <1>1 DEF IInv, TypeOK, WorldOK
<1>4. QED
    BY <1>1, <1>2, <1>3, GrantStep

\* Adapty reports anything but a refund.
LEMMA AdaptyApplyStep == ASSUME IInv, NEW e \in Events, AdaptyApply(e) PROVE StepOK
<1>1. /\ UNCHANGED <<store, lapsed, refunding>>
      /\ RecordAndGrant(Webhook(e), KindOf(e), e.txn, e.user, GrantKey(e),
           Outcome(Webhook(e), KindOf(e), e.txn, e.user, GrantKey(e)))
    BY DEF AdaptyApply
<1>2. e.user \in Users /\ e.txn \in Purchases \cup {NoTxn}
    BY EventsAssumption
<1>3. e.txn /= NoTxn => e.user = e.txn.user /\ GrantKey(e) \subseteq {KeyOf(e.txn)}
    BY ReportsAssumption DEF GrantKey, KeyOf
<1>4. WorldOK'
  <2>1. \/ sub' = [sub EXCEPT ![e.user] = [status |-> "active", plan |-> e.txn]]
        \/ sub' = [sub EXCEPT ![e.user].status = "expired"]
        \/ sub' = sub
      BY DEF AdaptyApply, Active
  <2>2. QED
      BY <1>1, <1>2, <2>1 DEF IInv, TypeOK, WorldOK
<1>5. QED
    BY <1>1, <1>2, <1>3, <1>4, GrantStep

\* What happens around the service.
LEMMA WorldStep ==
    ASSUME IInv, NEW p \in Purchases, Buy(p) \/ StoreRefund(p) \/ Lapse(p)
    PROVE  StepOK
<1>1. UNCHANGED <<ledger, balance, payments, sub, refunding>>
    BY DEF Buy, StoreRefund, Lapse
<1>2. WorldOK'
    BY <1>1 DEF Buy, StoreRefund, Lapse, IInv, TypeOK, WorldOK
<1>3. \A f \in refunding' : RefundOK(f)'
    BY <1>1, RowsStay DEF IInv
<1>4. QED
    BY <1>1, <1>2, <1>3, PlainStep

-----------------------------------------------------------------------------
(* The invariant, and what follows from it.                                *)

\* The initial state satisfies the inductive invariant and is one of the ledger.
LEMMA InitIInv == Init => IInv /\ L!LedgerInit
<1> SUFFICES ASSUME Init PROVE IInv
    BY DEF Init
<1>1. ledger = {} /\ payments = {} /\ refunding = {}
    BY DEF Init, L!LedgerInit
<1>2. TypeOK
    BY <1>1 DEF Init, L!LedgerInit, TypeOK
<1>3. QED
    BY <1>1, <1>2 DEF IInv, L!OneRowPerKey, JournalledOnce

\* Every step preserves it and is a step of the ledger or none.
LEMMA NextStep == IInv /\ [Next]_vars => StepOK
<1> SUFFICES ASSUME IInv, [Next]_vars PROVE StepOK
    OBVIOUS
<1>1. CASE UNCHANGED vars
  <2>1. UNCHANGED <<store, lapsed, ledger, balance, payments, sub, refunding>>
      BY <1>1 DEF vars
  <2>2. WorldOK' /\ \A f \in refunding' : RefundOK(f)'
      BY <2>1, RowsStay DEF IInv, TypeOK, WorldOK
  <2>3. QED
      BY <2>1, <2>2, PlainStep
<1>2. ASSUME NEW p \in Purchases, Buy(p) \/ StoreRefund(p) \/ Lapse(p)
      PROVE  StepOK
    BY <1>2, WorldStep
<1>3. ASSUME NEW p \in Purchases, Sync(p) \/ PurchaseTokens(p) PROVE StepOK
    BY <1>3, SyncStep, PurchaseTokensStep
<1>4. ASSUME NEW p \in Purchases, SyncRevoked(p) PROVE StepOK
    BY <1>4, RefundReadStep, PurchasesAssumption DEF SyncRevoked
<1>5. ASSUME NEW e \in Events, AdaptyApply(e) PROVE StepOK
    BY <1>5, AdaptyApplyStep
<1>6. ASSUME NEW e \in Events, AdaptyRefund(e) PROVE StepOK
    BY <1>6, RefundReadStep, EventsAssumption DEF AdaptyRefund
<1>7. ASSUME NEW f \in refunding, RefundWrite(f) PROVE StepOK
    BY <1>7, RefundWriteStep
<1>8. ASSUME NEW f \in refunding, RefundAbort(f) PROVE StepOK
  <2>1. /\ UNCHANGED <<store, lapsed, ledger, balance, payments, sub>>
        /\ refunding' \subseteq refunding
      BY <1>8 DEF RefundAbort
  <2>2. WorldOK'
      BY <2>1 DEF IInv, TypeOK, WorldOK
  <2>3. \A e \in refunding' : RefundOK(e)'
      BY <2>1, RowsStay DEF IInv
  <2>4. QED
      BY <2>1, <2>2, <2>3, PlainStep
<1>9. ASSUME NEW u \in Users, NEW g \in Spends, NEW amount \in 1..balance[u],
             Spend(u, g, amount)
      PROVE  StepOK
    BY <1>9, SpendStep
<1>10. QED
    BY <1>1, <1>2, <1>3, <1>4, <1>5, <1>6, <1>7, <1>8, <1>9 DEF Next

\* Every reachable state satisfies the inductive invariant.
LEMMA Invariance == Spec => []IInv
<1>1. IInv /\ [Next]_vars => IInv'
    BY NextStep DEF StepOK
<1>2. QED
    BY <1>1, InitIInv, PTL DEF Spec

\* Every row is well formed, and no journal row is left unfinished.
THEOREM PaymentsTypeCorrect == Spec => []TypeOK
<1>1. IInv => TypeOK
    BY DEF IInv
<1>2. QED
    BY <1>1, Invariance, PTL

\* A purchase reported through both channels, however often, is granted once:
\* it has one grant key, and the ledger one row per key.
THEOREM GrantedOnceHolds == Spec => []GrantedOnce
<1>1. IInv => GrantedOnce
  <2> SUFFICES ASSUME IInv, NEW p \in Purchases
               PROVE  Cardinality(Credits(p.user, p)) <= 1
      BY DEF GrantedOnce
  <2>1. \A r \in Credits(p.user, p) : r \in ledger /\ r.user = p.user /\ r.key = KeyOf(p)
      BY GrantKeys DEF IInv, CreditOK, Credits
  <2>2. \A r, q \in Credits(p.user, p) : r = q
      BY <2>1 DEF IInv, L!OneRowPerKey
  <2>3. CASE Credits(p.user, p) = {}
      BY <2>3, FS_EmptySet
  <2>4. CASE Credits(p.user, p) /= {}
    <3>1. PICK r : Credits(p.user, p) = {r}
        BY <2>2, <2>4
    <3>2. QED
        BY <3>1, FS_Singleton
  <2>5. QED
      BY <2>3, <2>4
<1>2. QED
    BY <1>1, Invariance, PTL

\* Every purchase credit of the ledger is a granted row of the journal, and the
\* other way round, with one amount.
THEOREM JournalMatchesLedgerHolds == Spec => []JournalMatchesLedger
<1>1. IInv => JournalMatchesLedger
  <2> SUFFICES ASSUME IInv PROVE JournalMatchesLedger
      OBVIOUS
  <2>1. ASSUME NEW row \in payments, row.status = "granted"
        PROVE  \E r \in Credits(row.user, row.txn) : r.amount = row.moved
    <3>1. JournalOK(row) /\ GrantRow(row)
        BY <2>1 DEF IInv, GrantRow
    <3>2. QED
        BY <3>1, GrantKeys DEF JournalOK, Credits, L!RowsAt
  <2>2. ASSUME NEW row \in payments, NEW other \in payments,
               row.status = "granted", other.status = "granted", row.txn = other.txn
        PROVE  row = other
      BY <2>2 DEF IInv, JournalledOnce, GrantRow
  <2>3. ASSUME NEW p \in Purchases, Credits(p.user, p) /= {}
        PROVE  \E row \in payments : row.status = "granted" /\ row.txn = p
    <3>1. PICK r \in ledger : r.type = "credit" /\ r.key \in AppleGrantKeys(p)
        BY <2>3 DEF Credits
    <3>2. QED
        BY <3>1, GrantKeys DEF IInv, CreditOK, GrantRow
  <2>4. QED
      BY <2>1, <2>2, <2>3 DEF JournalMatchesLedger
<1>2. QED
    BY <1>1, Invariance, PTL

\* However a refund races with grants, spends and the refund of the other
\* channel, it takes back at most what the purchase granted.
THEOREM ReversalBoundedHolds == Spec => []ReversalBounded
<1>1. IInv => ReversalBounded
    BY DEF IInv, ReversalOK, ReversalBounded, L!RowsAt
<1>2. QED
    BY <1>1, Invariance, PTL

\* The journal moves money through the ledger only: every grant, reversal and
\* spend posts one row, every other step posts none.
THEOREM PaymentsUseLedger == Spec => L!LedgerSpec
<1>1. IInv /\ [Next]_vars => [L!LedgerNext]_(L!ledgerVars)
    BY NextStep DEF StepOK
<1>2. QED
    BY <1>1, InitIInv, Invariance, PTL DEF Spec, L!LedgerSpec

=============================================================================
