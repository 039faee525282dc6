---------------------------- MODULE WalletProofs ----------------------------
(***************************************************************************)
(* Proofs about the wallet service for any users, keys, amounts and        *)
(* sessions: the statement-level transactions of module Wallet implement   *)
(* the atomic ledger of module Ledger.                                     *)
(***************************************************************************)
EXTENDS Wallet, Sums, TLAPS

\* What a session has written follows from the statement it is about to run.
WritesMatchPc ==
    \A s \in Sessions :
        /\ pc[s] /= "idle" => op[s].amount > 0
        /\ pc[s] \in {"idle", "ensure"} => ~newWallet[s]
        /\ newRow[s] => pc[s] \in {"update", "commit"}
        /\ pc[s] = "update" => newRow[s]
        /\ moved[s] => pc[s] = "commit"
        /\ pc[s] = "commit" => (newRow[s] <=> moved[s])
        /\ pc[s] = "replay" => RowsAt(ledger, op[s].user, op[s].key) /= {}
        /\ pc[s] = "commit" /\ ~newRow[s] => op[s] \in ledger

\* The unique index: an uncommitted row owns its key alone.
KeyOwned ==
    \A s \in Sessions : newRow[s] =>
        /\ RowsAt(ledger, op[s].user, op[s].key) = {}
        /\ \A t \in Sessions \ {s} : ~HoldsLedgerKey(t, op[s].user, op[s].key)

\* The row lock: an uncommitted balance update owns its wallet alone, so the
\* balance it was checked against is still the committed one.
WalletOwned ==
    \A s \in Sessions : moved[s] =>
        /\ op[s].type = "debit" => balance[op[s].user] >= op[s].amount
        /\ \A t \in Sessions \ {s} : ~(moved[t] /\ op[t].user = op[s].user)

IInv ==
    /\ WalletTypeOK
    /\ WritesMatchPc
    /\ KeyOwned
    /\ WalletOwned
    /\ NonNegative
    /\ OneRowPerKey
    /\ AnswersAreTrue
    /\ AuditMatchesLedger

-----------------------------------------------------------------------------

\* The initial state satisfies the inductive invariant.
LEMMA InitIInv == WalletInit => IInv
<1> SUFFICES ASSUME WalletInit PROVE IInv
    OBVIOUS
<1>1. (CHOOSE c \in Calls : TRUE) \in Calls
    BY CallsAssumption
<1>2. WalletTypeOK
    BY <1>1 DEF WalletInit, LedgerInit, WalletTypeOK, Results
<1>3. QED
    BY <1>2 DEF WalletInit, LedgerInit, IInv, WritesMatchPc, KeyOwned, WalletOwned,
                NonNegative, OneRowPerKey, AnswersAreTrue, AuditMatchesLedger

\* A call with a positive amount is a ledger row, and a row a call.
LEMMA CallIsRow == \A c \in Calls : c.amount > 0 => c \in Rows
    BY DEF Calls, Rows

\* A rollback, whatever its cause, preserves the inductive invariant: the
\* session gives up its locks and publishes nothing.
LEMMA AbortIInv ==
    ASSUME IInv, NEW s \in Sessions, NEW res \in Results,
           res \notin {"done", "replay"},
           res = "conflict" => /\ op[s] \notin ledger
                               /\ RowsAt(ledger, op[s].user, op[s].key) /= {},
           Abort(s, res)
    PROVE  IInv'
<1> USE DEF Abort, EndCall, Proceed
<1>1. WalletTypeOK'
    BY DEF IInv, WalletTypeOK
<1>2. WritesMatchPc'
    BY DEF IInv, WalletTypeOK, WritesMatchPc, RowsAt
<1>3. KeyOwned'
    BY DEF IInv, WalletTypeOK, KeyOwned, HoldsLedgerKey, RowsAt
<1>4. WalletOwned'
    BY DEF IInv, WalletTypeOK, WalletOwned
<1>5. NonNegative' /\ OneRowPerKey' /\ AuditMatchesLedger'
    BY DEF IInv, NonNegative, OneRowPerKey, AuditMatchesLedger
<1>6. AnswersAreTrue'
    BY DEF IInv, WalletTypeOK, AnswersAreTrue, RowsAt
<1>7. QED
    BY <1>1, <1>2, <1>3, <1>4, <1>5, <1>6 DEF IInv

\* Every step of the wallet preserves the inductive invariant.
LEMMA NextIInv == IInv /\ [WalletNext]_walletVars => IInv'
<1> SUFFICES ASSUME IInv, [WalletNext]_walletVars PROVE IInv'
    OBVIOUS
<1>1. ASSUME NEW s \in Sessions, NEW c \in Calls, Begin(s, c)
      PROVE  IInv'
  <2> USE <1>1 DEF Begin, Proceed
  <2>1. WalletTypeOK'
      BY DEF IInv, WalletTypeOK, Results
  <2>2. WritesMatchPc'
      BY AmountsAssumption DEF IInv, WalletTypeOK, WritesMatchPc, RowsAt, Calls
  <2>3. KeyOwned'
      BY DEF IInv, WalletTypeOK, WritesMatchPc, KeyOwned, HoldsLedgerKey, RowsAt
  <2>4. WalletOwned'
      BY DEF IInv, WalletTypeOK, WritesMatchPc, WalletOwned
  <2>5. NonNegative' /\ OneRowPerKey' /\ AuditMatchesLedger'
      BY DEF IInv, NonNegative, OneRowPerKey, AuditMatchesLedger
  <2>6. AnswersAreTrue'
      BY DEF IInv, WalletTypeOK, AnswersAreTrue, RowsAt
  <2>7. QED
      BY <2>1, <2>2, <2>3, <2>4, <2>5, <2>6 DEF IInv
<1>2. ASSUME NEW s \in Sessions, EnsureWallet(s)
      PROVE  IInv'
  <2> USE <1>2 DEF EnsureWallet, Proceed
  <2>1. WalletTypeOK'
      BY DEF IInv, WalletTypeOK
  <2>2. WritesMatchPc'
      BY DEF IInv, WalletTypeOK, WritesMatchPc, RowsAt
  <2>3. KeyOwned' /\ WalletOwned'
      BY DEF IInv, WalletTypeOK, KeyOwned, WalletOwned, HoldsLedgerKey, RowsAt
  <2>4. NonNegative' /\ OneRowPerKey' /\ AuditMatchesLedger' /\ AnswersAreTrue'
      BY DEF IInv, NonNegative, OneRowPerKey, AuditMatchesLedger,
             AnswersAreTrue, RowsAt
  <2>5. QED
      BY <2>1, <2>2, <2>3, <2>4 DEF IInv
<1>3. ASSUME NEW s \in Sessions, InsertLedger(s)
      PROVE  IInv'
  <2> USE <1>3 DEF InsertLedger, Proceed
  <2>1. WalletTypeOK'
      BY DEF IInv, WalletTypeOK
  <2>2. WritesMatchPc'
      BY ZenonT(40) DEF IInv, WalletTypeOK, WritesMatchPc, RowsAt
  <2>3. KeyOwned'
      BY DEF IInv, WalletTypeOK, KeyOwned, HoldsLedgerKey, RowsAt
  <2>4. WalletOwned'
      BY DEF IInv, WalletTypeOK, WalletOwned
  <2>5. NonNegative' /\ OneRowPerKey' /\ AuditMatchesLedger' /\ AnswersAreTrue'
      BY DEF IInv, NonNegative, OneRowPerKey, AuditMatchesLedger,
             AnswersAreTrue, RowsAt
  <2>6. QED
      BY <2>1, <2>2, <2>3, <2>4, <2>5 DEF IInv
<1>4. ASSUME NEW s \in Sessions, ReplayOrConflict(s)
      PROVE  IInv'
  <2>1. CASE op[s] \in ledger
    <3> USE <1>4, <2>1 DEF ReplayOrConflict, Proceed
    <3>1. WalletTypeOK'
        BY DEF IInv, WalletTypeOK
    <3>2. WritesMatchPc'
        BY DEF IInv, WalletTypeOK, WritesMatchPc, RowsAt
    <3>3. KeyOwned' /\ WalletOwned'
        BY DEF IInv, WalletTypeOK, KeyOwned, WalletOwned, HoldsLedgerKey, RowsAt
    <3>4. NonNegative' /\ OneRowPerKey' /\ AuditMatchesLedger' /\ AnswersAreTrue'
        BY DEF IInv, NonNegative, OneRowPerKey, AuditMatchesLedger,
               AnswersAreTrue, RowsAt
    <3>5. QED
        BY <3>1, <3>2, <3>3, <3>4 DEF IInv
  <2>2. CASE op[s] \notin ledger
    <3>1. Abort(s, "conflict")
        BY <1>4, <2>2 DEF ReplayOrConflict
    <3>2. RowsAt(ledger, op[s].user, op[s].key) /= {}
        BY <1>4 DEF IInv, WritesMatchPc, ReplayOrConflict
    <3>3. QED
        BY <2>2, <3>1, <3>2, AbortIInv DEF Results
  <2>3. QED
      BY <2>1, <2>2
<1>5. ASSUME NEW s \in Sessions, UpdateWallet(s)
      PROVE  IInv'
  <2>1. CASE UpdateMatches(s)
    <3> USE <1>5, <2>1 DEF UpdateWallet, Proceed
    <3>1. WalletTypeOK'
        BY DEF IInv, WalletTypeOK
    <3>2. WritesMatchPc'
        BY DEF IInv, WalletTypeOK, WritesMatchPc, RowsAt
    <3>3. KeyOwned'
        BY DEF IInv, WalletTypeOK, KeyOwned, HoldsLedgerKey, RowsAt
    <3>4. WalletOwned'
        BY DEF IInv, WalletTypeOK, WalletOwned, UpdateMatches, HoldsWalletRow
    <3>5. NonNegative' /\ OneRowPerKey' /\ AuditMatchesLedger' /\ AnswersAreTrue'
        BY DEF IInv, NonNegative, OneRowPerKey, AuditMatchesLedger,
               AnswersAreTrue, RowsAt
    <3>6. QED
        BY <3>1, <3>2, <3>3, <3>4, <3>5 DEF IInv
  <2>2. CASE ~UpdateMatches(s)
      BY <1>5, <2>2, AbortIInv DEF UpdateWallet, Results
  <2>3. QED
      BY <2>1, <2>2
<1>6. ASSUME NEW s \in Sessions, Commit(s)
      PROVE  IInv'
  <2>1. CASE newRow[s]
    <3> DEFINE r == op[s]
    <3>1. /\ moved[s]
          /\ r \in Calls
          /\ r \in Rows
          /\ r.user \in Users /\ r.amount \in Int /\ r.amount > 0
          /\ RowsAt(ledger, r.user, r.key) = {}
          /\ ledger' = ledger \cup {r}
          /\ audit' = audit \cup {r}
          /\ balance' = [balance EXCEPT ![r.user] = @ + Signed(r)]
        BY <1>6, <2>1, CallIsRow, AmountsAssumption
        DEF Commit, IInv, WalletTypeOK, WritesMatchPc, KeyOwned, Calls, BalanceAfter
    <3>2. Signed(r) \in Int /\ balance[r.user] + Signed(r) >= 0
        BY <2>1, <3>1 DEF Signed, IInv, WalletTypeOK, NonNegative, WalletOwned, Calls,
                          Types
    <3>3. WalletTypeOK'
        BY <1>6, <3>1, <3>2 DEF IInv, WalletTypeOK, Commit, EndCall, Proceed, Results
    <3>4. WritesMatchPc'
        BY <1>6, <3>1 DEF IInv, WalletTypeOK, WritesMatchPc, Commit, EndCall, Proceed,
                          RowsAt
    <3>5. KeyOwned'
        BY <1>6, <2>1, <3>1 DEF IInv, WalletTypeOK, KeyOwned, HoldsLedgerKey, Commit,
                                EndCall, Proceed, RowsAt
    <3>6. WalletOwned'
      <4> SUFFICES ASSUME NEW t \in Sessions, moved'[t]
                   PROVE  /\ op'[t].type = "debit"
                               => balance'[op'[t].user] >= op'[t].amount
                          /\ \A q \in Sessions \ {t} :
                                ~(moved'[q] /\ op'[q].user = op'[t].user)
          BY DEF WalletOwned
      <4>1. t /= s /\ moved[t] /\ op' = op
          BY <1>6 DEF Commit, EndCall, IInv, WalletTypeOK
      <4>2. op[t].user /= r.user
          BY <3>1, <4>1 DEF IInv, WalletOwned
      <4>3. op[t] \in Calls /\ balance'[op[t].user] = balance[op[t].user]
          BY <3>1, <4>2 DEF IInv, WalletTypeOK, Calls
      <4>4. QED
          BY <1>6, <4>1, <4>3 DEF IInv, WalletTypeOK, WalletOwned, Commit, EndCall
    <3>7. NonNegative'
        BY <3>1, <3>2 DEF IInv, WalletTypeOK, NonNegative
    <3>8. OneRowPerKey'
        BY <3>1 DEF IInv, OneRowPerKey, RowsAt
    <3>9. AuditMatchesLedger'
        BY <3>1 DEF IInv, AuditMatchesLedger
    <3>10. AnswersAreTrue'
        BY <1>6, <2>1, <3>1 DEF IInv, WalletTypeOK, AnswersAreTrue, RowsAt, Commit,
                                EndCall
    <3>11. QED
        BY <3>3, <3>4, <3>5, <3>6, <3>7, <3>8, <3>9, <3>10 DEF IInv
  <2>2. CASE ~newRow[s]
    <3>1. /\ ~moved[s]
          /\ op[s] \in ledger
          /\ UNCHANGED <<ledger, balance, audit>>
        BY <1>6, <2>2 DEF Commit, IInv, WritesMatchPc, WalletTypeOK
    <3> USE <1>6, <2>2, <3>1 DEF Commit, EndCall, Proceed
    <3>2. WalletTypeOK'
        BY DEF IInv, WalletTypeOK, Calls, Results
    <3>3. WritesMatchPc'
        BY DEF IInv, WalletTypeOK, WritesMatchPc, RowsAt
    <3>4. KeyOwned' /\ WalletOwned'
        BY DEF IInv, WalletTypeOK, KeyOwned, WalletOwned, HoldsLedgerKey, RowsAt
    <3>5. NonNegative' /\ OneRowPerKey' /\ AuditMatchesLedger'
        BY DEF IInv, NonNegative, OneRowPerKey, AuditMatchesLedger
    <3>6. AnswersAreTrue'
        BY DEF IInv, WalletTypeOK, AnswersAreTrue, RowsAt
    <3>7. QED
        BY <3>2, <3>3, <3>4, <3>5, <3>6 DEF IInv
  <2>3. QED
      BY <2>1, <2>2
<1>7. ASSUME NEW s \in Sessions, Rollback(s)
      PROVE  IInv'
    BY <1>7, AbortIInv DEF Rollback, Results
<1>8. CASE UNCHANGED walletVars
    BY <1>8 DEF walletVars, sessionVars, IInv, WalletTypeOK, WritesMatchPc, KeyOwned,
                WalletOwned, NonNegative, OneRowPerKey, AnswersAreTrue,
                AuditMatchesLedger, HoldsLedgerKey, RowsAt
<1>9. QED
    BY <1>1, <1>2, <1>3, <1>4, <1>5, <1>6, <1>7, <1>8 DEF WalletNext, Step

-----------------------------------------------------------------------------

\* The inductive invariant holds in every reachable state of the wallet.
LEMMA Invariance == WalletSpec => []IInv
    BY InitIInv, NextIInv, PTL DEF WalletSpec

\* Every variable of the wallet, the uncommitted writes included, keeps its
\* type, so no row with an amount <= 0 reaches the ledger.
THEOREM TypeCorrect == WalletSpec => []WalletTypeOK
<1>1. IInv => WalletTypeOK
    BY DEF IInv
<1>2. QED
    BY <1>1, Invariance, PTL

\* No interleaving of debits, for any number of sessions, drives a balance
\* below zero: UPDATE ... WHERE balance >= amount needs no SELECT FOR UPDATE.
THEOREM NeverNegative == WalletSpec => []NonNegative
<1>1. IInv => NonNegative
    BY DEF IInv
<1>2. QED
    BY <1>1, Invariance, PTL

\* An idempotency key posts at most one row, however many sessions race to
\* insert it.
THEOREM KeyPostsOnce == WalletSpec => []OneRowPerKey
<1>1. IInv => OneRowPerKey
    BY DEF IInv
<1>2. QED
    BY <1>1, Invariance, PTL

\* What consume and grant answer is what the ledger holds.
THEOREM AnswersHold == WalletSpec => []AnswersAreTrue
<1>1. IInv => AnswersAreTrue
    BY DEF IInv
<1>2. QED
    BY <1>1, Invariance, PTL

\* The audit trail and the ledger are never apart.
THEOREM AuditComplete == WalletSpec => []AuditMatchesLedger
<1>1. IInv => AuditMatchesLedger
    BY DEF IInv
<1>2. QED
    BY <1>1, Invariance, PTL

\* The statement-level wallet implements the atomic ledger: a commit posts one
\* new row and moves exactly its amount, and nothing else is visible.
THEOREM WalletImplementsLedger == WalletSpec => LedgerSpec
<1>1. WalletInit => LedgerInit
    BY DEF WalletInit
<1>2. IInv /\ [WalletNext]_walletVars => [LedgerNext]_ledgerVars
  <2> SUFFICES ASSUME IInv, [WalletNext]_walletVars PROVE [LedgerNext]_ledgerVars
      OBVIOUS
  <2>1. ASSUME NEW s \in Sessions, Commit(s), newRow[s]
        PROVE  LedgerNext
    <3>1. /\ moved[s]
          /\ op[s] \in Rows
          /\ RowsAt(ledger, op[s].user, op[s].key) = {}
          /\ op[s].type = "debit" => balance[op[s].user] >= op[s].amount
        BY <2>1, CallIsRow DEF Commit, IInv, WalletTypeOK, WritesMatchPc, KeyOwned,
                               WalletOwned
    <3>2. Post(op[s])
        BY <2>1, <3>1 DEF Post, Commit
    <3>3. QED
        BY <3>1, <3>2 DEF LedgerNext
  <2>2. ASSUME NEW s \in Sessions, Commit(s), ~newRow[s]
        PROVE  UNCHANGED ledgerVars
      BY <2>2 DEF Commit, IInv, WalletTypeOK, WritesMatchPc, ledgerVars
  <2>3. ASSUME NEW s \in Sessions,
               \/ \E c \in Calls : Begin(s, c)
               \/ EnsureWallet(s)
               \/ InsertLedger(s)
               \/ ReplayOrConflict(s)
               \/ UpdateWallet(s)
               \/ Rollback(s)
        PROVE  UNCHANGED ledgerVars
      BY <2>3 DEF Begin, EnsureWallet, InsertLedger, ReplayOrConflict,
                  UpdateWallet, Rollback, Abort, ledgerVars
  <2>4. CASE UNCHANGED walletVars
      BY <2>4 DEF walletVars, ledgerVars
  <2>5. QED
      BY <2>1, <2>2, <2>3, <2>4 DEF WalletNext, Step
<1>3. QED
    BY <1>1, <1>2, Invariance, PTL DEF WalletSpec, LedgerSpec

-----------------------------------------------------------------------------
(* The ledger and its sum.                                                 *)

\* The signed amounts as a function, which the sums of module Sums are of.
SignedAmounts == [r \in Rows |-> Signed(r)]

\* What a set of rows adds up to.
LEMMA SumOfRows ==
    ASSUME NEW B \in SUBSET Rows, IsFiniteSet(B)
    PROVE  MapThenSumSet(Signed, B) = SumOf(SignedAmounts, B)
<1> DEFINE Recurs(g) == g = [s \in SUBSET B |->
                IF s = {} THEN 0 ELSE Signed(Some(s)) + g[s \ {Some(s)}]]
<1>1. MapThenSumSet(Signed, B) = (CHOOSE g : Recurs(g))[B]
  BY DEF MapThenSumSet, MapThenFoldSet, Some
<1>2. \A s \in SUBSET B : s /= {} => Signed(Some(s)) = SignedAmounts[Some(s)]
  BY SomeIsIn DEF SignedAmounts
<1>3. \A g : Recurs(g) <=> Adds(g, SignedAmounts, B)
  BY <1>2 DEF Adds
<1>4. PICK h : Adds(h, SignedAmounts, B)
  BY SumExists
<1>5. Recurs(CHOOSE g : Recurs(g))
  <2> HIDE DEF Recurs
  <2>1. Recurs(h)
    BY <1>3, <1>4
  <2> QED
    BY <2>1, Zenon
<1> HIDE DEF Recurs
<1>6. PICK g : g = (CHOOSE f : Recurs(f))
  OBVIOUS
<1>7. Adds(g, SignedAmounts, B)
  BY <1>3, <1>5, <1>6
<1> QED
  BY <1>1, <1>6, <1>7, SumIsUnique

\* The balances are sums of finitely many rows.
LedgerIInv ==
    /\ ledger \subseteq Rows /\ IsFiniteSet(ledger)
    /\ balance \in [Users -> Int]
    /\ BalanceIsLedgerSum

\* A posted row moves the balance of its user by its amount, and no other.
LEMMA PostAddsUp == ASSUME LedgerIInv, NEW r \in Rows, Post(r) PROVE LedgerIInv'
<1> DEFINE Of(u) == {q \in ledger : q.user = u}
<1>1. /\ ledger' = ledger \cup {r} /\ r \notin ledger
      /\ balance' = [balance EXCEPT ![r.user] = @ + Signed(r)]
  BY DEF Post, BalanceAfter, RowsAt
<1>2. \A q \in Rows : Signed(q) \in Int /\ SignedAmounts[q] = Signed(q)
  <2>1. ASSUME NEW q \in Rows PROVE Signed(q) \in Int
    <3>1. q.amount \in Int
      BY AmountsAssumption DEF Rows
    <3> QED
      BY <3>1 DEF Signed
  <2> QED
    BY <2>1 DEF SignedAmounts
<1>3. /\ ledger' \subseteq Rows /\ IsFiniteSet(ledger')
      /\ r.user \in Users /\ balance' \in [Users -> Int]
  <2>1. IsFiniteSet(ledger')
    BY <1>1, FS_AddElement DEF LedgerIInv
  <2>2. r.user \in Users
    BY DEF Rows
  <2> QED
    BY <1>1, <1>2, <2>1, <2>2 DEF LedgerIInv
<1>4. ASSUME NEW u \in Users
      PROVE  balance'[u] = MapThenSumSet(Signed, {q \in ledger' : q.user = u})
  <2>1. PICK B : B = Of(u)
    OBVIOUS
  <2>2. /\ B \in SUBSET Rows /\ IsFiniteSet(B)
        /\ balance[u] = SumOf(SignedAmounts, B)
    <3>1. B \in SUBSET Rows /\ IsFiniteSet(B)
      BY <2>1, FS_Subset DEF LedgerIInv
    <3>2. balance[u] = MapThenSumSet(Signed, B)
      BY <2>1 DEF LedgerIInv, BalanceIsLedgerSum
    <3> QED
      BY <3>1, <3>2, SumOfRows
  <2>3. PICK C : C = {q \in ledger' : q.user = u}
    OBVIOUS
  <2>4. C = (IF u = r.user THEN B \cup {r} ELSE B) /\ r \notin B
    BY <1>1, <2>1, <2>3
  <2>5. C \in SUBSET Rows /\ IsFiniteSet(C)
    BY <1>3, <2>3, FS_Subset
  <2>6. MapThenSumSet(Signed, C) = SumOf(SignedAmounts, C)
    BY <2>5, SumOfRows
  <2>7. \A q \in B : SignedAmounts[q] \in Int
    BY <1>2, <2>2
  <2>8. SumOf(SignedAmounts, B \cup {r}) = SumOf(SignedAmounts, B) + Signed(r)
    BY <1>2, <2>2, <2>4, <2>7, SumAdd
  <2>9. balance'[u] = SumOf(SignedAmounts, C)
    <3>1. CASE u = r.user
      BY <1>1, <2>2, <2>4, <2>8, <3>1 DEF LedgerIInv
    <3>2. CASE u /= r.user
      BY <1>1, <2>2, <2>4, <3>2 DEF LedgerIInv
    <3> QED
      BY <3>1, <3>2
  <2> QED
    BY <2>3, <2>6, <2>9
<1> QED
  BY <1>3, <1>4 DEF LedgerIInv, BalanceIsLedgerSum

\* Whoever moves money by posting rows, as every refinement of the ledger
\* does, keeps the balances the sums of the rows.
THEOREM LedgerAddsUp == LedgerSpec => []BalanceIsLedgerSum
<1>1. LedgerInit => LedgerIInv
  <2> SUFFICES ASSUME LedgerInit PROVE LedgerIInv
    OBVIOUS
  <2>1. ledger = {} /\ balance = [u \in Users |-> 0] /\ IsFiniteSet({})
    BY FS_EmptySet DEF LedgerInit
  <2>2. MapThenSumSet(Signed, {}) = 0
    <3>1. MapThenSumSet(Signed, {}) = SumOf(SignedAmounts, {})
      BY <2>1, SumOfRows
    <3> QED
      BY <3>1, SumEmpty
  <2>3. \A u \in Users : {r \in ledger : r.user = u} = {}
    BY <2>1
  <2>4. BalanceIsLedgerSum
    BY <2>1, <2>2, <2>3 DEF BalanceIsLedgerSum
  <2> QED
    BY <2>1, <2>4 DEF LedgerIInv
<1>2. LedgerIInv /\ [LedgerNext]_ledgerVars => LedgerIInv'
  <2> SUFFICES ASSUME LedgerIInv, [LedgerNext]_ledgerVars PROVE LedgerIInv'
    OBVIOUS
  <2>1. CASE LedgerNext
    BY <2>1, PostAddsUp DEF LedgerNext
  <2>2. CASE UNCHANGED ledgerVars
    BY <2>2 DEF ledgerVars, LedgerIInv, BalanceIsLedgerSum
  <2> QED
    BY <2>1, <2>2
<1>3. LedgerIInv => BalanceIsLedgerSum
  BY DEF LedgerIInv
<1> QED
  BY <1>1, <1>2, <1>3, PTL DEF LedgerSpec

\* No lost update, no half-written movement: whatever transactions race and
\* roll back, a committed balance is what the committed rows add up to.
THEOREM BalanceAddsUp == WalletSpec => []BalanceIsLedgerSum
  BY WalletImplementsLedger, LedgerAddsUp, PTL

=============================================================================
