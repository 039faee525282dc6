------------------------------- MODULE Ledger -------------------------------
(***************************************************************************)
(* What the wallet promises its callers: the ledger of posted rows and the *)
(* balances change together, in one step, at most once per idempotency     *)
(* key, and never below zero.                                              *)
(*                                                                         *)
(* The wallet service that keeps this promise over several SQL statements  *)
(* and concurrent transactions is module Wallet.                           *)
(***************************************************************************)
EXTENDS Integers, FiniteSetsExt

CONSTANTS Users,
          Keys,      \* idempotency keys
          Amounts    \* the amounts callers pass; may hold values <= 0

ASSUME AmountsAssumption == Amounts \subseteq Int

VARIABLES ledger,   \* committed rows of ledger_transactions
          balance   \* committed wallets.balance; 0 for a user without a row

ledgerVars == <<ledger, balance>>

Types == {"credit", "debit"}

\* CHECK ck_ledger_amount_positive is the type of the amount column.
Rows == [user: Users, key: Keys, type: Types, amount: {a \in Amounts : a > 0}]

\* The rows that hold ux_ledger_idempotency (user_id, idempotency_key).
RowsAt(rows, u, k) == {r \in rows : r.user = u /\ r.key = k}

Signed(r) == IF r.type = "credit" THEN r.amount ELSE -r.amount

BalanceAfter(bal, r) == [bal EXCEPT ![r.user] = @ + Signed(r)]

-----------------------------------------------------------------------------

LedgerInit ==
    /\ ledger = {}
    /\ balance = [u \in Users |-> 0]

Post(r) ==
    /\ RowsAt(ledger, r.user, r.key) = {}
    /\ r.type = "debit" => balance[r.user] >= r.amount
    /\ ledger' = ledger \cup {r}
    /\ balance' = BalanceAfter(balance, r)

LedgerNext == \E r \in Rows : Post(r)

LedgerSpec == LedgerInit /\ [][LedgerNext]_ledgerVars

-----------------------------------------------------------------------------

(***************************************************************************)
(* The balance a user sees is exactly what the ledger rows add up to:      *)
(* wallet/service.py calls a state where it is not "already broken".       *)
(***************************************************************************)
BalanceIsLedgerSum ==
    \A u \in Users :
        balance[u] = MapThenSumSet(Signed, {r \in ledger : r.user = u})

(***************************************************************************)
(* CHECK (balance >= 0) is never what stops a debit: no committed balance  *)
(* is negative, whatever debits raced for it.                              *)
(***************************************************************************)
NonNegative == \A u \in Users : balance[u] >= 0

(***************************************************************************)
(* One idempotency key moves money once: two committed rows of one user    *)
(* never share a key.                                                      *)
(***************************************************************************)
OneRowPerKey ==
    \A r, q \in ledger : r.user = q.user /\ r.key = q.key => r = q

=============================================================================
