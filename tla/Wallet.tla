------------------------------- MODULE Wallet -------------------------------
(***************************************************************************)
(* wallet/service.py: consume and grant, statement by statement.           *)
(*                                                                         *)
(* A session is one database transaction of a caller (a request or a       *)
(* worker).  Between its statements every other session may run; what it   *)
(* wrote is private until Commit and blocks, as PostgreSQL blocks, a       *)
(* statement of another session that needs the same unique key or row.     *)
(* A session may roll back after any statement: the service raised, the    *)
(* caller raised, or the process died.                                     *)
(***************************************************************************)
EXTENDS Ledger

CONSTANT Sessions

VARIABLES wallets,    \* users with a committed wallets row
          audit,      \* committed billing_debit / billing_credit records
          pc,         \* the statement each session runs next
          op,         \* the call's arguments
          newWallet,  \* did the session insert the wallets row?
          newRow,     \* did it insert the ledger row?
          moved,      \* did it update the balance and log the audit record?
          result      \* what the last finished call returned or raised

sessionVars == <<pc, op, newWallet, newRow, moved, result>>
walletVars == <<ledger, balance, wallets, audit, sessionVars>>

Calls == [user: Users, key: Keys, type: Types, amount: Amounts]

ASSUME CallsAssumption == Calls /= {}

Results == {"none", "done", "replay", "conflict", "insufficient",
            "invalid", "rolled_back"}

WalletTypeOK ==
    /\ ledger \subseteq Rows
    /\ balance \in [Users -> Int]
    /\ wallets \subseteq Users
    /\ audit \subseteq Rows
    /\ pc \in [Sessions -> {"idle", "ensure", "insert", "replay", "update",
                            "commit"}]
    /\ op \in [Sessions -> Calls]
    /\ newWallet \in [Sessions -> BOOLEAN]
    /\ newRow \in [Sessions -> BOOLEAN]
    /\ moved \in [Sessions -> BOOLEAN]
    /\ result \in [Sessions -> Results]

-----------------------------------------------------------------------------
(* Locks: what the uncommitted writes of session t make others wait for.   *)

HoldsWalletInsert(t, u) == newWallet[t] /\ op[t].user = u

HoldsLedgerKey(t, u, k) == newRow[t] /\ op[t].user = u /\ op[t].key = k

HoldsWalletRow(t, u) == (newWallet[t] \/ moved[t]) /\ op[t].user = u

-----------------------------------------------------------------------------

WalletInit ==
    /\ LedgerInit
    /\ wallets = {}
    /\ audit = {}
    /\ pc = [s \in Sessions |-> "idle"]
    /\ op = [s \in Sessions |-> CHOOSE c \in Calls : TRUE]
    /\ newWallet = [s \in Sessions |-> FALSE]
    /\ newRow = [s \in Sessions |-> FALSE]
    /\ moved = [s \in Sessions |-> FALSE]
    /\ result = [s \in Sessions |-> "none"]

Proceed(s, l) == pc' = [pc EXCEPT ![s] = l]

\* Variant: the row locks outlive the transaction.
EndCallKeepsLocks(s, res) ==
    /\ Proceed(s, "idle")
    /\ newWallet' = [newWallet EXCEPT ![s] = FALSE]
    /\ moved' = [moved EXCEPT ![s] = FALSE]
    /\ result' = [result EXCEPT ![s] = res]
    /\ UNCHANGED <<op, newRow>>

\* The transaction of s ends: its locks go, and with them what it wrote
\* unless the caller of EndCall publishes it.
EndCall(s, res) ==
    /\ Proceed(s, "idle")
    /\ newWallet' = [newWallet EXCEPT ![s] = FALSE]
    /\ newRow' = [newRow EXCEPT ![s] = FALSE]
    /\ moved' = [moved EXCEPT ![s] = FALSE]
    /\ result' = [result EXCEPT ![s] = res]
    /\ UNCHANGED op

Abort(s, res) ==
    /\ EndCall(s, res)
    /\ UNCHANGED <<ledger, balance, wallets, audit>>

\* Variant: the amount is not validated.
BeginUnchecked(s, c) ==
    /\ pc[s] = "idle"
    /\ op' = [op EXCEPT ![s] = c]
    /\ result' = [result EXCEPT ![s] = "none"]
    /\ Proceed(s, "ensure")
    /\ UNCHANGED <<ledger, balance, wallets, audit, newWallet, newRow, moved>>

\* consume() / grant() is called: an amount <= 0 raises before any SQL.
Begin(s, c) ==
    /\ pc[s] = "idle"
    /\ op' = [op EXCEPT ![s] = c]
    /\ IF c.amount <= 0
         THEN result' = [result EXCEPT ![s] = "invalid"] /\ UNCHANGED pc
         ELSE result' = [result EXCEPT ![s] = "none"] /\ Proceed(s, "ensure")
    /\ UNCHANGED <<ledger, balance, wallets, audit, newWallet, newRow, moved>>

\* INSERT INTO wallets ... ON CONFLICT (user_id) DO NOTHING
EnsureWallet(s) ==
    /\ pc[s] = "ensure"
    /\ \A t \in Sessions \ {s} : ~HoldsWalletInsert(t, op[s].user)
    /\ newWallet' = [newWallet EXCEPT ![s] = op[s].user \notin wallets]
    /\ Proceed(s, "insert")
    /\ UNCHANGED <<ledger, balance, wallets, audit, op, newRow, moved, result>>

\* Variant: SELECT, then INSERT, without the unique index.
InsertLedgerUnindexed(s) ==
    LET taken == RowsAt(ledger, op[s].user, op[s].key) /= {} IN
    /\ pc[s] = "insert"
    /\ newRow' = [newRow EXCEPT ![s] = ~taken]
    /\ Proceed(s, IF taken THEN "replay" ELSE "update")
    /\ UNCHANGED <<ledger, balance, wallets, audit, op, newWallet, moved,
                   result>>

\* INSERT INTO ledger_transactions ... ON CONFLICT DO NOTHING RETURNING id
InsertLedger(s) ==
    LET taken == RowsAt(ledger, op[s].user, op[s].key) /= {} IN
    /\ pc[s] = "insert"
    /\ \A t \in Sessions \ {s} : ~HoldsLedgerKey(t, op[s].user, op[s].key)
    /\ newRow' = [newRow EXCEPT ![s] = ~taken]
    /\ Proceed(s, IF taken THEN "replay" ELSE "update")
    /\ UNCHANGED <<ledger, balance, wallets, audit, op, newWallet, moved,
                   result>>

\* Variant: any row under the key counts as a replay.
ReplayAlways(s) ==
    /\ pc[s] = "replay"
    /\ Proceed(s, "commit")
    /\ UNCHANGED <<ledger, balance, wallets, audit, op, newWallet, newRow,
                   moved, result>>

\* _replay_or_conflict: the key is taken by the same operation or another.
ReplayOrConflict(s) ==
    /\ pc[s] = "replay"
    /\ IF op[s] \in ledger
         THEN /\ Proceed(s, "commit")
              /\ UNCHANGED <<ledger, balance, wallets, audit, op, newWallet,
                             newRow, moved, result>>
         ELSE Abort(s, "conflict")

\* The WHERE clause of the UPDATE, on the row version the lock made current.
UpdateMatches(s) ==
    /\ op[s].user \in wallets \/ newWallet[s]
    /\ op[s].type = "debit" => balance[op[s].user] >= op[s].amount

\* Variant: the balance is checked by a SELECT, outside the row lock.
UpdateWalletUnlocked(s) ==
    /\ pc[s] = "update"
    /\ IF UpdateMatches(s)
         THEN /\ moved' = [moved EXCEPT ![s] = TRUE]
              /\ Proceed(s, "commit")
              /\ UNCHANGED <<ledger, balance, wallets, audit, op, newWallet,
                             newRow, result>>
         ELSE Abort(s, "insufficient")

\* Variant: the audit record is written in a transaction of its own.
UpdateWalletAuditsApart(s) ==
    /\ pc[s] = "update"
    /\ \A t \in Sessions \ {s} : ~HoldsWalletRow(t, op[s].user)
    /\ IF UpdateMatches(s)
         THEN /\ moved' = [moved EXCEPT ![s] = TRUE]
              /\ audit' = audit \cup {op[s]}
              /\ Proceed(s, "commit")
              /\ UNCHANGED <<ledger, balance, wallets, op, newWallet, newRow,
                             result>>
         ELSE Abort(s, "insufficient")

\* Variant: an UPDATE that matched no row is taken for a success.
UpdateWalletUnnoticed(s) ==
    /\ pc[s] = "update"
    /\ \A t \in Sessions \ {s} : ~HoldsWalletRow(t, op[s].user)
    /\ moved' = [moved EXCEPT ![s] = UpdateMatches(s)]
    /\ Proceed(s, "commit")
    /\ UNCHANGED <<ledger, balance, wallets, audit, op, newWallet, newRow,
                   result>>

\* UPDATE wallets SET balance = balance -/+ amount ..., then the audit record
UpdateWallet(s) ==
    /\ pc[s] = "update"
    /\ \A t \in Sessions \ {s} : ~HoldsWalletRow(t, op[s].user)
    /\ IF UpdateMatches(s)
         THEN /\ moved' = [moved EXCEPT ![s] = TRUE]
              /\ Proceed(s, "commit")
              /\ UNCHANGED <<ledger, balance, wallets, audit, op, newWallet,
                             newRow, result>>
         ELSE Abort(s, "insufficient")

\* session.commit(): everything the session wrote becomes visible at once.
Commit(s) ==
    /\ pc[s] = "commit"
    /\ ledger' = IF newRow[s] THEN ledger \cup {op[s]} ELSE ledger
    /\ balance' = IF moved[s] THEN BalanceAfter(balance, op[s]) ELSE balance
    /\ audit' = IF moved[s] THEN audit \cup {op[s]} ELSE audit
    /\ wallets' = IF newWallet[s] THEN wallets \cup {op[s].user} ELSE wallets
    /\ EndCall(s, IF newRow[s] THEN "done" ELSE "replay")

\* The caller raises or its process dies before the commit.
Rollback(s) ==
    /\ pc[s] /= "idle"
    /\ Abort(s, "rolled_back")

Step(s) ==
    \/ EnsureWallet(s)
    \/ InsertLedger(s)
    \/ ReplayOrConflict(s)
    \/ UpdateWallet(s)
    \/ Commit(s)

WalletNext ==
    \E s \in Sessions :
        \/ \E c \in Calls : Begin(s, c)
        \/ Step(s)
        \/ Rollback(s)

\* PostgreSQL wakes the waiters of a lock when its holder ends, so a statement
\* that is unblocked again and again eventually runs; nobody owes the wallet a
\* call or a rollback.
WalletFairness == \A s \in Sessions : SF_walletVars(Step(s))

WalletSpec == WalletInit /\ [][WalletNext]_walletVars

WalletFairSpec == WalletSpec /\ WalletFairness

-----------------------------------------------------------------------------

(***************************************************************************)
(* What a caller was told is what the ledger says: after a success or a    *)
(* replay the very operation it asked for is posted, and a 409 means the   *)
(* key belongs to a different operation.                                   *)
(***************************************************************************)
AnswersAreTrue ==
    \A s \in Sessions :
        /\ result[s] \in {"done", "replay"} => op[s] \in ledger
        /\ result[s] = "conflict" =>
              /\ op[s] \notin ledger
              /\ RowsAt(ledger, op[s].user, op[s].key) /= {}

(***************************************************************************)
(* "Debited but not recorded" and "recorded but not debited" are both      *)
(* unreachable (audit/service.py): the audit trail of money movements is   *)
(* the ledger, whoever rolled back in between.                             *)
(***************************************************************************)
AuditMatchesLedger == audit = ledger

(***************************************************************************)
(* Waiting for a key or a wallet row never lasts: every call that started  *)
(* returns or raises, so the locks of consume and grant cannot deadlock.   *)
(***************************************************************************)
EveryCallEnds ==
    \A s \in Sessions : []<>(pc[s] = "idle")

=============================================================================
