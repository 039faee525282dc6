----------------------------- MODULE MCBilling -----------------------------
(***************************************************************************)
(* The wallet's transactions and the jobs that bill through it: the        *)
(* instances of Wallet and Answers for one run of TLC with fairness.       *)
(* Answers posts to the ledger in one step, which Wallet implements; the   *)
(* modules share no variable, and a behaviour is one of one of them,       *)
(* `part', while the other rests.                                          *)
(***************************************************************************)
EXTENDS Wallet, Answers

CONSTANTS m1, w1, w2, t1, u1, k1, k2, k3, s1, s2

VARIABLE part

MCAmounts == {0, 1}

BillingInit == part \in {"wallet", "answers"} /\ WalletInit /\ Init

BillingNext ==
    /\ UNCHANGED part
    /\ \/ part = "wallet" /\ WalletNext /\ UNCHANGED vars
       \/ part = "answers" /\ Next /\ UNCHANGED walletVars

\* WalletFairness and Answers' Fairness, of the part that runs.  As only one of
\* the two ever moves, the strong fairness of a session and that of a run are one
\* condition: TLC's work doubles with each.
Resumes(s, r) ==
    \/ part = "wallet" /\ Step(s) /\ UNCHANGED <<part, vars>>
    \/ part = "answers" /\ Claimed(r) /\ UNCHANGED <<part, walletVars>>

BillingSpec ==
    /\ BillingInit /\ [][BillingNext]_<<part, walletVars, vars>>
    /\ GoOn
    /\ SF_<<walletVars, vars>>(Resumes(s1, <<m1, 1>>))
    /\ SF_<<walletVars, vars>>(Resumes(s2, <<m1, 2>>))

\* Every transaction, question, job and run is well formed.
BillingTypeOK == WalletTypeOK /\ TypeOK

=============================================================================
