----------------------------- MODULE MCPayments -----------------------------
(* Purchases and events for model checking Payments.                       *)
EXTENDS Payments

S1 == [id |-> "S1", user |-> "u", kind |-> "subscription", credits |-> 2,
       listed |-> TRUE]
T1 == [id |-> "T1", user |-> "u", kind |-> "tokens", credits |-> 1,
       listed |-> TRUE]
X1 == [id |-> "X1", user |-> "u", kind |-> "subscription", credits |-> 1,
       listed |-> FALSE]

Event(id, sem, txn, revokes) ==
    [id |-> id, user |-> "u", sem |-> sem, txn |-> txn, revokes |-> revokes]

MCUsers == {"u"}

\* A subscription and a token pack, each reported through both channels.
AllPurchases == {S1, T1}
AllEvents == {Event("subscription_started", "granting", S1, FALSE),
              Event("subscription_refunded", "refund", S1, TRUE),
              Event("subscription_expired", "expiring", S1, FALSE),
              Event("non_subscription_purchase", "tokens", T1, FALSE)}

\* One subscription nobody configured.
UnlistedPurchases == {X1}
UnlistedEvents == {Event("subscription_started", "granting", X1, FALSE),
                   Event("subscription_refunded", "refund", X1, TRUE)}

=============================================================================
