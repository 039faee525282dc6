------------------------------ MODULE RateLimit ------------------------------
(***************************************************************************)
(* The sliding-window limiters (api_gateway/rate_limit.py): one sorted set *)
(* of time stamps per key in Redis, trimmed, extended and counted by one   *)
(* pipeline for every attempt, refused ones included.  A route checks its  *)
(* keys in order and stops at the first refusal; without Redis everything  *)
(* is admitted.  Taking the time and running the pipeline are one step.    *)
(***************************************************************************)
EXTENDS Integers, FiniteSets, Sequences

CONSTANTS Routes,    \* sequences of keys: <<user, ip>> for a generation, one
                     \* key for the other classes
          Limit,     \* key -> attempts admitted per window
          Window,    \* rate_limit_window_seconds
          LastTime,  \* bound on the clock
          MaxTries   \* bound: attempts on one key in one window

RateKeys == UNION {{r[i] : i \in 1..Len(r)} : r \in Routes}

ASSUME RateAssumption ==
    /\ Limit \in [RateKeys -> Nat]
    /\ {Window, LastTime, MaxTries} \subseteq Nat \ {0}

VARIABLES clock,
          stamps,   \* the sorted sets: key -> times of its attempts
          admitted  \* history: the times each key has let through

rateVars == <<clock, stamps, admitted>>

NoStamps == [k \in RateKeys |-> <<>>]

RateInit == clock = 0 /\ stamps = NoStamps /\ admitted = NoStamps

\* A log without its first stamps, those not later than an instant.
After(log, t) ==
    LET gone == {i \in 1..Len(log) : log[i] <= t} IN
    SubSeq(log, Cardinality(gone) + 1, Len(log))

\* Variant: the window is one instant short.
AllowShort(log) == Append(After(log, clock - Window + 1), clock)

\* The pipeline of _allow(): stamps up to the cutoff go, this one is added.
Allow(log) == Append(After(log, clock - Window), clock)

Admits(k) == Len(Allow(stamps[k])) <= Limit[k]

\* The keys an attempt reaches: all of them, or up to the first refusal.
Reached(r) ==
    LET refusals == {i \in 1..Len(r) : ~Admits(r[i])} IN
    {r[i] : i \in {j \in 1..Len(r) : \A n \in refusals : j <= n}}

\* enforce_*_limits(); a key that admits may belong to a refused attempt.
Enforce(r) ==
    /\ \A k \in Reached(r) : Len(Allow(stamps[k])) <= MaxTries
    /\ stamps' = [k \in RateKeys |->
          IF k \in Reached(r) THEN Allow(stamps[k]) ELSE stamps[k]]
    /\ admitted' = [k \in RateKeys |->
          IF k \in Reached(r) /\ Admits(k)
            THEN Append(admitted[k], clock) ELSE admitted[k]]
    /\ UNCHANGED clock

\* Redis restarts empty, or evicts a key.
Lose(k) ==
    /\ stamps' = [stamps EXCEPT ![k] = NoStamps[k]]
    /\ admitted' = [admitted EXCEPT ![k] = NoStamps[k]]
    /\ stamps /= stamps'
    /\ UNCHANGED clock

Tick ==
    /\ clock < LastTime
    /\ clock' = clock + 1
    /\ UNCHANGED <<stamps, admitted>>

RateNext ==
    \/ \E r \in Routes : Enforce(r)
    \/ \E k \in RateKeys : Lose(k)
    \/ Tick

RateSpec == RateInit /\ [][RateNext]_rateVars

(***************************************************************************)
(* As long as Redis keeps its data, no window of Window seconds, wherever  *)
(* it starts, has more admitted attempts on a key than its limit: refused  *)
(* attempts and the trimming of the sorted set never open a gap.           *)
(***************************************************************************)
WindowBound ==
    \A k \in RateKeys :
        LET log == admitted[k] IN
        \A i, j \in 1..Len(log) :
            log[j] - log[i] < Window => j - i < Limit[k]

=============================================================================
