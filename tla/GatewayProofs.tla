--------------------------- MODULE GatewayProofs ----------------------------
(***************************************************************************)
(* Proofs about what every request passes first: identity (module Auth),   *)
(* for any users, devices, subjects, tokens and concurrent requests, and   *)
(* the rate limits (module RateLimit), for any routes, limits and window;  *)
(* and about what the checkout sells (module Catalogue), for any           *)
(* catalogue, dates and number of payments.  Accounts converge, a refresh  *)
(* token is single use, no window admits more than its limit, and a        *)
(* payment is honoured with its credits and its term.                      *)
(***************************************************************************)
EXTENDS Auth, RateLimit, Catalogue, Sums, SequenceTheorems

-----------------------------------------------------------------------------
(* The inductive invariant, by what it is about.                           *)

CallRecords ==
    [pc: {"find", "touch", "create", "link", "identity",
          "upsert", "claim", "rotate", "revoke"},
     device: Devices \cup {NoOne}, sub: Subs \cup {NoOne},
     user: Users \cup {NoOne}, lock: BOOLEAN, newDevice: Users \cup {NoOne},
     newIdentity: Users \cup {NoOne}, token: Tokens \cup {NoOne},
     chain: SUBSET Tokens]

TokenRecords ==
    [user: Users, device: Devices, used: BOOLEAN, revoked: BOOLEAN,
     from: Tokens \cup {NoOne}, sub: Subs \cup {NoOne}]

Tables ==
    /\ devices \in [Devices -> Users \cup {NoOne}]
    /\ identity \in [Subs -> Users \cup {NoOne}]
    /\ Issued \subseteq Tokens
    /\ tokens \in [Issued -> TokenRecords]
    /\ Active \subseteq Calls
    /\ call \in [Active -> CallRecords]
    /\ reused \subseteq Issued

\* A token of a sign-in belongs to the account of its subject; a token that
\* was exchanged is used, and its successor has its account and device.
TokenOK(t) ==
    /\ tokens[t].sub /= NoOne => tokens[t].user = identity[tokens[t].sub]
    /\ tokens[t].from /= NoOne =>
          /\ tokens[t].from \in Issued
          /\ tokens[tokens[t].from].used
          /\ tokens[tokens[t].from].user = tokens[t].user
          /\ tokens[tokens[t].from].device = tokens[t].device

SignedIn(d) == \E t \in Issued : tokens[t].device = d /\ tokens[t].sub /= NoOne

DeviceOK(d) ==
    IF SignedIn(d)
      THEN \E t \in Issued : /\ tokens[t].device = d /\ tokens[t].sub /= NoOne
                             /\ devices[d] = tokens[t].user
      ELSE \A t \in Issued : tokens[t].device = d => tokens[t].user = devices[d]

Refreshes(c) == call[c].pc \in {"claim", "rotate", "revoke"}

\* What a request has read is still what it takes it for.
CallOK(c) ==
    /\ call[c].pc \in {"touch", "link", "identity", "upsert"} => call[c].user \in Users
    /\ IF Refreshes(c)
         THEN /\ call[c].token \in Issued /\ call[c].sub = NoOne
              /\ call[c].user = tokens[call[c].token].user
              /\ call[c].device = tokens[call[c].token].device
         ELSE call[c].token = NoOne /\ call[c].device \in Devices
    /\ call[c].pc \in {"link", "identity", "upsert"} => call[c].sub \in Subs
    /\ call[c].pc = "touch" /\ ~SignedIn(call[c].device) =>
          call[c].user = devices[call[c].device]
    /\ call[c].newIdentity /= NoOne =>
          /\ call[c].pc = "upsert"
          /\ call[c].newIdentity = call[c].user
          /\ identity[call[c].sub] = NoOne
    /\ call[c].pc = "upsert" /\ call[c].newIdentity = NoOne =>
          identity[call[c].sub] = call[c].user
    /\ call[c].pc = "rotate" => ~tokens[call[c].token].used
    /\ call[c].pc = "revoke" =>
          /\ tokens[call[c].token].used
          /\ \A s \in Issued :
                s = call[c].token \/ tokens[s].from = call[c].token =>
                    s \in call[c].chain \/ tokens[s].revoked

\* One transaction holds the row of a token, one has inserted a subject.
OneHolder ==
    \A c, o \in Active :
        \/ /\ call[c].pc = "rotate" /\ call[o].pc = "rotate"
           /\ call[c].token = call[o].token
        \/ /\ call[c].newIdentity /= NoOne /\ call[o].newIdentity /= NoOne
           /\ call[c].sub = call[o].sub
        => c = o

OneSuccessor ==
    \A t, a, b \in Issued : tokens[a].from = t /\ tokens[b].from = t => a = b

ReusedOK(t) ==
    /\ tokens[t].used
    /\ \A s \in Issued : s = t \/ tokens[s].from = t => tokens[s].revoked

IInv ==
    /\ Tables
    /\ \A t \in Issued : TokenOK(t)
    /\ \A d \in Devices : DeviceOK(d)
    /\ \A c \in Active : CallOK(c)
    /\ OneHolder
    /\ OneSuccessor
    /\ \A t \in reused : ReusedOK(t)

-----------------------------------------------------------------------------
(* How a step moves a request, and what it leaves alone.                   *)

\* A request that begins or goes on is the only one that moves ...
LEMMA ToMoves ==
    ASSUME Tables, NEW c \in Calls, NEW rec \in CallRecords, To(c, rec)
    PROVE  /\ Active' = Active \cup {c} /\ Active' \subseteq Calls
           /\ call' \in [Active' -> CallRecords]
           /\ call'[c] = rec
           /\ \A o \in Active \ {c} : call'[o] = call[o]
    BY DEF To, Active, Tables

\* ... and so is one that ends.
LEMMA DoneMoves ==
    ASSUME Tables, NEW c \in Active, Done(c)
    PROVE  /\ Active' = Active \ {c} /\ Active' \subseteq Calls
           /\ call' \in [Active' -> CallRecords]
           /\ \A o \in Active \ {c} : call'[o] = call[o]
    BY DEF Done, Active, Tables

\* Tokens are added and marked, never taken back or given to another account.
Grow ==
    \A s \in Issued :
        /\ s \in Issued'
        /\ tokens'[s].user = tokens[s].user
        /\ tokens'[s].device = tokens[s].device
        /\ tokens'[s].from = tokens[s].from
        /\ tokens'[s].sub = tokens[s].sub
        /\ tokens[s].used => tokens'[s].used
        /\ tokens[s].revoked => tokens'[s].revoked

\* A request that does not move keeps what the invariant says of it.
LEMMA CallKept ==
    ASSUME Tables, NEW o \in Active, CallOK(o), call'[o] = call[o], Grow,
           \A s \in Subs : identity[s] /= NoOne => identity'[s] = identity[s],
           call[o].newIdentity /= NoOne => identity'[call[o].sub] = NoOne,
           \A d \in Devices : \/ SignedIn(d)'
                              \/ devices'[d] = devices[d]
                              \/ devices[d] = NoOne,
           call[o].pc = "rotate" =>
               tokens'[call[o].token].used = tokens[call[o].token].used,
           call[o].pc = "revoke" =>
               \A s \in Issued' \ Issued : tokens'[s].from /= call[o].token
    PROVE  CallOK(o)'
<1>1. PICK r \in CallRecords : r = call[o]
    BY DEF Tables
<1>2. NoOne \notin Users
    BY AuthAssumption
<1>3. r.pc = "touch" => r.device \in Devices /\ r.user \in Users
    BY <1>1 DEF CallOK, Refreshes
<1>4. r.pc = "touch" /\ ~SignedIn(r.device)' =>
          ~SignedIn(r.device) /\ devices'[r.device] = devices[r.device]
    BY <1>1, <1>2, <1>3 DEF SignedIn, Grow, CallOK
<1>5. call'[o].pc = "touch" /\ ~SignedIn(call[o].device)' =>
          call'[o].user = devices'[call'[o].device]
  <2>1. SignedIn(call[o].device)' <=> SignedIn(r.device)'
      BY <1>1 DEF SignedIn
  <2>2. QED
      BY <1>1, <1>4, <2>1 DEF CallOK
<1>6. call'[o].pc = "revoke" =>
          /\ tokens'[call'[o].token].used
          /\ \A s \in Issued' :
                s = call'[o].token \/ tokens'[s].from = call'[o].token =>
                    s \in call'[o].chain \/ tokens'[s].revoked
    BY DEF CallOK, Refreshes, Grow
<1>7. IF Refreshes(o)'
        THEN /\ call'[o].token \in Issued' /\ call'[o].sub = NoOne
             /\ call'[o].user = tokens'[call'[o].token].user
             /\ call'[o].device = tokens'[call'[o].token].device
        ELSE call'[o].token = NoOne /\ call'[o].device \in Devices
    BY DEF CallOK, Refreshes, Grow
<1>8. call'[o].pc = "upsert" /\ call'[o].newIdentity = NoOne =>
          identity'[call'[o].sub] = call'[o].user
    BY <1>2 DEF CallOK
<1>9. call'[o].pc = "rotate" => ~tokens'[call'[o].token].used
    BY DEF CallOK
<1>10. QED
    BY <1>5, <1>6, <1>7, <1>8, <1>9 DEF CallOK, Issued

\* The tables say what they said while none of them changes.
LEMMA TablesKept ==
    ASSUME IInv, UNCHANGED <<devices, identity, tokens, reused>>
    PROVE  /\ \A t \in Issued' : TokenOK(t)'
           /\ \A d \in Devices : DeviceOK(d)'
           /\ OneSuccessor'
           /\ \A t \in reused' : ReusedOK(t)'
<1>1. Issued' = Issued
    BY DEF Issued
<1>2. ASSUME NEW t \in Issued' PROVE TokenOK(t)'
    BY <1>1 DEF IInv, TokenOK
<1>3. ASSUME NEW d \in Devices PROVE DeviceOK(d)'
    BY <1>1 DEF IInv, DeviceOK, SignedIn
<1>4. OneSuccessor'
    BY <1>1 DEF IInv, OneSuccessor
<1>5. ASSUME NEW t \in reused' PROVE ReusedOK(t)'
    BY <1>1 DEF IInv, ReusedOK
<1>6. QED
    BY <1>2, <1>3, <1>4, <1>5

\* A request takes a step that changes no table.
LEMMA CallStep ==
    ASSUME IInv, NEW c \in Calls, NEW rec \in CallRecords, To(c, rec),
           UNCHANGED <<devices, identity, tokens, reused>>, CallOK(c)',
           rec.pc = "rotate" =>
               \A o \in Active \ {c} :
                   ~(call[o].pc = "rotate" /\ call[o].token = rec.token),
           rec.newIdentity /= NoOne =>
               \A o \in Active \ {c} :
                   ~(call[o].newIdentity /= NoOne /\ call[o].sub = rec.sub)
    PROVE  IInv'
<1>1. /\ Active' = Active \cup {c} /\ Active' \subseteq Calls
      /\ call' \in [Active' -> CallRecords]
      /\ call'[c] = rec
      /\ \A o \in Active \ {c} : call'[o] = call[o]
    BY ToMoves DEF IInv
<1>2. Issued' = Issued /\ Grow
    BY DEF Issued, Grow
<1>3. Tables'
    BY <1>1, <1>2 DEF IInv, Tables
<1>4. ASSUME NEW o \in Active \ {c} PROVE CallOK(o)'
  <2>1. Tables /\ CallOK(o) /\ call'[o] = call[o]
      BY <1>1 DEF IInv
  <2>2. call[o].newIdentity /= NoOne => identity'[call[o].sub] = NoOne
      BY <2>1 DEF CallOK
  <2>3. QED
      BY <2>1, <2>2, <1>2, CallKept
<1>5. OneHolder'
    BY <1>1 DEF IInv, OneHolder
<1>6. \A o \in Active' : CallOK(o)'
    BY <1>1, <1>4
<1>7. QED
    BY <1>3, <1>5, <1>6, TablesKept DEF IInv

-----------------------------------------------------------------------------
(* Statements that read.                                                   *)

\* register_or_token() begins.
LEMMA RegisterIInv ==
    ASSUME IInv, NEW c \in Calls, NEW d \in Devices, Register(c, d) PROVE IInv'
<1> DEFINE rec == [NewCall EXCEPT !.pc = "find", !.device = d]
<1>1. /\ rec \in CallRecords /\ rec.pc = "find" /\ rec.device = d
      /\ rec.token = NoOne /\ rec.newIdentity = NoOne
    BY DEF NewCall, CallRecords
<1>2. To(c, rec) /\ UNCHANGED <<devices, identity, tokens, reused>>
    BY DEF Register
<1> HIDE DEF rec
<1>3. call'[c] = rec
    BY <1>1, <1>2, ToMoves DEF IInv
<1>4. CallOK(c)'
    BY <1>1, <1>3 DEF CallOK, Refreshes
<1>5. QED
    BY <1>1, <1>2, <1>4, CallStep

\* sign_in_with_apple() begins: a subject with an account goes on with it.
LEMMA SignInIInv ==
    ASSUME IInv, NEW c \in Calls, NEW d \in Devices, NEW s \in Subs, SignIn(c, d, s)
    PROVE  IInv'
<1> DEFINE rec == [NewCall EXCEPT !.device = d, !.sub = s, !.user = identity[s],
                     !.pc = IF identity[s] = NoOne THEN "find" ELSE "upsert"]
<1>1. identity[s] \in Users \cup {NoOne}
    BY DEF IInv, Tables
<1>2. /\ rec \in CallRecords /\ rec.device = d /\ rec.sub = s
      /\ rec.pc = IF identity[s] = NoOne THEN "find" ELSE "upsert"
      /\ rec.user = identity[s]
      /\ rec.token = NoOne /\ rec.newIdentity = NoOne
    BY <1>1 DEF NewCall, CallRecords
<1>3. To(c, rec) /\ UNCHANGED <<devices, identity, tokens, reused>>
    BY DEF SignIn
<1> HIDE DEF rec
<1>4. call'[c] = rec
    BY <1>2, <1>3, ToMoves DEF IInv
<1>5. CallOK(c)'
    BY <1>1, <1>2, <1>3, <1>4 DEF CallOK, Refreshes
<1>6. QED
    BY <1>2, <1>3, <1>5, CallStep

\* The account of the device is read.
LEMMA FindDeviceIInv ==
    ASSUME IInv, NEW c \in Active, FindDevice(c) PROVE IInv'
<1> DEFINE u == devices[call[c].device]
           rec == [call[c] EXCEPT !.user = u,
                     !.pc = IF u = NoOne THEN "create" ELSE "touch"]
<1>1. /\ c \in Calls /\ CallOK(c) /\ call[c] \in CallRecords
      /\ call[c].pc = "find" /\ call[c].device \in Devices
      /\ u \in Users \cup {NoOne}
    BY DEF IInv, Tables, FindDevice, CallOK, Refreshes
<1>2. /\ rec \in CallRecords /\ rec.device = call[c].device
      /\ rec.pc = IF u = NoOne THEN "create" ELSE "touch"
      /\ rec.user = u
      /\ rec.token = call[c].token /\ rec.newIdentity = call[c].newIdentity
    BY <1>1 DEF CallRecords
<1>3. To(c, rec) /\ UNCHANGED <<devices, identity, tokens, reused>>
    BY DEF FindDevice
<1>4. u = devices[rec.device]
    BY <1>2
<1> HIDE DEF rec, u
<1>5. call'[c] = rec
    BY <1>1, <1>2, <1>3, ToMoves DEF IInv
<1>6. rec.token = NoOne /\ rec.newIdentity = NoOne
    BY <1>1, <1>2 DEF CallOK, Refreshes
<1>7. CallOK(c)'
    BY <1>1, <1>2, <1>3, <1>4, <1>5, <1>6 DEF CallOK, Refreshes
<1>8. QED
    BY <1>1, <1>2, <1>3, <1>6, <1>7, CallStep

\* A sign-in goes on with an account of the device.
LEMMA LinkStep ==
    ASSUME IInv, NEW c \in Active, NEW u \in Users, NEW lock \in BOOLEAN,
           NEW new \in Users \cup {NoOne},
           call[c].sub /= NoOne, call[c].newIdentity = NoOne,
           ~Refreshes(c),
           To(c, [call[c] EXCEPT !.pc = "link", !.user = u, !.lock = lock,
                                 !.newDevice = new]),
           UNCHANGED <<devices, identity, tokens, reused>>
    PROVE  IInv'
<1> DEFINE rec == [call[c] EXCEPT !.pc = "link", !.user = u, !.lock = lock,
                                  !.newDevice = new]
<1>1. /\ c \in Calls /\ CallOK(c) /\ call[c] \in CallRecords
    BY DEF IInv, Tables
<1>2. /\ rec.device = call[c].device /\ rec.sub = call[c].sub
      /\ rec.pc = "link" /\ rec.user = u
      /\ rec.token = call[c].token /\ rec.newIdentity = NoOne
    BY <1>1 DEF CallRecords
<1>3. rec \in CallRecords
    BY <1>1, ZenonT(40) DEF CallRecords
<1>4. To(c, rec)
    OBVIOUS
<1> HIDE DEF rec
<1>5. call'[c] = rec
    BY <1>1, <1>3, <1>4, ToMoves DEF IInv
<1>6. rec.token = NoOne /\ rec.sub \in Subs /\ rec.device \in Devices
    BY <1>1, <1>2 DEF CallOK, CallRecords
<1>7. CallOK(c)'
    BY <1>2, <1>5, <1>6 DEF CallOK, Refreshes
<1>8. QED
    BY <1>1, <1>2, <1>3, <1>4, <1>7, CallStep

\* The account takes the subject, or a new account does.
LEMMA ChooseAccountIInv ==
    ASSUME IInv, NEW c \in Active, ChooseAccount(c) PROVE IInv'
<1>1. PICK u \in Users : To(c, [call[c] EXCEPT !.pc = "identity", !.user = u])
    BY DEF ChooseAccount
<1> DEFINE rec == [call[c] EXCEPT !.pc = "identity", !.user = u]
<1>2. /\ c \in Calls /\ CallOK(c) /\ call[c] \in CallRecords /\ call[c].pc = "link"
      /\ UNCHANGED <<devices, identity, tokens, reused>>
    BY DEF IInv, Tables, ChooseAccount
<1>3. /\ rec \in CallRecords /\ rec.device = call[c].device /\ rec.sub = call[c].sub
      /\ rec.pc = "identity" /\ rec.user = u
      /\ rec.token = call[c].token /\ rec.newIdentity = call[c].newIdentity
    BY <1>2 DEF CallRecords
<1>4. To(c, rec)
    BY <1>1
<1> HIDE DEF rec
<1>5. call'[c] = rec
    BY <1>2, <1>3, <1>4, ToMoves DEF IInv
<1>6. /\ rec.token = NoOne /\ rec.newIdentity = NoOne
      /\ rec.sub \in Subs /\ rec.device \in Devices
    BY <1>2, <1>3 DEF CallOK, Refreshes
<1>7. CallOK(c)'
    BY <1>3, <1>5, <1>6 DEF CallOK, Refreshes
<1>8. QED
    BY <1>2, <1>3, <1>4, <1>6, <1>7, CallStep

\* The subject is inserted, or the account that won is read again.
LEMMA LinkIdentityIInv ==
    ASSUME IInv, NEW c \in Active, LinkIdentity(c) PROVE IInv'
<1>1. /\ c \in Calls /\ CallOK(c) /\ call[c] \in CallRecords
      /\ call[c].pc = "identity" /\ call[c].sub \in Subs
      /\ call[c].device \in Devices /\ call[c].user \in Users
      /\ call[c].token = NoOne /\ call[c].newIdentity = NoOne
      /\ UNCHANGED <<devices, identity, tokens, reused>>
      /\ ~SubjectPending(c)
      /\ identity[call[c].sub] \in Users \cup {NoOne}
    BY DEF IInv, Tables, LinkIdentity, CallOK, Refreshes
<1>2. CASE identity[call[c].sub] = NoOne
  <2> DEFINE rec == [call[c] EXCEPT !.pc = "upsert", !.newIdentity = call[c].user]
  <2>1. /\ rec \in CallRecords /\ rec.device = call[c].device /\ rec.sub = call[c].sub
        /\ rec.pc = "upsert" /\ rec.user = call[c].user
        /\ rec.token = NoOne /\ rec.newIdentity = call[c].user
      BY <1>1 DEF CallRecords
  <2>2. To(c, rec)
      BY <1>2 DEF LinkIdentity
  <2> HIDE DEF rec
  <2>3. call'[c] = rec
      BY <1>1, <2>1, <2>2, ToMoves DEF IInv
  <2>4. CallOK(c)'
      BY <1>1, <1>2, <2>1, <2>3, AuthAssumption DEF CallOK, Refreshes
  <2>5. QED
      BY <1>1, <2>1, <2>2, <2>4, CallStep DEF SubjectPending
<1>3. CASE identity[call[c].sub] /= NoOne
  <2> DEFINE rec == [call[c] EXCEPT !.pc = "upsert", !.user = identity[call[c].sub]]
  <2>1. /\ rec \in CallRecords /\ rec.device = call[c].device /\ rec.sub = call[c].sub
        /\ rec.pc = "upsert" /\ rec.user = identity[call[c].sub]
        /\ rec.token = NoOne /\ rec.newIdentity = NoOne
      BY <1>1 DEF CallRecords
  <2>2. To(c, rec)
      BY <1>3 DEF LinkIdentity
  <2> HIDE DEF rec
  <2>3. call'[c] = rec
      BY <1>1, <2>1, <2>2, ToMoves DEF IInv
  <2>4. CallOK(c)'
      BY <1>1, <1>3, <2>1, <2>3 DEF CallOK, Refreshes
  <2>5. QED
      BY <1>1, <2>1, <2>2, <2>4, CallStep
<1>4. QED
    BY <1>2, <1>3

\* A token that is used has its one successor on the same device, so the
\* chain read now holds all that is not revoked yet.
LEMMA ChainHolds ==
    ASSUME IInv, NEW t \in Issued, tokens[t].used
    PROVE  /\ Chain(t) \subseteq Tokens
           /\ \A s \in Issued :
                 s = t \/ tokens[s].from = t => s \in Chain(t) \/ tokens[s].revoked
<1>1. t /= NoOne /\ Issued \subseteq Tokens
    BY AuthAssumption DEF IInv, Tables
<1>2. \A s \in Issued : tokens[s].from = t =>
          tokens[s].user = tokens[t].user /\ tokens[s].device = tokens[t].device
    BY <1>1 DEF IInv, TokenOK
<1>3. QED
    BY <1>1, <1>2 DEF Chain

\* refresh() reads the token.
LEMMA RefreshIInv ==
    ASSUME IInv, NEW c \in Calls, NEW t \in Issued, Refresh(c, t) PROVE IInv'
<1> DEFINE this == [NewCall EXCEPT !.token = t, !.user = tokens[t].user,
                                   !.device = tokens[t].device]
<1>1. /\ tokens[t] \in TokenRecords /\ t \in Tokens
      /\ UNCHANGED <<devices, identity, tokens, reused>>
      /\ Issued' = Issued
    BY DEF IInv, Tables, Refresh, Issued
<1>2. CASE tokens[t].used
  <2> DEFINE rec == [this EXCEPT !.pc = "revoke", !.chain = Chain(t)]
  <2>1. /\ rec \in CallRecords /\ rec.pc = "revoke" /\ rec.chain = Chain(t)
        /\ rec.token = t /\ rec.user = tokens[t].user /\ rec.sub = NoOne
        /\ rec.device = tokens[t].device /\ rec.newIdentity = NoOne
      BY <1>1, <1>2, ChainHolds DEF NewCall, CallRecords, TokenRecords
  <2>2. To(c, rec)
      BY <1>2 DEF Refresh
  <2> HIDE DEF rec
  <2>3. call'[c] = rec
      BY <2>1, <2>2, ToMoves DEF IInv
  <2>4. CallOK(c)'
      BY <1>1, <1>2, <2>1, <2>3, ChainHolds DEF CallOK, Refreshes
  <2>5. QED
      BY <1>1, <2>1, <2>2, <2>4, CallStep
<1>3. CASE ~tokens[t].used
  <2> DEFINE rec == [this EXCEPT !.pc = "claim"]
  <2>1. /\ rec \in CallRecords /\ rec.pc = "claim"
        /\ rec.token = t /\ rec.user = tokens[t].user /\ rec.sub = NoOne
        /\ rec.device = tokens[t].device /\ rec.newIdentity = NoOne
      BY <1>1 DEF NewCall, CallRecords, TokenRecords
  <2>2. To(c, rec)
      BY <1>3 DEF Refresh
  <2> HIDE DEF rec
  <2>3. call'[c] = rec
      BY <2>1, <2>2, ToMoves DEF IInv
  <2>4. CallOK(c)'
      BY <1>1, <2>1, <2>3 DEF CallOK, Refreshes
  <2>5. QED
      BY <1>1, <2>1, <2>2, <2>4, CallStep
<1>4. QED
    BY <1>2, <1>3

\* The claim waits for the row, so one transaction holds it.
LEMMA ClaimTokenIInv ==
    ASSUME IInv, NEW c \in Active, ClaimToken(c) PROVE IInv'
<1>1. PICK t \in Issued : t = call[c].token
    BY DEF IInv, ClaimToken, CallOK, Refreshes
<1>2. /\ c \in Calls /\ CallOK(c) /\ call[c] \in CallRecords
      /\ call[c].pc = "claim" /\ call[c].sub = NoOne /\ call[c].newIdentity = NoOne
      /\ call[c].user = tokens[t].user /\ call[c].device = tokens[t].device
      /\ UNCHANGED <<devices, identity, tokens, reused>>
      /\ Issued' = Issued /\ ~Claimed(c, t)
    BY <1>1 DEF IInv, Tables, ClaimToken, CallOK, Refreshes, Issued
<1>3. CASE tokens[t].used
  <2> DEFINE rec == [call[c] EXCEPT !.pc = "revoke", !.chain = Chain(t)]
  <2>1. /\ rec \in CallRecords /\ rec.pc = "revoke" /\ rec.chain = Chain(t)
        /\ rec.token = t /\ rec.user = tokens[t].user /\ rec.sub = NoOne
        /\ rec.device = tokens[t].device /\ rec.newIdentity = NoOne
      BY <1>1, <1>2, <1>3, ChainHolds DEF CallRecords
  <2>2. To(c, rec)
      BY <1>1, <1>3 DEF ClaimToken
  <2> HIDE DEF rec
  <2>3. call'[c] = rec
      BY <1>2, <2>1, <2>2, ToMoves DEF IInv
  <2>4. CallOK(c)'
      BY <1>2, <1>3, <2>1, <2>3, ChainHolds DEF CallOK, Refreshes
  <2>5. QED
      BY <1>2, <2>1, <2>2, <2>4, CallStep
<1>4. CASE ~tokens[t].used
  <2> DEFINE rec == [call[c] EXCEPT !.pc = "rotate"]
  <2>1. /\ rec \in CallRecords /\ rec.pc = "rotate"
        /\ rec.token = t /\ rec.user = tokens[t].user /\ rec.sub = NoOne
        /\ rec.device = tokens[t].device /\ rec.newIdentity = NoOne
      BY <1>1, <1>2 DEF CallRecords
  <2>2. To(c, rec)
      BY <1>1, <1>4 DEF ClaimToken
  <2> HIDE DEF rec
  <2>3. call'[c] = rec
      BY <1>2, <2>1, <2>2, ToMoves DEF IInv
  <2>4. tokens[t].user \in Users
      BY DEF IInv, Tables, TokenRecords
  <2>5. CallOK(c)'
      BY <1>2, <1>4, <2>1, <2>3, <2>4 DEF CallOK, Refreshes
  <2>6. QED
      BY <1>2, <2>1, <2>2, <2>5, CallStep DEF Claimed
<1>5. QED
    BY <1>3, <1>4

-----------------------------------------------------------------------------
(* Statements that write and commit.                                       *)

\* A request ends without a trace.
LEMMA AbortCallIInv == ASSUME IInv, NEW c \in Active, AbortCall(c) PROVE IInv'
<1>1. /\ Active' = Active \ {c} /\ Active' \subseteq Calls
      /\ call' \in [Active' -> CallRecords]
      /\ \A o \in Active \ {c} : call'[o] = call[o]
    BY DoneMoves DEF IInv, AbortCall
<1>2. Issued' = Issued /\ Grow /\ UNCHANGED <<devices, identity, tokens, reused>>
    BY DEF AbortCall, Issued, Grow
<1>3. Tables'
    BY <1>1, <1>2 DEF IInv, Tables
<1>4. ASSUME NEW o \in Active \ {c} PROVE CallOK(o)'
  <2>1. Tables /\ CallOK(o) /\ call'[o] = call[o]
      BY <1>1 DEF IInv
  <2>2. call[o].newIdentity /= NoOne => identity'[call[o].sub] = NoOne
      BY <1>2, <2>1 DEF CallOK
  <2>3. QED
      BY <2>1, <2>2, <1>2, CallKept
<1>5. OneHolder'
    BY <1>1 DEF IInv, OneHolder
<1>6. QED
    BY <1>1, <1>2, <1>3, <1>4, <1>5, TablesKept DEF IInv

\* A token and its successor are revoked together, and stay so.
LEMMA RevokeChainIInv == ASSUME IInv, NEW c \in Active, RevokeChain(c) PROVE IInv'
<1>1. PICK t \in Issued : t = call[c].token
    BY DEF IInv, RevokeChain, CallOK, Refreshes
<1>2. PICK chain : chain = call[c].chain
    OBVIOUS
<1>3. /\ Tables /\ CallOK(c) /\ call[c].pc = "revoke"
      /\ UNCHANGED <<devices, identity>> /\ reused' = reused \cup {t}
    BY <1>1 DEF IInv, RevokeChain
<1>4. /\ Active' = Active \ {c} /\ Active' \subseteq Calls
      /\ call' \in [Active' -> CallRecords]
      /\ \A o \in Active \ {c} : call'[o] = call[o]
    BY DoneMoves DEF IInv, RevokeChain
<1>5. tokens' = [s \in Issued |-> IF s \in chain THEN [tokens[s] EXCEPT !.revoked = TRUE]
                                  ELSE tokens[s]]
    BY <1>2 DEF RevokeChain
<1>6. Issued' = Issued
    BY <1>5 DEF Issued
<1>7. ASSUME NEW s \in Issued
      PROVE  /\ tokens'[s] \in TokenRecords
             /\ tokens'[s].user = tokens[s].user
             /\ tokens'[s].device = tokens[s].device
             /\ tokens'[s].from = tokens[s].from
             /\ tokens'[s].sub = tokens[s].sub
             /\ tokens'[s].used = tokens[s].used
             /\ tokens[s].revoked \/ s \in chain => tokens'[s].revoked
    BY <1>3, <1>5 DEF Tables, TokenRecords
<1>8. Grow
    BY <1>6, <1>7 DEF Grow
<1>9. Tables'
  <2>1. tokens' \in [Issued' -> TokenRecords]
      BY <1>5, <1>6, <1>7
  <2>2. QED
      BY <1>3, <1>4, <1>6, <2>1 DEF Tables
<1>10. ASSUME NEW s \in Issued PROVE TokenOK(s)'
  <2>1. TokenOK(s)
      BY DEF IInv
  <2>2. QED
      BY <2>1, <1>3, <1>6, <1>7 DEF TokenOK
<1>11. ASSUME NEW d \in Devices PROVE DeviceOK(d)'
  <2>1. DeviceOK(d)
      BY DEF IInv
  <2>2. SignedIn(d)' <=> SignedIn(d)
      BY <1>6, <1>7 DEF SignedIn
  <2>3. QED
      BY <2>1, <2>2, <1>3, <1>6, <1>7 DEF DeviceOK
<1>12. ASSUME NEW o \in Active \ {c} PROVE CallOK(o)'
  <2>1. CallOK(o) /\ call'[o] = call[o]
      BY <1>4 DEF IInv
  <2>2. call[o].newIdentity /= NoOne => identity'[call[o].sub] = NoOne
      BY <1>3, <2>1 DEF CallOK
  <2>3. call[o].pc = "rotate" =>
            tokens'[call[o].token].used = tokens[call[o].token].used
      BY <2>1, <1>7 DEF CallOK, Refreshes
  <2>4. QED
      BY <2>1, <2>2, <2>3, <1>3, <1>6, <1>8, CallKept
<1>13. OneHolder'
    BY <1>4 DEF IInv, OneHolder
<1>14. OneSuccessor'
    BY <1>6, <1>7 DEF IInv, OneSuccessor
<1>15. ASSUME NEW r \in reused \cup {t} PROVE ReusedOK(r)'
  <2>1. tokens[r].used /\ r \in Issued
      BY <1>1, <1>3 DEF IInv, ReusedOK, CallOK, Tables
  <2>2. \A s \in Issued : s = r \/ tokens[s].from = r => tokens[s].revoked \/ s \in chain
      BY <1>1, <1>2, <1>3 DEF IInv, ReusedOK, CallOK
  <2>3. QED
      BY <2>1, <2>2, <1>6, <1>7 DEF ReusedOK
<1>16. QED
    BY <1>3, <1>4, <1>6, <1>9, <1>10, <1>11, <1>12, <1>13, <1>14, <1>15 DEF IInv

\* A pair is issued: the new token, and the mark on the one it replaces.
LEMMA PairIssued ==
    ASSUME Tables, NEW c \in Active, NEW u \in Users, IssuePair(c, u),
           call[c].device \in Devices
    PROVE  \E n \in Tokens \ Issued :
               /\ Issued' = Issued \cup {n}
               /\ tokens' \in [Issued' -> TokenRecords]
               /\ tokens'[n].user = u
               /\ tokens'[n].device = call[c].device
               /\ tokens'[n].from = call[c].token
               /\ tokens'[n].sub = call[c].sub
               /\ ~tokens'[n].used
               /\ \A s \in Issued :
                     /\ tokens'[s].user = tokens[s].user
                     /\ tokens'[s].device = tokens[s].device
                     /\ tokens'[s].from = tokens[s].from
                     /\ tokens'[s].sub = tokens[s].sub
                     /\ tokens'[s].revoked = tokens[s].revoked
                     /\ tokens'[s].used = (tokens[s].used \/ s = call[c].token)
<1>1. PICK n \in Tokens \ Issued :
          tokens' = [s \in Issued \cup {n} |->
            IF s = n THEN [user |-> u, device |-> call[c].device,
                           used |-> FALSE, revoked |-> FALSE,
                           from |-> call[c].token, sub |-> call[c].sub]
            ELSE IF s = call[c].token THEN [tokens[s] EXCEPT !.used = TRUE]
            ELSE tokens[s]]
  <2>1. AnyOf(FreshTokens) \subseteq FreshTokens
      BY DEF AnyOf
  <2>2. QED
      BY <2>1 DEF IssuePair, FreshTokens
<1>2. Issued' = Issued \cup {n}
    BY <1>1 DEF Issued
<1>3. /\ tokens'[n] = [user |-> u, device |-> call[c].device,
                       used |-> FALSE, revoked |-> FALSE,
                       from |-> call[c].token, sub |-> call[c].sub]
      /\ \A s \in Issued : tokens'[s] = IF s = call[c].token
                                          THEN [tokens[s] EXCEPT !.used = TRUE]
                                          ELSE tokens[s]
    BY <1>1
<1>4. tokens'[n] \in TokenRecords
    BY <1>3 DEF Tables, CallRecords, TokenRecords
<1>5. ASSUME NEW s \in Issued
      PROVE  /\ tokens'[s] \in TokenRecords
             /\ tokens'[s].user = tokens[s].user
             /\ tokens'[s].device = tokens[s].device
             /\ tokens'[s].from = tokens[s].from
             /\ tokens'[s].sub = tokens[s].sub
             /\ tokens'[s].revoked = tokens[s].revoked
             /\ tokens'[s].used = (tokens[s].used \/ s = call[c].token)
  <2>1. tokens[s] \in TokenRecords
      BY DEF Tables
  <2>2. QED
      BY <1>3, <2>1, ZenonT(40) DEF TokenRecords
<1>6. tokens' \in [Issued' -> TokenRecords]
    BY <1>1, <1>2, <1>4, <1>5
<1>7. QED
    BY <1>2, <1>3, <1>5, <1>6

\* A request issues its pair and commits: what is left to show is what it
\* writes of the device and of the subject.
LEMMA IssueStep ==
    ASSUME IInv, NEW c \in Active, NEW u \in Users, NEW d \in Devices,
           d = call[c].device, IssuePair(c, u), Done(c), UNCHANGED reused,
           call[c].token /= NoOne => call[c].pc = "rotate" /\ u = call[c].user,
           devices' \in [Devices -> Users \cup {NoOne}],
           identity' \in [Subs -> Users \cup {NoOne}],
           \A s \in Subs : identity[s] /= NoOne => identity'[s] = identity[s],
           \A o \in Active \ {c} :
               call[o].newIdentity /= NoOne => identity'[call[o].sub] = NoOne,
           \A e \in Devices \ {d} : devices'[e] = devices[e],
           call[c].sub /= NoOne => identity'[call[c].sub] = u /\ devices'[d] = u,
           call[c].sub = NoOne => \/ devices'[d] = devices[d]
                                  \/ devices[d] = NoOne /\ devices'[d] = u,
           call[c].sub = NoOne /\ ~SignedIn(d) => u = devices'[d]
    PROVE  IInv'
<1>1. PICK n \in Tokens \ Issued :
          /\ Issued' = Issued \cup {n}
          /\ tokens' \in [Issued' -> TokenRecords]
          /\ tokens'[n].user = u
          /\ tokens'[n].device = d
          /\ tokens'[n].from = call[c].token
          /\ tokens'[n].sub = call[c].sub
          /\ ~tokens'[n].used
          /\ \A s \in Issued :
                /\ tokens'[s].user = tokens[s].user
                /\ tokens'[s].device = tokens[s].device
                /\ tokens'[s].from = tokens[s].from
                /\ tokens'[s].sub = tokens[s].sub
                /\ tokens'[s].revoked = tokens[s].revoked
                /\ tokens'[s].used = (tokens[s].used \/ s = call[c].token)
    BY PairIssued DEF IInv
<1>2. /\ Active' = Active \ {c} /\ Active' \subseteq Calls
      /\ call' \in [Active' -> CallRecords]
      /\ \A o \in Active \ {c} : call'[o] = call[o]
    BY DoneMoves DEF IInv
<1>3. Tables'
    BY <1>1, <1>2 DEF IInv, Tables
<1>4. PICK old : /\ old = call[c].token
                 /\ \/ old = NoOne
                    \/ /\ old \in Issued /\ ~tokens[old].used
                       /\ tokens[old].user = u /\ tokens[old].device = d
                       /\ call[c].pc = "rotate"
    BY DEF IInv, CallOK, Refreshes
<1>5. PICK sub \in Subs \cup {NoOne} : sub = call[c].sub
    BY DEF IInv, Tables, CallRecords
<1>6. /\ NoOne \notin Users /\ NoOne \notin Issued' /\ NoOne \notin Subs
      /\ \A s \in Issued : tokens[s].user \in Users /\ tokens[s].sub \in Subs \cup {NoOne}
    BY <1>1, AuthAssumption DEF IInv, Tables, TokenRecords
<1>7. Grow
    BY <1>1 DEF Grow
<1>8. ASSUME NEW s \in Issued' PROVE TokenOK(s)'
  <2>1. CASE s = n
    <3>1. tokens'[s].sub /= NoOne => tokens'[s].user = identity'[tokens'[s].sub]
        BY <2>1, <1>1
    <3>2. tokens'[s].from /= NoOne =>
              /\ tokens'[s].from \in Issued'
              /\ tokens'[tokens'[s].from].used
              /\ tokens'[tokens'[s].from].user = tokens'[s].user
              /\ tokens'[tokens'[s].from].device = tokens'[s].device
        BY <2>1, <1>1, <1>4, ZenonT(40)
    <3>3. QED
        BY <3>1, <3>2 DEF TokenOK
  <2>2. CASE s \in Issued
    <3>1. TokenOK(s)
        BY <2>2 DEF IInv
    <3>2. /\ tokens'[s].user = tokens[s].user /\ tokens'[s].device = tokens[s].device
          /\ tokens'[s].from = tokens[s].from /\ tokens'[s].sub = tokens[s].sub
        BY <2>2, <1>1
    <3>3. tokens[s].sub /= NoOne => identity'[tokens[s].sub] = tokens[s].user
        BY <2>2, <3>1, <1>6 DEF TokenOK
    <3>4. ASSUME NEW f \in Issued, f = tokens[s].from
          PROVE  /\ f \in Issued' /\ tokens'[f].used
                 /\ tokens'[f].user = tokens[s].user
                 /\ tokens'[f].device = tokens[s].device
      <4>1. /\ tokens[f].used /\ tokens[f].user = tokens[s].user
            /\ tokens[f].device = tokens[s].device
          BY <3>1, <3>4, <1>6, <1>1 DEF TokenOK
      <4>2. QED
          BY <4>1, <1>1
    <3>5. tokens[s].from /= NoOne => tokens[s].from \in Issued
        BY <3>1 DEF TokenOK
    <3>6. QED
        BY <3>2, <3>3, <3>4, <3>5 DEF TokenOK
  <2>3. QED
      BY <2>1, <2>2, <1>1
<1>9. ASSUME NEW e \in Devices PROVE DeviceOK(e)'
  <2>1. DeviceOK(e)
      BY DEF IInv
  <2>2. CASE e = d /\ sub /= NoOne
    <3>1. /\ n \in Issued' /\ tokens'[n].device = e /\ tokens'[n].sub /= NoOne
          /\ devices'[e] = tokens'[n].user
        BY <2>2, <1>1, <1>5
    <3>2. QED
        BY <3>1 DEF DeviceOK, SignedIn
  <2>3. CASE e /= d \/ sub = NoOne
    <3>1. SignedIn(e)' <=> SignedIn(e)
        BY <2>3, <1>1, <1>5 DEF SignedIn
    <3>2. \A s \in Issued : tokens[s].device = e /\ devices[e] = tokens[s].user =>
              devices'[e] = devices[e]
        BY <2>3, <1>5, <1>6
    <3>3. e = d /\ ~SignedIn(e) => u = devices'[e]
        BY <2>3, <1>5
    <3>4. CASE SignedIn(e)
        BY <2>1, <3>1, <3>2, <3>4, <1>1 DEF DeviceOK
    <3>5. CASE ~SignedIn(e)
        BY <2>1, <3>1, <3>2, <3>3, <3>5, <1>1 DEF DeviceOK
    <3>6. QED
        BY <3>4, <3>5
  <2>4. QED
      BY <2>2, <2>3
<1>10. ASSUME NEW o \in Active \ {c} PROVE CallOK(o)'
  <2>1. Tables /\ CallOK(o) /\ CallOK(c) /\ call'[o] = call[o]
      BY <1>2 DEF IInv
  <2>2. ASSUME NEW e \in Devices
        PROVE  SignedIn(e)' \/ devices'[e] = devices[e] \/ devices[e] = NoOne
    <3>1. CASE e = d /\ sub /= NoOne
        BY <3>1, <1>1, <1>5 DEF SignedIn
    <3>2. QED
        BY <3>1, <1>5
  <2>3. call[o].pc = "rotate" =>
            tokens'[call[o].token].used = tokens[call[o].token].used
    <3>1. PICK s : s = call[o].token
        OBVIOUS
    <3>2. call[o].pc = "rotate" => s \in Issued
        BY <2>1, <3>1 DEF CallOK, Refreshes
    <3>3. call[o].pc = "rotate" => s /= call[c].token
        BY <1>1, <1>4, <1>6, <3>1, <3>2 DEF IInv, OneHolder
    <3>4. ASSUME s \in Issued PROVE tokens[s].used \in BOOLEAN
        BY <2>1, <3>4 DEF Tables, TokenRecords
    <3>5. ASSUME call[o].pc = "rotate" PROVE tokens'[s].used = tokens[s].used
        BY <3>2, <3>3, <3>4, <3>5, <1>1
    <3>6. QED
        BY <3>1, <3>5
  <2>4. call[o].pc = "revoke" =>
            \A s \in Issued' \ Issued : tokens'[s].from /= call[o].token
      BY <2>1, <1>1, <1>4, <1>6 DEF CallOK, Refreshes
  <2>5. call[o].newIdentity /= NoOne => identity'[call[o].sub] = NoOne
      OBVIOUS
  <2>6. QED
      BY <2>1, <2>2, <2>3, <2>4, <2>5, <1>7, CallKept
<1>11. OneHolder'
    BY <1>2 DEF IInv, OneHolder
<1>12. OneSuccessor'
  <2>1. \A a \in Issued : /\ tokens[a].from \notin Issued' \ Issued
                          /\ tokens[a].from = old => old = NoOne
      BY <1>1, <1>4, <1>6 DEF IInv, TokenOK
  <2>2. QED
      BY <2>1, <1>1, <1>4, <1>6 DEF IInv, OneSuccessor
<1>13. ASSUME NEW t \in reused' PROVE ReusedOK(t)'
  <2>1. t \in Issued /\ ReusedOK(t)
      BY DEF IInv, Tables
  <2>2. t /= old
      BY <2>1, <1>4, <1>6, <1>1 DEF ReusedOK
  <2>3. tokens'[t].used
      BY <2>1, <1>1 DEF ReusedOK
  <2>4. ASSUME NEW s \in Issued', s = t \/ tokens'[s].from = t
        PROVE  tokens'[s].revoked
    <3>1. s /= n
        BY <2>1, <2>2, <2>4, <1>1, <1>4
    <3>2. tokens[s].revoked
        BY <2>1, <2>4, <3>1, <1>1 DEF ReusedOK
    <3>3. QED
        BY <3>1, <3>2, <1>1
  <2>5. QED
      BY <2>3, <2>4 DEF ReusedOK
<1>14. QED
    BY <1>2, <1>3, <1>8, <1>9, <1>10, <1>11, <1>12, <1>13 DEF IInv

\* The account of the device answers a registration, or a sign-in goes on.
LEMMA HaveAccountIInv ==
    ASSUME IInv, NEW c \in Active, NEW u \in Users, NEW lock \in BOOLEAN,
           NEW new \in {NoOne, u}, call[c].pc \in {"touch", "create"},
           HaveAccount(c, u, lock, new),
           ~SignedIn(call[c].device) => u = devices[call[c].device] \/ new = u,
           new = u => devices[call[c].device] = NoOne
    PROVE  IInv'
<1>1. PICK d \in Devices : d = call[c].device
    BY DEF IInv, CallOK, Refreshes
<1>2. /\ Tables /\ CallOK(c) /\ ~Refreshes(c)
      /\ call[c].token = NoOne /\ call[c].newIdentity = NoOne
      /\ NoOne \notin Users
    BY AuthAssumption DEF IInv, CallOK, Refreshes
<1>3. SignedIn(call[c].device) <=> SignedIn(d)
    BY <1>1 DEF SignedIn
<1>4. CASE call[c].sub = NoOne
  <2>1. /\ devices' = IF new = NoOne THEN devices ELSE [devices EXCEPT ![d] = new]
        /\ IssuePair(c, u) /\ Done(c) /\ UNCHANGED <<identity, reused>>
      BY <1>1, <1>4 DEF HaveAccount
  <2>2. /\ devices' \in [Devices -> Users \cup {NoOne}]
        /\ \A e \in Devices \ {d} : devices'[e] = devices[e]
        /\ devices'[d] = IF new = NoOne THEN devices[d] ELSE u
      BY <1>2, <2>1 DEF Tables
  <2>3. \A o \in Active \ {c} :
            call[o].newIdentity /= NoOne => identity'[call[o].sub] = NoOne
      BY <2>1 DEF IInv, CallOK
  <2>4. identity' \in [Subs -> Users \cup {NoOne}]
      BY <1>2, <2>1 DEF Tables
  <2>5. /\ devices'[d] = devices[d] \/ (devices[d] = NoOne /\ devices'[d] = u)
        /\ ~SignedIn(d) => u = devices'[d]
    <3>1. CASE new = NoOne
      <4>1. devices'[d] = devices[d]
          BY <3>1, <2>2
      <4>2. ~SignedIn(d) => u = devices[d]
          BY <3>1, <1>1, <1>2, <1>3
      <4>3. QED
          BY <4>1, <4>2
    <3>2. CASE new = u
        BY <3>2, <1>1, <1>2, <2>2
    <3>3. QED
        BY <3>1, <3>2
  <2>6. QED
      BY <1>1, <1>2, <1>4, <2>1, <2>2, <2>3, <2>4, <2>5, IssueStep
<1>5. CASE call[c].sub /= NoOne
  <2>1. /\ To(c, [call[c] EXCEPT !.pc = "link", !.user = u, !.lock = lock,
                                 !.newDevice = new])
        /\ UNCHANGED <<devices, identity, tokens, reused>>
      BY <1>5 DEF HaveAccount
  <2>2. QED
      BY <1>2, <1>5, <2>1, LinkStep
<1>6. QED
    BY <1>4, <1>5

\* The account read before is still the account of a device nobody has
\* signed in on.
LEMMA TouchDeviceIInv == ASSUME IInv, NEW c \in Active, TouchDevice(c) PROVE IInv'
<1>1. PICK u \in Users : u = call[c].user
    BY DEF IInv, TouchDevice, CallOK
<1>2. HaveAccount(c, u, TRUE, NoOne) /\ call[c].pc = "touch"
    BY <1>1 DEF TouchDevice
<1>3. ~SignedIn(call[c].device) => u = devices[call[c].device]
    BY <1>1, <1>2 DEF IInv, CallOK
<1>4. NoOne /= u
    BY AuthAssumption
<1>5. QED
    BY <1>2, <1>3, <1>4, HaveAccountIInv

\* The row is created, or the row that won is read.
LEMMA CreateDeviceIInv == ASSUME IInv, NEW c \in Active, CreateDevice(c) PROVE IInv'
<1>1. PICK d \in Devices : d = call[c].device
    BY DEF IInv, CreateDevice, CallOK, Refreshes
<1>2. call[c].pc = "create" /\ NoOne \notin Users
    BY AuthAssumption DEF CreateDevice
<1>3. CASE devices[d] /= NoOne
  <2>1. PICK u \in Users : u = devices[d]
      BY <1>3 DEF IInv, Tables
  <2>2. HaveAccount(c, u, FALSE, NoOne)
      BY <1>1, <1>3, <2>1 DEF CreateDevice
  <2>3. QED
      BY <1>1, <1>2, <2>1, <2>2, HaveAccountIInv
<1>4. CASE devices[d] = NoOne
  <2>1. PICK u \in Users : HaveAccount(c, u, TRUE, u)
    <3>1. AnyOf(FreshUsers) \subseteq Users
        BY DEF AnyOf, FreshUsers
    <3>2. QED
        BY <1>1, <1>4, <3>1 DEF CreateDevice
  <2>2. QED
      BY <1>1, <1>2, <1>4, <2>1, HaveAccountIInv
<1>5. QED
    BY <1>3, <1>4

\* The device is bound to the account of the subject.
LEMMA UpsertDeviceIInv == ASSUME IInv, NEW c \in Active, UpsertDevice(c) PROVE IInv'
<1>1. PICK u \in Users, d \in Devices, sub \in Subs :
          u = call[c].user /\ d = call[c].device /\ sub = call[c].sub
    BY DEF IInv, UpsertDevice, CallOK, Refreshes
<1>2. /\ Tables /\ CallOK(c) /\ call[c].pc = "upsert" /\ call[c].token = NoOne
      /\ devices' = [devices EXCEPT ![d] = u]
      /\ identity' = IF call[c].newIdentity = NoOne THEN identity
                     ELSE [identity EXCEPT ![sub] = u]
      /\ IssuePair(c, u) /\ Done(c) /\ UNCHANGED reused
      /\ sub /= NoOne /\ NoOne \notin Users
    BY <1>1, AuthAssumption DEF IInv, UpsertDevice, CallOK, Refreshes
<1>3. /\ devices' \in [Devices -> Users \cup {NoOne}]
      /\ \A e \in Devices \ {d} : devices'[e] = devices[e]
      /\ devices'[d] = u
      /\ identity' \in [Subs -> Users \cup {NoOne}]
      /\ \A s \in Subs \ {sub} : identity'[s] = identity[s]
    BY <1>2 DEF Tables
<1>4. /\ identity'[sub] = u
      /\ \A s \in Subs : identity[s] /= NoOne => identity'[s] = identity[s]
    BY <1>1, <1>2 DEF Tables, CallOK
<1>5. ASSUME NEW o \in Active \ {c}, call[o].newIdentity /= NoOne
      PROVE  identity'[call[o].sub] = NoOne
  <2>1. CallOK(o) /\ call[o].pc = "upsert"
      BY <1>5 DEF IInv, CallOK
  <2>2. call[o].sub \in Subs /\ identity[call[o].sub] = NoOne
      BY <1>5, <2>1 DEF CallOK
  <2>3. call[o].sub = sub => identity' = identity
      BY <1>1, <1>2, <1>5 DEF IInv, OneHolder
  <2>4. QED
      BY <1>3, <2>2, <2>3
<1>6. QED
    BY <1>1, <1>2, <1>3, <1>4, <1>5, IssueStep

\* The token that is held is exchanged, on its account and device.
LEMMA RotateIInv == ASSUME IInv, NEW c \in Active, Rotate(c) PROVE IInv'
<1>1. PICK u \in Users, t \in Issued : u = call[c].user /\ t = call[c].token
    BY DEF IInv, Rotate, CallOK, Refreshes, Tables, TokenRecords
<1>2. /\ Tables /\ CallOK(c) /\ call[c].pc = "rotate" /\ call[c].sub = NoOne
      /\ IssuePair(c, u) /\ Done(c) /\ UNCHANGED <<devices, identity, reused>>
      /\ u = tokens[t].user /\ call[c].device = tokens[t].device
    BY <1>1 DEF IInv, Rotate, CallOK, Refreshes
<1>3. PICK d \in Devices : d = call[c].device
    BY <1>2 DEF Tables, TokenRecords
<1>4. ~SignedIn(d) => u = devices[d]
    BY <1>2, <1>3 DEF IInv, DeviceOK
<1>5. /\ devices' \in [Devices -> Users \cup {NoOne}]
      /\ identity' \in [Subs -> Users \cup {NoOne}]
      /\ \A o \in Active \ {c} :
            call[o].newIdentity /= NoOne => identity'[call[o].sub] = NoOne
    BY <1>2 DEF IInv, Tables, CallOK
<1>6. QED
    BY <1>1, <1>2, <1>3, <1>4, <1>5, IssueStep

-----------------------------------------------------------------------------
(* The invariant, and what follows from it.                                *)

\* The initial state satisfies the inductive invariant.
LEMMA InitIInv == AuthInit => IInv
<1> SUFFICES ASSUME AuthInit PROVE IInv
    OBVIOUS
<1>1. Issued = {} /\ Active = {} /\ reused = {}
    BY DEF AuthInit, Issued, Active
<1>2. Tables
    BY <1>1 DEF AuthInit, Tables
<1>3. QED
    BY <1>1, <1>2 DEF IInv, DeviceOK, SignedIn, OneHolder, OneSuccessor

\* Every step preserves it.
LEMMA NextIInv == IInv /\ [AuthNext]_authVars => IInv'
<1> SUFFICES ASSUME IInv, [AuthNext]_authVars PROVE IInv'
    OBVIOUS
<1>1. CASE UNCHANGED authVars
  <2>1. UNCHANGED <<devices, identity, tokens, call, reused>>
      BY <1>1 DEF authVars
  <2>2. Issued' = Issued /\ Active' = Active
      BY <2>1 DEF Issued, Active
  <2>3. Tables' /\ OneHolder'
      BY <2>1, <2>2 DEF IInv, Tables, OneHolder
  <2>4. ASSUME NEW o \in Active PROVE CallOK(o)'
    <3>1. Tables /\ CallOK(o) /\ Grow
        BY <2>1, <2>2 DEF IInv, Grow
    <3>2. call[o].newIdentity /= NoOne => identity'[call[o].sub] = NoOne
        BY <2>1, <3>1 DEF CallOK
    <3>3. QED
        BY <2>1, <2>2, <3>1, <3>2, CallKept
  <2>5. QED
      BY <2>1, <2>2, <2>3, <2>4, TablesKept DEF IInv
<1>2. ASSUME NEW c \in Calls, NEW d \in Devices,
             Register(c, d) \/ \E s \in Subs : SignIn(c, d, s)
      PROVE  IInv'
    BY <1>2, RegisterIInv, SignInIInv
<1>3. ASSUME NEW c \in Calls, NEW t \in Issued, Refresh(c, t) PROVE IInv'
    BY <1>3, RefreshIInv
<1>4. ASSUME NEW c \in Active,
             \/ FindDevice(c) \/ TouchDevice(c) \/ CreateDevice(c)
             \/ ChooseAccount(c) \/ LinkIdentity(c) \/ UpsertDevice(c)
             \/ ClaimToken(c) \/ Rotate(c) \/ RevokeChain(c) \/ AbortCall(c)
      PROVE  IInv'
    BY <1>4, FindDeviceIInv, TouchDeviceIInv, CreateDeviceIInv, ChooseAccountIInv,
       LinkIdentityIInv, UpsertDeviceIInv, ClaimTokenIInv, RotateIInv,
       RevokeChainIInv, AbortCallIInv
<1>5. QED
    BY <1>1, <1>2, <1>3, <1>4 DEF AuthNext

\* Every reachable state satisfies the inductive invariant.
LEMMA Invariance == AuthSpec => []IInv
    BY InitIInv, NextIInv, PTL DEF AuthSpec

\* Every row and every request is well formed.
THEOREM AuthTypeCorrect == AuthSpec => []AuthTypeOK
<1>1. IInv => AuthTypeOK
  <2> SUFFICES ASSUME IInv PROVE AuthTypeOK
      OBVIOUS
  <2>1. tokens \in [Issued -> [user: Users, device: Devices, used: BOOLEAN,
                               revoked: BOOLEAN, from: Issued \cup {NoOne},
                               sub: Subs \cup {NoOne}]]
    <3>1. ASSUME NEW t \in Issued
          PROVE  tokens[t] \in [user: Users, device: Devices, used: BOOLEAN,
                                revoked: BOOLEAN, from: Issued \cup {NoOne},
                                sub: Subs \cup {NoOne}]
        BY DEF IInv, Tables, TokenRecords, TokenOK
    <3>2. QED
        BY <3>1 DEF IInv, Tables
  <2>2. \A c \in Active :
            call[c].pc \in {"touch", "link", "identity", "upsert", "rotate"} =>
                call[c].user \in Users
      BY DEF IInv, Tables, TokenRecords, CallOK, Refreshes
  <2>3. QED
      BY <2>1, <2>2 DEF IInv, Tables, CallRecords, AuthTypeOK
<1>2. QED
    BY <1>1, Invariance, PTL

\* All sign-ins of a subject and all registrations of a device get one account.
THEOREM AccountsConvergeHolds == AuthSpec => []AccountsConverge
<1>1. IInv => AccountsConverge
  <2> SUFFICES ASSUME IInv PROVE AccountsConverge
      OBVIOUS
  <2>1. \A t \in Issued : tokens[t].sub /= NoOne =>
            tokens[t].user = identity[tokens[t].sub]
      BY DEF IInv, TokenOK
  <2>2. ASSUME NEW d \in Devices
        PROVE  LET here == {t \in Issued : tokens[t].device = d}
                   subs == {tokens[t].sub : t \in here} \ {NoOne} IN
               IF subs = {} THEN \A t \in here : tokens[t].user = devices[d]
               ELSE \E s \in subs : devices[d] = identity[s]
    <3> DEFINE here == {t \in Issued : tokens[t].device = d}
               subs == {tokens[t].sub : t \in here} \ {NoOne}
    <3>1. DeviceOK(d)
        BY DEF IInv
    <3>2. SignedIn(d) <=> subs /= {}
        BY DEF SignedIn
    <3>3. CASE SignedIn(d)
        BY <2>1, <3>1, <3>2, <3>3 DEF DeviceOK
    <3>4. CASE ~SignedIn(d)
        BY <3>1, <3>2, <3>4 DEF DeviceOK
    <3>5. QED
        BY <3>3, <3>4
  <2>3. QED
      BY <2>1, <2>2 DEF AccountsConverge
<1>2. QED
    BY <1>1, Invariance, PTL

\* A refresh token is exchanged once, and a second use leaves nothing live.
THEOREM ReuseRevokesHolds == AuthSpec => []ReuseRevokes
<1>1. IInv => ReuseRevokes
    BY DEF IInv, OneSuccessor, ReusedOK, ReuseRevokes
<1>2. QED
    BY <1>1, Invariance, PTL

-----------------------------------------------------------------------------
(* The rate limits.  The invariant says what a log of refused and admitted *)
(* attempts still knows of the admitted ones: in the window, every one.    *)

\* A log is in the order of its stamps, none of them to come.
Sorted(log) == /\ \A i \in 1..Len(log) : log[i] <= clock
               /\ \A i, j \in 1..Len(log) : i <= j => log[i] <= log[j]

\* Attempts still in the window: counted from the end, a stamp is no older
\* than the admitted attempt.
Covered(log, through) ==
    \A i \in 1..Len(through) :
        through[i] > clock - Window =>
            LET p == Len(log) - (Len(through) - i) IN
            p >= 1 /\ log[p] >= through[i]

LimitOK(k) == /\ Sorted(stamps[k])
              /\ Sorted(admitted[k])
              /\ Covered(stamps[k], admitted[k])
              /\ \A i, j \in 1..Len(admitted[k]) :
                    admitted[k][j] - admitted[k][i] < Window =>
                        j - i < Limit[k]

RateTypeOK == /\ clock \in Nat
              /\ stamps \in [RateKeys -> Seq(Nat)]
              /\ admitted \in [RateKeys -> Seq(Nat)]

RateInv == RateTypeOK /\ \A k \in RateKeys : LimitOK(k)

\* What Allow makes of a log: a stamp in the window stays, as far from the
\* end as before but for the new one.
LEMMA AllowKeeps ==
    ASSUME NEW log \in Seq(Nat), Sorted(log), clock \in Nat
    PROVE  LET new == Allow(log) IN
           /\ new \in Seq(Nat)
           /\ Sorted(new)
           /\ Len(new) >= 1 /\ new[Len(new)] = clock
           /\ \A p \in 1..Len(log) :
                 log[p] > clock - Window =>
                     LET q == Len(new) - 1 - (Len(log) - p) IN
                     q \in 1..(Len(new) - 1) /\ new[q] = log[p]
<1> DEFINE gone == {i \in 1..Len(log) : log[i] <= clock - Window}
           c == Cardinality(gone)
           kept == SubSeq(log, c + 1, Len(log))
<1>0. Window \in Nat /\ Len(log) \in Nat /\ \A i \in 1..Len(log) : log[i] \in Nat
  BY RateAssumption
<1>1. IsFiniteSet(1..Len(log)) /\ Cardinality(1..Len(log)) = Len(log)
  BY <1>0, FS_Interval
<1>2. IsFiniteSet(gone) /\ c \in Nat /\ c <= Len(log)
  <2>1. gone \subseteq 1..Len(log)
    OBVIOUS
  <2> HIDE DEF gone
  <2> QED
    BY <2>1, <1>1, FS_Subset, FS_CardinalityType
<1>3. \A p \in 1..Len(log) : log[p] > clock - Window => c <= p - 1
  <2> SUFFICES ASSUME NEW p \in 1..Len(log), log[p] > clock - Window
               PROVE  c <= p - 1
    OBVIOUS
  <2>1. gone \subseteq 1..(p - 1)
    <3> SUFFICES ASSUME NEW i \in 1..Len(log), log[i] <= clock - Window, i >= p
                 PROVE  FALSE
      BY <1>0
    <3>1. log[p] <= log[i]
      BY <1>0 DEF Sorted
    <3> QED
      BY <3>1, <1>0
  <2>2. IsFiniteSet(1..(p - 1)) /\ Cardinality(1..(p - 1)) = p - 1
    <3>1. 1 \in Int /\ p - 1 \in Int /\ 1 <= p
      BY <1>0
    <3>2. /\ IsFiniteSet(1..(p - 1))
          /\ Cardinality(1..(p - 1)) = IF 1 > p - 1 THEN 0 ELSE (p - 1) - 1 + 1
      BY <3>1, FS_Interval
    <3> QED
      BY <3>1, <3>2
  <2> HIDE DEF gone
  <2> QED
    BY <2>1, <2>2, FS_Subset, FS_CardinalityType, ZenonT(40)
<1>4. /\ kept \in Seq(Nat)
      /\ Len(kept) = Len(log) - c
      /\ \A i \in 1..(Len(log) - c) : kept[i] = log[c + i]
  <2> HIDE DEF gone
  <2>1. \A i \in (c + 1)..Len(log) : log[i] \in Nat
    BY <1>0, <1>2
  <2>2. c + 1 \in Int /\ Len(log) \in Int
    BY <1>0, <1>2
  <2> HIDE DEF c
  <2>3. /\ SubSeq(log, c + 1, Len(log)) \in Seq(Nat)
        /\ Len(SubSeq(log, c + 1, Len(log)))
              = IF c + 1 <= Len(log) THEN Len(log) - (c + 1) + 1 ELSE 0
        /\ \A i \in 1..(Len(log) - (c + 1) + 1) :
              SubSeq(log, c + 1, Len(log))[i] = log[c + 1 + i - 1]
    BY <2>1, <2>2, SubSeqProperties
  <2> QED
    BY <2>3, <1>0, <1>2
<1>5. Allow(log) = Append(kept, clock)
  BY DEF Allow, After
<1> HIDE DEF kept, c, gone
<1>6. /\ Append(kept, clock) \in Seq(Nat)
      /\ Len(Append(kept, clock)) = Len(kept) + 1
      /\ \A i \in 1..Len(kept) : Append(kept, clock)[i] = kept[i]
      /\ Append(kept, clock)[Len(kept) + 1] = clock
  BY <1>4, AppendProperties
<1> DEFINE new == Allow(log)
<1>7. /\ new \in Seq(Nat) /\ Len(new) = Len(log) - c + 1
      /\ \A i \in 1..(Len(log) - c) : new[i] = log[c + i]
      /\ new[Len(log) - c + 1] = clock
  BY <1>4, <1>5, <1>6
<1> HIDE DEF new
<1>8. Sorted(new)
  <2>1. ASSUME NEW i \in 1..(Len(log) - c) PROVE new[i] <= clock
    <3>1. c + i \in 1..Len(log) /\ new[i] = log[c + i]
      BY <1>7, <1>0, <1>2
    <3> QED
      BY <3>1 DEF Sorted
  <2>2. \A i, j \in 1..(Len(log) - c) : i <= j => new[i] <= new[j]
    <3> SUFFICES ASSUME NEW i \in 1..(Len(log) - c), NEW j \in 1..(Len(log) - c),
                        i <= j
                 PROVE  new[i] <= new[j]
      OBVIOUS
    <3>1. c + i \in 1..Len(log) /\ c + j \in 1..Len(log) /\ c + i <= c + j
      BY <1>0, <1>2
    <3> QED
      BY <3>1, <1>7 DEF Sorted
  <2>3. \A i \in 1..Len(new) : i \in 1..(Len(log) - c) \/ i = Len(new)
    <3>1. PICK n \in Nat : n = Len(log) - c
      BY <1>0, <1>2
    <3>2. Len(new) = n + 1
      BY <3>1, <1>7
    <3> QED
      BY <3>1, <3>2
  <2>4. new[Len(new)] = clock
    BY <1>7
  <2>5. \A i \in 1..Len(new) : new[i] <= clock
    BY <2>1, <2>3, <2>4
  <2>6. \A i \in 1..(Len(log) - c) : ~(Len(new) <= i)
    BY <1>7, <1>0, <1>2
  <2>7. \A i, j \in 1..Len(new) : i <= j => new[i] <= new[j]
    <3> SUFFICES ASSUME NEW i \in 1..Len(new), NEW j \in 1..Len(new), i <= j
                 PROVE  new[i] <= new[j]
      OBVIOUS
    <3>1. CASE j = Len(new)
      BY <3>1, <2>4, <2>5
    <3>2. CASE j \in 1..(Len(log) - c) /\ i \in 1..(Len(log) - c)
      BY <3>2, <2>2
    <3>3. CASE j \in 1..(Len(log) - c) /\ i = Len(new)
      BY <3>3, <2>6
    <3> QED
      BY <3>1, <3>2, <3>3, <2>3
  <2> QED
    BY <2>5, <2>7 DEF Sorted
<1>9. ASSUME NEW p \in 1..Len(log), log[p] > clock - Window
      PROVE  LET q == Len(new) - 1 - (Len(log) - p) IN
             q \in 1..(Len(new) - 1) /\ new[q] = log[p]
  <2>1. c <= p - 1
    BY <1>3, <1>9
  <2>2. Len(new) - 1 - (Len(log) - p) = p - c /\ p - c \in 1..(Len(log) - c)
    BY <2>1, <1>7, <1>0, <1>2
  <2>3. new[p - c] = log[c + (p - c)] /\ c + (p - c) = p
    BY <2>2, <1>7, <1>2
  <2> QED
    BY <2>2, <2>3, <1>7
<1> QED
  BY <1>7, <1>8, <1>9, <1>0, <1>2 DEF new

\* An attempt keeps a key within its limit, whether it is admitted or not.
LEMMA EnforceKeeps ==
    ASSUME RateInv, NEW r \in Routes, Enforce(r), NEW k \in RateKeys
    PROVE  LimitOK(k)'
<1> DEFINE s == stamps[k]
           a == admitted[k]
           new == Allow(s)
<1>0. /\ Window \in Nat /\ Window > 0 /\ clock \in Nat /\ clock' = clock
      /\ s \in Seq(Nat) /\ a \in Seq(Nat) /\ Limit[k] \in Nat
      /\ Sorted(s) /\ Sorted(a) /\ Covered(s, a)
      /\ \A i, j \in 1..Len(a) : a[j] - a[i] < Window => j - i < Limit[k]
  BY RateAssumption DEF RateInv, RateTypeOK, LimitOK, Enforce
<1>1. CASE k \notin Reached(r)
  <2>1. stamps'[k] = s /\ admitted'[k] = a
    BY <1>1 DEF Enforce
  <2> QED
    BY <2>1, <1>0 DEF LimitOK, Sorted, Covered
<1>2. CASE k \in Reached(r)
  <2>1. /\ stamps'[k] = new
        /\ admitted'[k] = IF Admits(k) THEN Append(a, clock) ELSE a
    BY <1>2 DEF Enforce
  <2>2. /\ new \in Seq(Nat) /\ Sorted(new)
        /\ Len(new) >= 1 /\ new[Len(new)] = clock
        /\ \A p \in 1..Len(s) :
              s[p] > clock - Window =>
                  LET q == Len(new) - 1 - (Len(s) - p) IN
                  q \in 1..(Len(new) - 1) /\ new[q] = s[p]
    BY <1>0, AllowKeeps
  <2>3. Len(s) \in Nat /\ Len(a) \in Nat /\ Len(new) \in Nat
        /\ (\A i \in 1..Len(s) : s[i] \in Nat)
        /\ (\A i \in 1..Len(a) : a[i] \in Nat)
        /\ (\A i \in 1..Len(new) : new[i] \in Nat)
    <3> HIDE DEF new, s, a
    <3> QED
      BY <1>0, <2>2, SMTT(40)
  <2>4. ASSUME NEW i \in 1..Len(a), a[i] > clock - Window
        PROVE  LET q == Len(new) - 1 - (Len(a) - i) IN
               q \in 1..(Len(new) - 1) /\ new[q] >= a[i]
    <3> DEFINE p == Len(s) - (Len(a) - i)
    <3>1. p >= 1 /\ s[p] >= a[i]
      BY <2>4, <1>0 DEF Covered
    <3>2. p \in 1..Len(s)
      <4>1. PICK m \in Nat : m = Len(s)
        BY <2>3
      <4>2. PICK n \in Nat : n = Len(a)
        BY <2>3
      <4>3. p = m - (n - i) /\ i \in 1..n /\ p >= 1
        BY <4>1, <4>2, <3>1
      <4> HIDE DEF p
      <4> QED
        BY <4>1, <4>3
    <3>3. s[p] > clock - Window
      <4> HIDE DEF p, s, a
      <4>1. s[p] \in Nat /\ a[i] \in Nat /\ clock - Window \in Int
        BY <3>2, <2>3, <1>0
      <4> QED
        BY <3>1, <4>1, <2>4
    <3>4. Len(s) - p = Len(a) - i
      BY <2>3
    <3> HIDE DEF p
    <3>5. LET q == Len(new) - 1 - (Len(s) - p) IN
          q \in 1..(Len(new) - 1) /\ new[q] = s[p]
      BY <3>2, <3>3, <2>2
    <3> QED
      BY <3>1, <3>4, <3>5
  <2> HIDE DEF new, s, a
  <2>5. CASE ~Admits(k)
    <3>1. Covered(new, a)
      <4> SUFFICES ASSUME NEW i \in 1..Len(a), a[i] > clock - Window
                   PROVE  LET p == Len(new) - (Len(a) - i) IN
                          p >= 1 /\ new[p] >= a[i]
        BY DEF Covered
      <4> DEFINE q == Len(new) - 1 - (Len(a) - i)
      <4>1. q \in 1..(Len(new) - 1) /\ new[q] >= a[i]
        BY <2>4
      <4>2. Len(new) - (Len(a) - i) = q + 1
        BY <2>3
      <4> HIDE DEF q
      <4>3. q \in 1..Len(new) /\ q + 1 \in 1..Len(new) /\ q <= q + 1
        BY <4>1, <2>3
      <4>4. new[q] <= new[q + 1]
        BY <4>3, <2>2 DEF Sorted
      <4>5. new[q] \in Nat /\ new[q + 1] \in Nat /\ a[i] \in Nat
        BY <4>3, <2>3
      <4>6. new[q + 1] >= a[i] /\ q + 1 >= 1
        BY <4>1, <4>3, <4>4, <4>5
      <4> QED
        BY <4>2, <4>6
    <3> QED
      BY <3>1, <2>1, <2>2, <2>5, <1>0 DEF LimitOK, Sorted, Covered
  <2>6. CASE Admits(k)
    <3> DEFINE b == Append(a, clock)
    <3>1. /\ b \in Seq(Nat) /\ Len(b) = Len(a) + 1
          /\ \A i \in 1..Len(a) : b[i] = a[i]
          /\ b[Len(a) + 1] = clock
      BY <1>0, AppendProperties
    <3> HIDE DEF b
    <3>2. Len(new) <= Limit[k]
      BY <2>6 DEF Admits, new, s
    <3>3. \A i \in 1..Len(b) : i \in 1..Len(a) \/ i = Len(a) + 1
      BY <3>1, <2>3
    <3>4. Sorted(b)
      <4>1. \A i \in 1..Len(b) : b[i] <= clock
        <5> SUFFICES ASSUME NEW i \in 1..Len(b) PROVE b[i] <= clock
          OBVIOUS
        <5>1. CASE i \in 1..Len(a)
          BY <5>1, <3>1, <1>0 DEF Sorted
        <5>2. CASE i = Len(a) + 1
          BY <5>2, <3>1, <1>0
        <5> QED
          BY <5>1, <5>2, <3>3
      <4>2. \A i \in 1..Len(a) : ~(Len(a) + 1 <= i)
        BY <2>3
      <4>3. \A i, j \in 1..Len(a) : i <= j => b[i] <= b[j]
        BY <3>1, <1>0 DEF Sorted
      <4>4. \A i, j \in 1..Len(b) : i <= j => b[i] <= b[j]
        <5> SUFFICES ASSUME NEW i \in 1..Len(b), NEW j \in 1..Len(b), i <= j
                     PROVE  b[i] <= b[j]
          OBVIOUS
        <5>1. CASE j = Len(a) + 1
          BY <5>1, <4>1, <3>1
        <5>2. CASE j \in 1..Len(a) /\ i \in 1..Len(a)
          BY <5>2, <4>3
        <5>3. CASE j \in 1..Len(a) /\ i = Len(a) + 1
          BY <5>3, <4>2
        <5> QED
          BY <5>1, <5>2, <5>3, <3>3
      <4> QED
        BY <4>1, <4>4 DEF Sorted
    <3>5. Covered(new, b)
      <4> SUFFICES ASSUME NEW i \in 1..Len(b), b[i] > clock - Window
                   PROVE  LET p == Len(new) - (Len(b) - i) IN
                          p >= 1 /\ new[p] >= b[i]
        BY DEF Covered
      <4>1. CASE i = Len(a) + 1
        <5>1. Len(new) - (Len(b) - i) = Len(new)
          BY <4>1, <3>1, <2>3
        <5> QED
          BY <5>1, <4>1, <3>1, <2>2, <1>0
      <4>2. CASE i \in 1..Len(a)
        <5>1. Len(new) - (Len(b) - i) = Len(new) - 1 - (Len(a) - i)
          BY <3>1, <2>3
        <5>2. LET q == Len(new) - 1 - (Len(a) - i) IN
              q \in 1..(Len(new) - 1) /\ new[q] >= a[i]
          BY <4>2, <3>1, <2>4
        <5> QED
          BY <5>1, <5>2, <4>2, <3>1, <2>3
      <4> QED
        BY <4>1, <4>2, <3>3
    <3>6. ASSUME NEW i \in 1..Len(b), NEW j \in 1..Len(b), b[j] - b[i] < Window
          PROVE  j - i < Limit[k]
      <4>1. CASE i \in 1..Len(a) /\ j \in 1..Len(a)
        BY <4>1, <3>6, <3>1, <1>0
      <4>2. CASE i = Len(a) + 1
        BY <4>2, <3>2, <2>2, <2>3, <3>1, <1>0
      <4>3. CASE i \in 1..Len(a) /\ j = Len(a) + 1
        <5>1. a[i] > clock - Window
          BY <4>3, <3>6, <3>1, <2>3, <1>0, SMTT(40)
        <5>2. Len(new) - 1 - (Len(a) - i) >= 1
          BY <5>1, <4>3, <2>4, <2>3
        <5> QED
          BY <5>2, <4>3, <3>2, <2>3, <1>0, SMTT(40)
      <4> QED
        BY <4>1, <4>2, <4>3, <3>3
    <3> QED
      BY <3>4, <3>5, <3>6, <2>1, <2>2, <2>6, <1>0 DEF LimitOK, Sorted, Covered, b
  <2> QED
    BY <2>5, <2>6
<1> QED
  BY <1>1, <1>2

\* The limiter is well typed and its invariant holds.
LEMMA RateInvariance == RateSpec => []RateInv
<1>1. RateInit => RateInv
  <2> SUFFICES ASSUME RateInit PROVE RateInv
    OBVIOUS
  <2>1. clock = 0 /\ stamps = [k \in RateKeys |-> <<>>] /\ admitted = stamps
    BY DEF RateInit, NoStamps
  <2>2. <<>> \in Seq(Nat) /\ Len(<<>>) = 0
    BY EmptySeq
  <2> QED
    BY <2>1, <2>2 DEF RateInv, RateTypeOK, LimitOK, Sorted, Covered
<1>2. RateInv /\ [RateNext]_rateVars => RateInv'
  <2> SUFFICES ASSUME RateInv, [RateNext]_rateVars PROVE RateInv'
    OBVIOUS
  <2>0. /\ clock \in Nat /\ Window \in Nat
        /\ stamps \in [RateKeys -> Seq(Nat)]
        /\ admitted \in [RateKeys -> Seq(Nat)]
        /\ \A k \in RateKeys : LimitOK(k)
    BY RateAssumption DEF RateInv, RateTypeOK
  <2>1. CASE UNCHANGED rateVars
    <3>1. clock' = clock /\ stamps' = stamps /\ admitted' = admitted
      BY <2>1 DEF rateVars
    <3> QED
      BY <3>1, <2>0 DEF RateInv, RateTypeOK, LimitOK, Sorted, Covered
  <2>2. ASSUME NEW r \in Routes, Enforce(r) PROVE RateInv'
    <3>1. \A k \in RateKeys : LimitOK(k)'
      BY <2>2, EnforceKeeps
    <3>2. ASSUME NEW k \in RateKeys
          PROVE  Allow(stamps[k]) \in Seq(Nat) /\ Append(admitted[k], clock) \in Seq(Nat)
      <4>1. stamps[k] \in Seq(Nat) /\ admitted[k] \in Seq(Nat) /\ Sorted(stamps[k])
        BY <2>0 DEF LimitOK
      <4> QED
        BY <4>1, <2>0, AllowKeeps, AppendProperties
    <3>3. RateTypeOK'
      BY <2>0, <2>2, <3>2 DEF RateTypeOK, Enforce
    <3> QED
      BY <3>1, <3>3 DEF RateInv
  <2>3. ASSUME NEW l \in RateKeys, Lose(l) PROVE RateInv'
    <3>1. /\ clock' = clock
          /\ stamps' = [stamps EXCEPT ![l] = <<>>]
          /\ admitted' = [admitted EXCEPT ![l] = <<>>]
      BY <2>3 DEF Lose, NoStamps
    <3>2. <<>> \in Seq(Nat) /\ Len(<<>>) = 0
      BY EmptySeq
    <3>3. RateTypeOK'
      BY <3>1, <3>2, <2>0 DEF RateTypeOK
    <3>4. ASSUME NEW k \in RateKeys PROVE LimitOK(k)'
      <4>1. CASE k = l
        <5>1. stamps'[k] = <<>> /\ admitted'[k] = <<>>
          BY <4>1, <3>1, <2>0
        <5> QED
          BY <5>1, <3>2 DEF LimitOK, Sorted, Covered
      <4>2. CASE k /= l
        <5>1. stamps'[k] = stamps[k] /\ admitted'[k] = admitted[k]
          BY <4>2, <3>1, <2>0
        <5>2. LimitOK(k)
          BY <2>0
        <5> QED
          BY <5>1, <5>2, <3>1 DEF LimitOK, Sorted, Covered
      <4> QED
        BY <4>1, <4>2
    <3> QED
      BY <3>3, <3>4 DEF RateInv
  <2>4. CASE Tick
    <3>1. clock' = clock + 1 /\ stamps' = stamps /\ admitted' = admitted
      BY <2>4 DEF Tick
    <3>2. ASSUME NEW k \in RateKeys PROVE LimitOK(k)'
      <4>1. LimitOK(k) /\ stamps[k] \in Seq(Nat) /\ admitted[k] \in Seq(Nat)
        BY <2>0
      <4>2. /\ \A i \in 1..Len(stamps[k]) : stamps[k][i] \in Nat
            /\ \A i \in 1..Len(admitted[k]) : admitted[k][i] \in Nat
        BY <4>1
      <4>3. Sorted(stamps[k])' /\ Sorted(admitted[k])'
        BY <4>1, <4>2, <3>1, <2>0 DEF LimitOK, Sorted
      <4>4. Covered(stamps[k], admitted[k])'
        <5>1. Covered(stamps[k], admitted[k])
          BY <4>1 DEF LimitOK
        <5>2. \A i \in 1..Len(admitted[k]) :
                 admitted[k][i] > clock' - Window =>
                     admitted[k][i] > clock - Window
          BY <4>2, <3>1, <2>0
        <5> QED
          BY <5>1, <5>2, <3>1 DEF Covered
      <4> QED
        BY <4>1, <4>3, <4>4, <3>1 DEF LimitOK
    <3> QED
      BY <3>1, <3>2, <2>0 DEF RateInv, RateTypeOK
  <2> QED
    BY <2>1, <2>2, <2>3, <2>4 DEF RateNext
<1> QED
  BY <1>1, <1>2, PTL DEF RateSpec

\* No window has more admitted attempts on a key than its limit, for any
\* routes, limits and window, however many attempts are refused in between
\* (_allow, api_gateway/rate_limit.py).
THEOREM WindowBoundHolds == RateSpec => []WindowBound
<1>1. RateInv => WindowBound
  BY DEF RateInv, LimitOK, WindowBound
<1> QED
  BY <1>1, RateInvariance, PTL

-----------------------------------------------------------------------------
(* The catalogue: days and months.                                         *)

\* A month has 28 to 31 days.
LEMMA MonthHasDays ==
    ASSUME NEW m \in Nat PROVE MonthDays(m) \in 28..31
BY DEF MonthDays

\* The recursion of DaysBefore has a solution: the days add up month by month.
LEMMA DaysAddUp ==
    /\ DaysBefore \in [Nat -> Nat]
    /\ DaysBefore[0] = 0
    /\ \A m \in Nat : DaysBefore[m + 1] = DaysBefore[m] + MonthDays(m)
<1> DEFINE Solves(f) ==
               f = [m \in Nat |-> IF m = 0 THEN 0 ELSE f[m - 1] + MonthDays(m - 1)]
           step == [p \in Nat \X Nat |-> p[1] + MonthDays(p[2])]
<1>1. step \in [Nat \X Nat -> Nat]
  BY MonthHasDays
<1>2. PICK h \in [Nat -> Nat] : Iterates(h, 0, step)
  <2> HIDE DEF step
  <2> QED
    BY <1>1, Iteration
<1>3. \A m \in Nat : h[m + 1] = h[m] + MonthDays(m)
  BY <1>2 DEF Iterates
<1>4. \A m \in Nat : h[m] = IF m = 0 THEN 0 ELSE h[m - 1] + MonthDays(m - 1)
  <2> SUFFICES ASSUME NEW m \in Nat
               PROVE  h[m] = IF m = 0 THEN 0 ELSE h[m - 1] + MonthDays(m - 1)
    OBVIOUS
  <2>1. CASE m = 0
    BY <1>2, <2>1 DEF Iterates
  <2>2. CASE m /= 0
    <3>1. PICK k \in Nat : k = m - 1 /\ m = k + 1
      BY <2>2
    <3> QED
      BY <1>3, <2>2, <3>1
  <2> QED
    BY <2>1, <2>2
<1>5. Solves(h)
  BY <1>4
<1>6. Solves(DaysBefore)
  <2>1. DaysBefore = CHOOSE f : Solves(f)
    BY DEF DaysBefore
  <2> HIDE DEF Solves
  <2>2. \E f : Solves(f)
    BY <1>5
  <2> QED
    BY <2>1, <2>2, Zenon
<1>7. \A m \in Nat :
          DaysBefore[m] = IF m = 0 THEN 0 ELSE DaysBefore[m - 1] + MonthDays(m - 1)
  BY <1>6
<1>8. \A m \in Nat : DaysBefore[m + 1] = DaysBefore[m] + MonthDays(m)
  BY <1>7
<1>9. \A m \in Nat : DaysBefore[m] \in Nat
  <2> DEFINE T == {m \in Nat : DaysBefore[m] \in Nat}
  <2>1. 0 \in T
    BY <1>7
  <2>2. ASSUME NEW m \in Nat, m \in T PROVE m + 1 \in T
    BY <1>8, <2>2, MonthHasDays
  <2> HIDE DEF T
  <2>3. \A m \in Nat : m \in T
    BY <2>1, <2>2, NumberInduction
  <2> QED
    BY <2>3 DEF T
<1>10. DaysBefore \in [Nat -> Nat]
  BY <1>6, <1>9
<1> QED
  BY <1>7, <1>8, <1>10

\* Months come one after the other.
LEMMA MonthsAreInOrder ==
    ASSUME NEW i \in Nat, NEW j \in Nat, i <= j
    PROVE  DaysBefore[j] - DaysBefore[i] >= j - i
<1> DEFINE T == {d \in Nat : DaysBefore[i + d] - DaysBefore[i] >= d}
<1>1. 0 \in T
  BY DaysAddUp
<1>2. ASSUME NEW d \in Nat, d \in T PROVE d + 1 \in T
  <2>1. PICK k \in Nat : k = i + d /\ k + 1 = i + (d + 1)
    OBVIOUS
  <2>2. DaysBefore[k + 1] = DaysBefore[k] + MonthDays(k)
    BY DaysAddUp
  <2>3. MonthDays(k) \in 28..31
    BY MonthHasDays
  <2>4. DaysBefore[k] \in Nat /\ DaysBefore[i] \in Nat
    BY DaysAddUp
  <2> QED
    BY <1>2, <2>1, <2>2, <2>3, <2>4
<1> HIDE DEF T
<1>3. \A d \in Nat : d \in T
  BY <1>1, <1>2, NumberInduction
<1>4. PICK d \in Nat : d = j - i /\ i + d = j
  OBVIOUS
<1> QED
  BY <1>3, <1>4 DEF T

\* Every day belongs to a month.
LEMMA EveryDayHasAMonth ==
    ASSUME NEW number \in Nat, number > 0
    PROVE  \E m \in 0..number :
               DaysBefore[m] < number /\ number <= DaysBefore[m + 1]
<1> DEFINE T == {k \in Nat : DaysBefore[k] < number =>
                    \E m \in Nat : m >= k /\ DaysBefore[m] < number
                                   /\ number <= DaysBefore[m + 1]}
           S == {d \in Nat : \A k \in Nat : k + d = number => k \in T}
<1>1. \A k \in Nat : DaysBefore[k] \in Nat /\ DaysBefore[k] >= k
  <2> SUFFICES ASSUME NEW k \in Nat
               PROVE  DaysBefore[k] \in Nat /\ DaysBefore[k] >= k
    OBVIOUS
  <2>1. DaysBefore[k] - DaysBefore[0] >= k - 0
    BY MonthsAreInOrder
  <2> QED
    BY <2>1, DaysAddUp
<1>2. 0 \in S
  <2>1. ~(DaysBefore[number] < number)
    BY <1>1
  <2>2. number \in T
    BY <2>1
  <2> HIDE DEF T
  <2> QED
    BY <2>2
<1>3. ASSUME NEW d \in Nat, d \in S PROVE d + 1 \in S
  <2> SUFFICES ASSUME NEW k \in Nat, k + (d + 1) = number, DaysBefore[k] < number
               PROVE  \E m \in Nat : m >= k /\ DaysBefore[m] < number
                                     /\ number <= DaysBefore[m + 1]
    OBVIOUS
  <2>1. CASE number <= DaysBefore[k + 1]
    BY <2>1
  <2>2. CASE DaysBefore[k + 1] < number
    <3>1. k + 1 \in Nat /\ (k + 1) + d = number
      OBVIOUS
    <3>2. k + 1 \in T
      BY <1>3, <3>1
    <3>3. PICK m \in Nat : m >= k + 1 /\ DaysBefore[m] < number
                           /\ number <= DaysBefore[m + 1]
      BY <2>2, <3>2
    <3> QED
      BY <3>3
  <2>3. DaysBefore[k + 1] \in Nat
    BY <1>1
  <2> QED
    BY <2>1, <2>2, <2>3
<1> HIDE DEF S
<1>4. \A d \in Nat : d \in S
  BY <1>2, <1>3, NumberInduction
<1>5. 0 \in T
  BY <1>4 DEF S
<1>6. PICK m \in Nat : DaysBefore[m] < number /\ number <= DaysBefore[m + 1]
  BY <1>5, DaysAddUp
<1>7. m \in 0..number
  BY <1>1, <1>6
<1> QED
  BY <1>6, <1>7

\* The parts of a date are numbers.
LEMMA DateHasNumbers ==
    ASSUME NEW date, IsDate(date)
    PROVE  /\ date.month \in Nat /\ date.day \in 1..31
           /\ DayNumber(date) \in Nat
           /\ MonthDays(date.month) \in 28..31
           /\ date.day <= MonthDays(date.month)
<1>1. date.month \in Nat /\ date.day \in 1..31 /\ date.day <= MonthDays(date.month)
  BY DEF IsDate
<1>2. DaysBefore[date.month] \in Nat
  BY <1>1, DaysAddUp
<1> QED
  BY <1>1, <1>2, MonthHasDays DEF DayNumber

\* timedelta: the date that many days later exists, and is that many days later.
LEMMA DaysLater ==
    ASSUME NEW date, IsDate(date), NEW n \in Nat
    PROVE  /\ IsDate(AddDays(date, n))
           /\ DayNumber(AddDays(date, n)) = DayNumber(date) + n
<1>1. date.month \in Nat /\ date.day \in 1..31
  BY DEF IsDate
<1>2. PICK number \in Nat : number = DayNumber(date) + n /\ number > 0
  BY <1>1, DaysAddUp, SMTT(40) DEF DayNumber
<1> DEFINE Holds(m) == DaysBefore[m] < number /\ number <= DaysBefore[m + 1]
           month == CHOOSE m \in 0..number : Holds(m)
<1>3. month \in 0..number /\ Holds(month)
  <2>1. \E m \in 0..number : Holds(m)
    BY <1>2, EveryDayHasAMonth
  <2> HIDE DEF Holds
  <2> QED
    BY <2>1, Zenon
<1>4. AddDays(date, n) = [month |-> month, day |-> number - DaysBefore[month]]
  BY <1>2 DEF AddDays
<1>5. month \in Nat
  BY <1>3
<1> HIDE DEF month
<1>6. /\ DaysBefore[month + 1] = DaysBefore[month] + MonthDays(month)
      /\ DaysBefore[month] \in Nat
      /\ MonthDays(month) \in 28..31
  BY <1>5, DaysAddUp, MonthHasDays
<1>7. PICK day \in 1..31 : day = number - DaysBefore[month] /\ day <= MonthDays(month)
  BY <1>3, <1>6
<1>8. AddDays(date, n) = [month |-> month, day |-> day]
  BY <1>4, <1>7
<1>9. IsDate([month |-> month, day |-> day])
  BY <1>5, <1>7 DEF IsDate
<1>10. DayNumber([month |-> month, day |-> day]) = number
  BY <1>6, <1>7 DEF DayNumber
<1> QED
  BY <1>2, <1>8, <1>9, <1>10

\* calendar months: the date exists, that many months later, on the same day
\* or on the last one of a shorter month.
LEMMA MonthsLater ==
    ASSUME NEW date, IsDate(date), NEW k \in Nat
    PROVE  LET m == date.month + k
               d == [month |-> m, day |-> IF date.day < MonthDays(m)
                                            THEN date.day ELSE MonthDays(m)]
           IN /\ IsDate(d)
              /\ d.month = m
              /\ d.day <= date.day
              /\ d.day = date.day \/ d.day >= 28
<1>1. date.month \in Nat /\ date.day \in 1..31
  BY DEF IsDate
<1>2. PICK m \in Nat : m = date.month + k
  BY <1>1
<1>3. MonthDays(m) \in 28..31
  BY MonthHasDays
<1>4. PICK day \in 1..31 :
          /\ day = IF date.day < MonthDays(m) THEN date.day ELSE MonthDays(m)
          /\ day <= MonthDays(m) /\ day <= date.day
          /\ day = date.day \/ day >= 28
  BY <1>1, <1>3
<1>5. IsDate([month |-> m, day |-> day])
  BY <1>2, <1>4 DEF IsDate
<1> QED
  BY <1>2, <1>4, <1>5

-----------------------------------------------------------------------------
(* The catalogue: the inductive invariant.                                 *)

\* The plan's term so far: `periods' of the entry's period after `start'.
Lasts(start, end, period, periods) ==
    /\ IsDate(end)
    /\ period[2] \in {"M", "Y"} =>
          /\ end.month = start.month +
                 (IF period[2] = "M" THEN period[1] * periods
                                     ELSE 12 * (period[1] * periods))
          /\ end.day <= start.day
          /\ end.day = start.day \/ end.day >= 28
    /\ period[2] \in {"D", "W"} =>
          DayNumber(end) = DayNumber(start) +
              (IF period[2] = "D" THEN period[1] * periods
                                  ELSE 7 * (period[1] * periods))

CatalogueInv ==
    /\ entry \in Entries /\ begun \in StartDates
    /\ link \in BOOLEAN /\ paid \in Nat
    /\ link => Valid(entry) /\ "cloudpayments" \in entry.channels
    /\ paid > 0 => link
    /\ credited = paid * entry.credits
    /\ IF paid > 0 /\ entry.kind = "subscription"
         THEN Lasts(begun, until, entry.period, paid)
         ELSE until = NoDate

\* Nothing bought, nothing lasts ...
LEMMA TermStarts ==
    ASSUME NEW start, IsDate(start), NEW period, period[1] \in Nat
    PROVE  Lasts(start, start, period, 0)
<1>1. start.month \in Nat /\ start.day \in 1..31
  BY DEF IsDate
<1>2. period[1] * 0 = 0
  OBVIOUS
<1>3. DayNumber(start) \in Nat
  BY <1>1, DaysAddUp, SMTT(40) DEF DayNumber
<1> QED
  BY <1>1, <1>2, <1>3 DEF Lasts

\* ... and a payment adds one period.
LEMMA TermExtends ==
    ASSUME NEW start, IsDate(start), NEW end, NEW k \in Nat,
           NEW period \in (Nat \ {0}) \X {"D", "W", "M", "Y"},
           Lasts(start, end, period, k)
    PROVE  Lasts(start, AddPeriod(end, period), period, k + 1)
<1> DEFINE later == AddPeriod(end, period)
<1>1. PICK n \in Nat, p \in Nat, q \in Nat :
          n = period[1] /\ p = period[1] * k /\ q = period[1] * (k + 1)
  OBVIOUS
<1>2. q = p + n
  BY <1>1
<1>3. IsDate(end)
  BY DEF Lasts
<1>4. /\ end.month \in Nat /\ end.day \in 1..31 /\ DayNumber(end) \in Nat
      /\ start.month \in Nat /\ start.day \in 1..31 /\ DayNumber(start) \in Nat
  BY <1>3, DateHasNumbers
<1>5. CASE period[2] \in {"D", "W"}
  <2>1. PICK days \in Nat : days = IF period[2] = "D" THEN n ELSE 7 * n
    BY <1>1
  <2>2. later = AddDays(end, days)
    BY <1>1, <1>5, <2>1 DEF AddPeriod
  <2>3. IsDate(later) /\ DayNumber(later) = DayNumber(end) + days
    BY <1>3, <2>2, DaysLater
  <2>4. DayNumber(end) = DayNumber(start) + (IF period[2] = "D" THEN p ELSE 7 * p)
    BY <1>1, <1>5 DEF Lasts
  <2> HIDE DEF later
  <2>5. DayNumber(later) = DayNumber(start) + (IF period[2] = "D" THEN q ELSE 7 * q)
    BY <1>2, <1>4, <2>1, <2>3, <2>4
  <2> QED
    BY <1>1, <1>5, <2>3, <2>5 DEF Lasts, later
<1>6. CASE period[2] \in {"M", "Y"}
  <2>1. PICK months \in Nat : months = IF period[2] = "M" THEN n ELSE 12 * n
    BY <1>1
  <2> DEFINE m == end.month + months
             d == [month |-> m, day |-> IF end.day < MonthDays(m)
                                          THEN end.day ELSE MonthDays(m)]
  <2>2. later = d
    BY <1>1, <1>6, <2>1 DEF AddPeriod
  <2>3. /\ IsDate(d)
        /\ d.month = m
        /\ d.day <= end.day
        /\ d.day = end.day \/ d.day >= 28
    BY <1>3, MonthsLater
  <2>4. /\ end.month = start.month + (IF period[2] = "M" THEN p ELSE 12 * p)
        /\ end.day <= start.day
        /\ end.day = start.day \/ end.day >= 28
    BY <1>1, <1>6 DEF Lasts
  <2>5. later.month = start.month + (IF period[2] = "M" THEN q ELSE 12 * q)
    <3>1. later.month = end.month + months
      BY <2>2, <2>3
    <3> HIDE DEF later
    <3> QED
      BY <1>2, <1>4, <2>1, <2>4, <3>1
  <2>6. IsDate(later) /\ later.day \in 1..31
    BY <2>2, <2>3 DEF IsDate
  <2>7. later.day <= start.day /\ (later.day = start.day \/ later.day >= 28)
    <3>1. later.day <= end.day /\ (later.day = end.day \/ later.day >= 28)
      BY <2>2, <2>3
    <3> HIDE DEF later
    <3> QED
      BY <1>4, <2>4, <2>6, <3>1
  <2> QED
    BY <1>1, <1>6, <2>5, <2>6, <2>7 DEF Lasts
<1> QED
  BY <1>5, <1>6

-----------------------------------------------------------------------------
(* The catalogue: the steps.                                               *)

\* A valid plan sold by CloudPayments has a period.
LEMMA SoldHasPeriod ==
    CatalogueInv /\ link /\ entry.kind = "subscription" =>
        entry.period \in (Nat \ {0}) \X {"D", "W", "M", "Y"}
BY CatalogueAssumption DEF CatalogueInv, Valid

\* Nothing is bought at first.
LEMMA CatalogueInitInv == CatalogueInit => CatalogueInv
<1> SUFFICES ASSUME CatalogueInit PROVE CatalogueInv
  OBVIOUS
<1>1. PICK c \in Int : c = entry.credits
  BY CatalogueAssumption DEF CatalogueInit
<1>2. credited = paid * entry.credits
  <2>1. 0 * c = 0
    OBVIOUS
  <2> QED
    BY <1>1, <2>1 DEF CatalogueInit
<1>3. paid \in Nat /\ ~(paid > 0)
  BY DEF CatalogueInit
<1> QED
  BY <1>2, <1>3 DEF CatalogueInit, CatalogueInv

\* A link is made for a valid product that CloudPayments may sell.
LEMMA CheckoutInv == CatalogueInv /\ Checkout => CatalogueInv'
BY DEF CatalogueInv, Checkout, Lasts

\* A payment credits the product and extends the term.
LEMMA PayInv == CatalogueInv /\ Pay => CatalogueInv'
<1> SUFFICES ASSUME CatalogueInv, Pay PROVE CatalogueInv'
  OBVIOUS
<1>1. /\ entry' = entry /\ link' = link /\ begun' = begun
      /\ link /\ paid' = paid + 1 /\ paid' > 0 /\ paid' \in Nat
  BY DEF CatalogueInv, Pay
<1>2. credited' = paid' * entry.credits
  <2>1. PICK c \in Int, p \in Nat : c = entry.credits /\ p = paid
    BY CatalogueAssumption DEF CatalogueInv
  <2>2. CreditsFor(entry, "cloudpayments") = c
    BY <1>1, <2>1 DEF CatalogueInv, CreditsFor
  <2>3. credited' = p * c + c
    BY <2>1, <2>2 DEF CatalogueInv, Pay
  <2>4. (p + 1) * c = p * c + c
    OBVIOUS
  <2> QED
    BY <1>1, <2>1, <2>3, <2>4
<1>3. IF entry.kind = "subscription"
        THEN Lasts(begun, until', entry.period, paid + 1)
        ELSE until' = NoDate
  <2>1. CASE entry.kind = "subscription"
    <3>1. entry.period \in (Nat \ {0}) \X {"D", "W", "M", "Y"}
      BY <1>1, <2>1, SoldHasPeriod
    <3>2. IsDate(begun)
      BY CatalogueAssumption DEF CatalogueInv
    <3>3. PICK from : from = IF until = NoDate THEN begun ELSE until
      OBVIOUS
    <3>4. until' = AddPeriod(from, entry.period)
      BY <2>1, <3>3 DEF Pay
    <3>5. Lasts(begun, from, entry.period, paid)
      <4>1. CASE paid = 0
        <5>1. from = begun
          BY <3>3, <4>1 DEF CatalogueInv
        <5>2. Lasts(begun, begun, entry.period, 0)
          BY <3>1, <3>2, TermStarts
        <5> QED
          BY <4>1, <5>1, <5>2
      <4>2. CASE paid > 0
        <5>1. Lasts(begun, until, entry.period, paid)
          BY <2>1, <4>2 DEF CatalogueInv
        <5>2. until /= NoDate
          BY <5>1 DEF Lasts, IsDate, NoDate
        <5> QED
          BY <3>3, <5>1, <5>2
      <4> QED
        BY <4>1, <4>2 DEF CatalogueInv
    <3>6. paid \in Nat
      BY DEF CatalogueInv
    <3>7. Lasts(begun, AddPeriod(from, entry.period), entry.period, paid + 1)
      BY <3>1, <3>2, <3>5, <3>6, TermExtends
    <3> QED
      BY <2>1, <3>4, <3>7
  <2>2. CASE entry.kind /= "subscription"
    BY <2>2 DEF Pay, CatalogueInv
  <2> QED
    BY <2>1, <2>2
<1>4. IF paid' > 0 /\ entry'.kind = "subscription"
        THEN Lasts(begun, until, entry.period, paid)'
        ELSE until' = NoDate
  BY <1>1, <1>3 DEF Lasts
<1> QED
  BY <1>1, <1>2, <1>4 DEF CatalogueInv

\* The invariant says what SoldIsHonoured does.
LEMMA InvSoldIsHonoured == CatalogueInv => SoldIsHonoured
<1> SUFFICES ASSUME CatalogueInv, paid > 0 PROVE SoldIsHonoured
  BY DEF SoldIsHonoured
<1>1. link /\ Valid(entry) /\ paid \in Nat /\ credited = paid * entry.credits
  BY DEF CatalogueInv
<1>2. credited > 0
  <2>1. PICK c \in Nat, p \in Nat : c = entry.credits /\ p = paid /\ c > 0 /\ p > 0
    BY <1>1, CatalogueAssumption DEF CatalogueInv, Valid
  <2>2. p * c > 0
    BY <2>1
  <2> QED
    BY <1>1, <2>1, <2>2
<1>3. CASE entry.kind /= "subscription"
  BY <1>1, <1>2, <1>3 DEF SoldIsHonoured
<1>4. CASE entry.kind = "subscription"
  <2>1. entry.period \in (Nat \ {0}) \X {"D", "W", "M", "Y"}
    BY <1>1, <1>4, SoldHasPeriod
  <2>2. PICK n \in Nat, unit \in {"D", "W", "M", "Y"} :
            n = entry.period[1] * paid /\ unit = entry.period[2]
    <3>1. PICK p \in Nat, t \in {"D", "W", "M", "Y"} :
              p = entry.period[1] /\ t = entry.period[2]
      BY <2>1
    <3>2. p * paid \in Nat
      BY CatalogueAssumption, <1>1, <3>1
    <3> QED
      BY <3>1, <3>2
  <2>3. Lasts(begun, until, entry.period, paid) /\ IsDate(begun) /\ IsDate(until)
    BY <1>4, CatalogueAssumption DEF CatalogueInv, Lasts
  <2>4. /\ begun.month \in Nat /\ begun.day \in 1..31 /\ DayNumber(begun) \in Nat
        /\ until.month \in Nat /\ until.day \in 1..31 /\ DayNumber(until) \in Nat
        /\ MonthDays(until.month) \in 28..31 /\ until.day <= MonthDays(until.month)
    BY <2>3, DateHasNumbers
  <2>5. unit \in {"M", "Y"} =>
            /\ until.month - begun.month = (IF unit = "M" THEN n ELSE 12 * n)
            /\ until.day <= begun.day
            /\ until.day >= begun.day - 3
    BY <2>2, <2>3, <2>4 DEF Lasts
  <2>6. unit \in {"D", "W"} =>
            DayNumber(until) - DayNumber(begun) = (IF unit = "D" THEN n ELSE 7 * n)
    BY <2>2, <2>3, <2>4 DEF Lasts
  <2> QED
    BY <1>1, <1>2, <2>2, <2>4, <2>5, <2>6 DEF SoldIsHonoured
<1> QED
  BY <1>3, <1>4

-----------------------------------------------------------------------------
(* The catalogue: the theorem.                                             *)

\* What checkout sells is honoured (Pay): for any catalogue, any first day
\* and any number of renewals, every payment is credited, and the term is
\* that many calendar months, years, weeks or days.
THEOREM SellingHonours == CatalogueSpec => []SoldIsHonoured
<1>1. CatalogueInit => CatalogueInv
  BY CatalogueInitInv
<1>2. CatalogueInv /\ [CatalogueNext]_catalogueVars => CatalogueInv'
  <2>1. CatalogueInv /\ UNCHANGED catalogueVars => CatalogueInv'
    BY DEF CatalogueInv, catalogueVars, Lasts
  <2> QED
    BY <2>1, CheckoutInv, PayInv DEF CatalogueNext
<1> QED
  BY <1>1, <1>2, InvSoldIsHonoured, PTL DEF CatalogueSpec

=============================================================================
