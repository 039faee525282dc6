-------------------------------- MODULE Auth --------------------------------
(***************************************************************************)
(* Identity (auth/service.py): the account of a device (register), Sign in *)
(* with Apple on top of it, and the rotation of refresh tokens.            *)
(*                                                                         *)
(* A handler is one transaction under READ COMMITTED: each statement sees  *)
(* what is committed when it starts, an INSERT of a unique key waits for an *)
(* uncommitted insert of that key, an UPDATE waits for the row lock.  One  *)
(* step is one statement whose result is used later; the statements after  *)
(* the last wait of a handler are one step with its commit.  What a        *)
(* transaction has written is in its `call' record until it commits.       *)
(*                                                                         *)
(* The signature of an Apple token, the access token and the audit record  *)
(* are left out: no later statement reads them.                            *)
(***************************************************************************)
EXTENDS Naturals, FiniteSets

CONSTANTS Users,    \* user ids, uuid4 of the handlers
          Devices,  \* device ids
          Subs,     \* Apple subjects
          Tokens,   \* refresh tokens, random bytes
          Calls,    \* concurrent requests
          NoOne

ASSUME AuthAssumption == NoOne \notin Users \cup Devices \cup Subs \cup Tokens

VARIABLES devices,   \* auth_devices: device -> user
          identity,  \* auth_identities: Apple subject -> user
          tokens,    \* auth_refresh_tokens; from and sub are history: the
                     \* token rotated, the subject that signed in
          call,      \* the request handlers
          reused     \* history: tokens whose reuse was answered

authVars == <<devices, identity, tokens, call, reused>>

NewCall == [pc |-> "none", device |-> NoOne, sub |-> NoOne, user |-> NoOne,
            lock |-> FALSE, newDevice |-> NoOne, newIdentity |-> NoOne,
            token |-> NoOne, chain |-> {}]

Issued == DOMAIN tokens
Active == DOMAIN call

AuthTypeOK ==
    LET Maybe(S) == S \cup {NoOne} IN
    /\ devices \in [Devices -> Maybe(Users)]
    /\ identity \in [Subs -> Maybe(Users)]
    /\ Issued \subseteq Tokens
    /\ tokens \in [Issued -> [user: Users, device: Devices, used: BOOLEAN,
                              revoked: BOOLEAN, from: Maybe(Issued),
                              sub: Maybe(Subs)]]
    /\ Active \subseteq Calls
    /\ call \in [Active ->
          [pc: {"find", "touch", "create", "link", "identity",
                "upsert", "claim", "rotate", "revoke"},
           device: Maybe(Devices), sub: Maybe(Subs), user: Maybe(Users),
           lock: BOOLEAN, newDevice: Maybe(Users), newIdentity: Maybe(Users),
           token: Maybe(Tokens), chain: SUBSET Tokens]]
    /\ \A c \in Active :
          call[c].pc \in {"touch", "link", "identity", "upsert", "rotate"} =>
              call[c].user \in Users
    /\ reused \subseteq Issued

AuthInit ==
    /\ devices = [d \in Devices |-> NoOne]
    /\ identity = [s \in Subs |-> NoOne]
    /\ tokens = [t \in {} |-> NoOne]
    /\ call = [c \in {} |-> NoOne]
    /\ reused = {}

\* Ids not used yet: uuid4 and token_urlsafe never repeat.  Which of them is
\* taken makes no difference.
FreshUsers ==
    Users \ ({devices[d] : d \in Devices} \cup {identity[s] : s \in Subs}
             \cup {tokens[t].user : t \in Issued}
             \cup {call[c].user : c \in Active})
FreshTokens == Tokens \ Issued
AnyOf(S) == IF S = {} THEN {} ELSE {CHOOSE e \in S : TRUE}

\* Another transaction holds the row of the device, has inserted it, has
\* inserted the subject, has claimed the token.
DeviceLocked(c) ==
    \E o \in Active \ {c} : call[o].lock /\ call[o].device = call[c].device
SubjectPending(c) ==
    \E o \in Active \ {c} : /\ call[o].newIdentity /= NoOne
                           /\ call[o].sub = call[c].sub
Claimed(c, t) ==
    \E o \in Active \ {c} : call[o].pc = "rotate" /\ call[o].token = t

To(c, rec) == call' = [o \in Active \cup {c} |-> IF o = c THEN rec ELSE call[o]]
Done(c) == call' = [o \in Active \ {c} |-> call[o]]

-----------------------------------------------------------------------------
(* register_or_token and sign_in_with_apple.                               *)

Register(c, d) ==
    /\ c \notin Active
    /\ To(c, [NewCall EXCEPT !.pc = "find", !.device = d])
    /\ UNCHANGED <<devices, identity, tokens, reused>>

\* _resolve_apple_user(): a known subject is its user.
SignIn(c, d, s) ==
    /\ c \notin Active
    /\ To(c, [NewCall EXCEPT !.device = d, !.sub = s, !.user = identity[s],
                !.pc = IF identity[s] = NoOne THEN "find" ELSE "upsert"])
    /\ UNCHANGED <<devices, identity, tokens, reused>>

\* _find_or_create_identity(), the SELECT.
FindDevice(c) ==
    LET u == devices[call[c].device] IN
    /\ call[c].pc = "find"
    /\ To(c, [call[c] EXCEPT !.user = u,
                !.pc = IF u = NoOne THEN "create" ELSE "touch"])
    /\ UNCHANGED <<devices, identity, tokens, reused>>

\* _issue_pair(): a new token of this user on this device; the one it is
\* exchanged for is used.
IssuePair(c, u) ==
    \E t \in AnyOf(FreshTokens) :
        tokens' = [s \in Issued \cup {t} |->
            IF s = t THEN [user |-> u, device |-> call[c].device,
                           used |-> FALSE, revoked |-> FALSE,
                           from |-> call[c].token, sub |-> call[c].sub]
            ELSE IF s = call[c].token THEN [tokens[s] EXCEPT !.used = TRUE]
            ELSE tokens[s]]

\* The account of the device is known: register answers with it, a sign-in
\* goes on, holding the row if it wrote it.
HaveAccount(c, u, lock, new) ==
    \/ /\ call[c].sub = NoOne
       /\ devices' = IF new = NoOne THEN devices
                     ELSE [devices EXCEPT ![call[c].device] = new]
       /\ IssuePair(c, u)
       /\ Done(c)
       /\ UNCHANGED <<identity, reused>>
    \/ /\ call[c].sub /= NoOne
       /\ To(c, [call[c] EXCEPT !.pc = "link", !.user = u, !.lock = lock,
                                !.newDevice = new])
       /\ UNCHANGED <<devices, identity, tokens, reused>>

\* The UPDATE of last_seen_at takes the row, and keeps the user read before.
TouchDevice(c) ==
    /\ call[c].pc = "touch"
    /\ ~DeviceLocked(c)
    /\ HaveAccount(c, call[c].user, TRUE, NoOne)

\* INSERT ... ON CONFLICT DO NOTHING and the winning row read again: it does
\* not wait for, and does not take, the lock of a committed row.
CreateDevice(c) ==
    /\ call[c].pc = "create"
    /\ IF devices[call[c].device] /= NoOne
         THEN HaveAccount(c, devices[call[c].device], FALSE, NoOne)
         ELSE /\ ~DeviceLocked(c)
              /\ \E u \in AnyOf(FreshUsers) : HaveAccount(c, u, TRUE, u)

\* The account of the device takes the subject, unless it has one already.
ChooseAccount(c) ==
    /\ call[c].pc = "link"
    /\ \E u \in Users :
          /\ IF \E s \in Subs : identity[s] = call[c].user
               THEN u \in AnyOf(FreshUsers) ELSE u = call[c].user
          /\ To(c, [call[c] EXCEPT !.pc = "identity", !.user = u])
    /\ UNCHANGED <<devices, identity, tokens, reused>>

\* Variant: the row that won is not read again.
LinkKeepsOwn(c) ==
    /\ call[c].pc = "identity"
    /\ ~SubjectPending(c)
    /\ To(c, [call[c] EXCEPT !.pc = "upsert", !.newIdentity =
                IF identity[call[c].sub] = NoOne THEN call[c].user ELSE NoOne])
    /\ UNCHANGED <<devices, identity, tokens, reused>>

LinkIdentity(c) ==
    LET winner == identity[call[c].sub] IN
    /\ call[c].pc = "identity"
    /\ ~SubjectPending(c)
    /\ To(c, IF winner = NoOne
             THEN [call[c] EXCEPT !.pc = "upsert", !.newIdentity = call[c].user]
             ELSE [call[c] EXCEPT !.pc = "upsert", !.user = winner])
    /\ UNCHANGED <<devices, identity, tokens, reused>>

\* _upsert_device(): the device is bound to the user of the subject.
UpsertDevice(c) ==
    /\ call[c].pc = "upsert"
    /\ ~DeviceLocked(c)
    /\ devices' = [devices EXCEPT ![call[c].device] = call[c].user]
    /\ identity' = IF call[c].newIdentity = NoOne THEN identity
                   ELSE [identity EXCEPT ![call[c].sub] = call[c].user]
    /\ IssuePair(c, call[c].user)
    /\ Done(c)
    /\ UNCHANGED reused

-----------------------------------------------------------------------------
(* refresh.                                                                *)

\* The live tokens of a device, as the UPDATE of _revoke_chain() sees them
\* when it starts.
Chain(t) == {s \in Issued : /\ tokens[s].user = tokens[t].user
                            /\ tokens[s].device = tokens[t].device
                            /\ ~tokens[s].revoked}

\* The handler reads the token: one used before starts the revocation, one
\* revoked is refused without a change, and so is one that has expired, which
\* any token may have: then this step is not taken.
Refresh(c, t) ==
    LET row == tokens[t]
        this == [NewCall EXCEPT !.token = t, !.user = row.user,
                               !.device = row.device] IN
    /\ c \notin Active
    /\ row.used \/ ~row.revoked
    /\ To(c, IF row.used
             THEN [this EXCEPT !.pc = "revoke", !.chain = Chain(t)]
             ELSE [this EXCEPT !.pc = "claim"])
    /\ UNCHANGED <<devices, identity, tokens, reused>>

\* Variant: the UPDATE names the row only.
ClaimAlways(c) ==
    /\ call[c].pc = "claim"
    /\ ~Claimed(c, call[c].token)
    /\ To(c, [call[c] EXCEPT !.pc = "rotate"])
    /\ UNCHANGED <<devices, identity, tokens, reused>>

\* UPDATE ... WHERE used_at IS NULL, after the wait for the row: whether the
\* token has been revoked meanwhile is not looked at.
ClaimToken(c) ==
    /\ call[c].pc = "claim"
    /\ ~Claimed(c, call[c].token)
    /\ To(c, IF tokens[call[c].token].used
             THEN [call[c] EXCEPT !.pc = "revoke",
                                  !.chain = Chain(call[c].token)]
             ELSE [call[c] EXCEPT !.pc = "rotate"])
    /\ UNCHANGED <<devices, identity, tokens, reused>>

\* The new pair and the commit.
Rotate(c) ==
    /\ call[c].pc = "rotate"
    /\ IssuePair(c, call[c].user)
    /\ Done(c)
    /\ UNCHANGED <<devices, identity, reused>>

\* _revoke_chain() writes the rows it saw, once none of them is held.
RevokeChain(c) ==
    /\ call[c].pc = "revoke"
    /\ \A s \in call[c].chain : ~Claimed(c, s)
    /\ tokens' = [s \in Issued |->
          IF s \in call[c].chain THEN [tokens[s] EXCEPT !.revoked = TRUE]
          ELSE tokens[s]]
    /\ reused' = reused \cup {call[c].token}
    /\ Done(c)
    /\ UNCHANGED <<devices, identity>>

\* The client or the connection is gone, or PostgreSQL breaks a deadlock.
AbortCall(c) ==
    /\ Done(c)
    /\ UNCHANGED <<devices, identity, tokens, reused>>

AuthNext ==
    \/ \E c \in Calls :
          \/ \E d \in Devices : Register(c, d) \/ \E s \in Subs : SignIn(c, d, s)
          \/ \E t \in Issued : Refresh(c, t)
    \/ \E c \in Active :
          \/ FindDevice(c) \/ TouchDevice(c) \/ CreateDevice(c)
          \/ ChooseAccount(c) \/ LinkIdentity(c) \/ UpsertDevice(c)
          \/ ClaimToken(c) \/ Rotate(c) \/ RevokeChain(c) \/ AbortCall(c)

AuthSpec == AuthInit /\ [][AuthNext]_authVars

-----------------------------------------------------------------------------

(***************************************************************************)
(* Concurrent first calls converge on one account.  All sign-ins of one    *)
(* Apple subject, from any devices, get tokens of the account the subject  *)
(* is stored with ("converges on a single userId").  All registrations of  *)
(* a device nobody has signed in on get one account (BR-AUTH-1).  Once     *)
(* somebody has signed in on a device, the account its payments are        *)
(* resolved to is one whose subject signed in there (_upsert_device),      *)
(* however stale the account another request has read.                     *)
(***************************************************************************)
AccountsConverge ==
    /\ \A t \in Issued : tokens[t].sub /= NoOne =>
          tokens[t].user = identity[tokens[t].sub]
    /\ \A d \in Devices :
          LET here == {t \in Issued : tokens[t].device = d}
              subs == {tokens[t].sub : t \in here} \ {NoOne} IN
          IF subs = {} THEN \A t \in here : tokens[t].user = devices[d]
          ELSE \E s \in subs : devices[d] = identity[s]

(***************************************************************************)
(* Single use and reuse detection of refresh(): whatever the interleaving, *)
(* a refresh token is exchanged at most once, and once a second use of it  *)
(* has been answered, the token and the one it was exchanged for are       *)
(* revoked: two refreshes that race leave none of their tokens live.       *)
(***************************************************************************)
ReuseRevokes ==
    /\ \A t, a, b \in Issued :
          tokens[a].from = t /\ tokens[b].from = t => a = b
    /\ \A t \in reused, s \in Issued :
          s = t \/ tokens[s].from = t => tokens[s].revoked

=============================================================================
