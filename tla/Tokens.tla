-------------------------------- MODULE Tokens --------------------------------
(***************************************************************************)
(* What is to be used once: the state of an OAuth sign-in                  *)
(* (packages/auth/src/oauth.ts and the callback route) and the nonce of a  *)
(* webhook (packages/services/src/webhooks).  A nonce is taken by an       *)
(* INSERT into a unique key.  A state is read with FOR UPDATE and marked   *)
(* by an UPDATE, each a transaction of its own: the lock is gone between   *)
(* them.                                                                   *)
(***************************************************************************)
EXTENDS Integers, FiniteSets

CONSTANTS
  States,       \* values of the state parameter, stored and invented ones
  Callbacks,    \* requests to the callback route
  Nonces,
  Deliveries    \* calls of the webhook handler

VARIABLES
  oauthStates,   \* oauth_state_store, by state
  callbacks,     \* the callbacks, each with the state it brought
  nonces,        \* webhook_nonces
  deliveries     \* the deliveries, each with its nonce

tokensVars == <<oauthStates, callbacks, nonces, deliveries>>

StoredState == [stored : BOOLEAN, consumed : BOOLEAN, expired : BOOLEAN]

(* replay: a callback with the same state was accepted before this began.  *)
Callback == [pc : {"idle", "checked", "accepted", "refused"}, state : States, replay : BOOLEAN]
Delivery == [pc : {"idle", "taken", "processed", "refused", "crashed"}, nonce : Nonces]

TokensTypeOK ==
  /\ oauthStates \in [States -> StoredState]
  /\ callbacks \in [Callbacks -> Callback]
  /\ nonces \subseteq Nonces
  /\ deliveries \in [Deliveries -> Delivery]

TokensInit ==
  /\ oauthStates = [s \in States |-> [stored |-> FALSE, consumed |-> FALSE, expired |-> FALSE]]
  /\ \E s \in States : callbacks = [c \in Callbacks |-> [pc |-> "idle", state |-> s, replay |-> FALSE]]
  /\ nonces = {}
  /\ \E n \in Nonces : deliveries = [d \in Deliveries |-> [pc |-> "idle", nonce |-> n]]

Accepted(s) == \E c \in Callbacks : callbacks[c].pc = "accepted" /\ callbacks[c].state = s

-----------------------------------------------------------------------------
(* The start of a sign-in stores a state; the repository has no code for   *)
(* it yet.                                                                 *)
StoreState(s) ==
  /\ ~oauthStates[s].stored
  /\ oauthStates' = [oauthStates EXCEPT ![s].stored = TRUE]
  /\ UNCHANGED <<callbacks, nonces, deliveries>>

(* Mutant: consumed_at is not looked at.                                   *)
IsValidOnceStored(row) == row.stored /\ ~row.expired

(* What the row says of a state when it is read.                           *)
IsValid(row) == row.stored /\ ~row.consumed /\ ~row.expired

(* The SELECT of verifyAndConsumeStateToken, and the early returns, which  *)
(* the route answers with error=oauth_state_invalid.                       *)
CallbackCheck(c, s) ==
  /\ callbacks[c].pc = "idle"
  /\ callbacks' = [callbacks EXCEPT ![c] =
       [pc     |-> IF IsValid(oauthStates[s]) THEN "checked" ELSE "refused",
        state  |-> s,
        replay |-> Accepted(s)]]
  /\ UNCHANGED <<oauthStates, nonces, deliveries>>

(* The UPDATE, whatever the row says by now.                               *)
CallbackConsume(c) ==
  /\ callbacks[c].pc = "checked"
  /\ oauthStates' = [oauthStates EXCEPT ![callbacks[c].state].consumed = TRUE]
  /\ callbacks' = [callbacks EXCEPT ![c].pc = "accepted"]
  /\ UNCHANGED <<nonces, deliveries>>

(* A statement throws: the route catches it and refuses; an UPDATE whose   *)
(* answer is lost has consumed the state.                                  *)
CallbackFails(c, committed) ==
  /\ callbacks[c].pc = "checked"
  /\ callbacks' = [callbacks EXCEPT ![c].pc = "refused"]
  /\ oauthStates' = IF committed
                    THEN [oauthStates EXCEPT ![callbacks[c].state].consumed = TRUE] ELSE oauthStates
  /\ UNCHANGED <<nonces, deliveries>>

(* Time passes expires_at.                                                 *)
StateExpires(s) ==
  /\ oauthStates[s].stored /\ ~oauthStates[s].expired
  /\ oauthStates' = [oauthStates EXCEPT ![s].expired = TRUE]
  /\ UNCHANGED <<callbacks, nonces, deliveries>>

(* Mutant: the conflict on the key is ignored.                             *)
RecordAnyway(d, n) ==
  /\ deliveries[d].pc = "idle"
  /\ deliveries' = [deliveries EXCEPT ![d] = [pc |-> "taken", nonce |-> n]]
  /\ nonces' = nonces \cup {n}
  /\ UNCHANGED <<oauthStates, callbacks>>

(* recordIfNew: the unique key decides; consumeOrThrow refuses a nonce     *)
(* that is there, whichever provider brought it first.                     *)
RecordIfNew(d, n) ==
  /\ deliveries[d].pc = "idle"
  /\ deliveries' = [deliveries EXCEPT ![d] =
       [pc |-> IF n \in nonces THEN "refused" ELSE "taken", nonce |-> n]]
  /\ nonces' = nonces \cup {n}
  /\ UNCHANGED <<oauthStates, callbacks>>

(* The handler, of which the repository has only consumeOrThrow, does its  *)
(* work, or dies before it: the nonce stays taken.                         *)
Process(d) ==
  /\ deliveries[d].pc = "taken"
  /\ \E end \in {"processed", "crashed"} :
       deliveries' = [deliveries EXCEPT ![d].pc = end]
  /\ UNCHANGED <<oauthStates, callbacks, nonces>>

OauthNext ==
  \/ \E c \in Callbacks :
       \/ \E s \in States : CallbackCheck(c, s)
       \/ CallbackConsume(c)
       \/ \E committed \in BOOLEAN : CallbackFails(c, committed)
  \/ \E s \in States : StoreState(s) \/ StateExpires(s)

WebhookNext == \E d \in Deliveries : Process(d) \/ \E n \in Nonces : RecordIfNew(d, n)

TokensNext == OauthNext \/ WebhookNext

TokensSpec == TokensInit /\ [][TokensNext]_tokensVars

-----------------------------------------------------------------------------
(* A callback that begins after its state was accepted is refused.  Two    *)
(* that overlap may both be accepted.                                      *)
ReplayRefused ==
  \A c \in Callbacks : callbacks[c].replay => callbacks[c].pc = "refused"

(* A webhook is processed at most once, however often it is delivered and  *)
(* wherever the handler dies.                                              *)
NonceProcessedOnce ==
  \A c, d \in Deliveries :
    /\ deliveries[c].pc = "processed" /\ deliveries[d].pc = "processed"
    /\ deliveries[c].nonce = deliveries[d].nonce
    => c = d
=============================================================================
