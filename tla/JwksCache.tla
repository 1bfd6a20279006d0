----------------------------- MODULE JwksCache -----------------------------
(***************************************************************************)
(* JWKSCache and decode_and_verify: how the key of a SIAM bearer token is  *)
(* found.  get_keys awaits twice, for the lock and for the identity        *)
(* provider's answer; all the rest of a verification runs in one piece.    *)
(***************************************************************************)
EXTENDS HubClock

CONSTANTS
    Kid,      \* key ids of the identity provider
    Request,  \* bearer-token requests that may be under way
    TTL, NegativeTTL

ASSUME NoneAssumption == None \notin Request \cup Kid
ASSUME TTLAssumption ==
    TTL \in Nat \ {0} /\ NegativeTTL \in Nat

VARIABLES
    jwks,       \* the cache: _keys, _fetched_at, _negative_until
    holder,     \* the request holding _lock
    published,  \* the keys the identity provider publishes
    removedAt,  \* history: when it last stopped publishing a key
    req         \* the requests

jwksVars == <<jwks, holder, published, removedAt, req>>

(* seen is the answer on its way, now the clock get_keys read before it    *)
(* asked, again its second call of get_keys for the request; steady is     *)
(* history: the token's key was published ever since the request arrived.  *)
Req == [pc : {"idle", "wait", "fetch", "answer", "verified", "disable",
              "disable_write", "disable_event", "served", "refused"},
        kid : Kid \cup {None}, again : BOOLEAN, now : Nat,
        seen : SUBSET Kid, steady : BOOLEAN,
        why : {"", "no key", "no answer", "role", "error"}]

NoReq == [pc |-> "idle", kid |-> None, again |-> FALSE,
          now |-> 0, seen |-> {}, steady |-> FALSE, why |-> ""]

NoKeys == [have |-> FALSE, keys |-> {}, at |-> 0, neg |-> 0]

JwksTypeOK ==
    /\ jwks \in [have : BOOLEAN, keys : SUBSET Kid, at : Nat, neg : Nat]
    /\ holder \in Request \cup {None}
    /\ published \subseteq Kid
    /\ removedAt \in [Kid -> Int]
    /\ req \in [Request -> Req]

(* warm at startup: the keys, or the negative window. *)
Warm ==
    {[have |-> TRUE, keys |-> published, at |-> clock, neg |-> 0],
     [NoKeys EXCEPT !.neg = clock + NegativeTTL]}

JwksInit ==
    /\ \E k \in Kid : published = {k}
    /\ removedAt = [k \in Kid |-> -TTL]
    /\ jwks \in Warm
    /\ holder = None
    /\ req = [t \in Request |-> NoReq]

-----------------------------------------------------------------------------
Fresh == jwks.have /\ clock - jwks.at < TTL

Become(t, r) == req' = [req EXCEPT ![t] = r]
Refuse(t, r, why) == Become(t, [r EXCEPT !.pc = "refused", !.why = why])
Waiting(t) == {s \in Request \ {t} : req[s].pc = "wait"}

(* The lock is free or not; asyncio.Lock lets nobody pass a waiter. *)
Fetch(t, r) ==
    /\ holder' = t
    /\ Become(t, [r EXCEPT !.pc = "fetch", !.now = clock])
Queue(t, r, h) == holder' = h /\ Become(t, [r EXCEPT !.pc = "wait"])
FetchOrQueue(t, r, h) ==
    IF h = None /\ Waiting(t) = {} THEN Fetch(t, r) ELSE Queue(t, r, h)

(* Variant: an unknown kid is refused without a second look. *)
LookUpOnce(t, r, c, h) ==
    IF r.kid \in c.keys
    THEN /\ jwks' = c /\ holder' = h
         /\ Become(t, [r EXCEPT !.pc = "verified"])
    ELSE /\ jwks' = c /\ holder' = h
         /\ Refuse(t, r, "no key")

(* decode_and_verify with the keys of cache c, lock left to h: an unknown  *)
(* kid invalidates the cache, negative window included, and asks again,    *)
(* once.                                                                   *)
LookUp(t, r, c, h) ==
    IF r.kid \in c.keys
    THEN /\ jwks' = c /\ holder' = h
         /\ Become(t, [r EXCEPT !.pc = "verified"])
    ELSE IF r.again
    THEN /\ jwks' = c /\ holder' = h
         /\ Refuse(t, r, "no key")
    ELSE /\ jwks' = NoKeys
         /\ FetchOrQueue(t, [r EXCEPT !.again = TRUE], h)

GetKeys(t, r) ==
    IF Fresh THEN LookUp(t, r, jwks, holder)
    ELSE IF clock < jwks.neg
    THEN Refuse(t, r, "no answer") /\ UNCHANGED <<jwks, holder>>
    ELSE UNCHANGED jwks /\ FetchOrQueue(t, r, holder)

(* A request with a SIAM token signed by key k. *)
Bearer(t, k) ==
    /\ req[t].pc = "idle"
    /\ GetKeys(t, [NoReq EXCEPT !.kid = k,
                                !.steady = k \in published])
    /\ Happens
    /\ UNCHANGED <<published, removedAt>>

(* Variant: whoever gets the lock fetches. *)
WakeToFetch(t) ==
    /\ req[t].pc = "wait"
    /\ holder = None
    /\ UNCHANGED jwks /\ Fetch(t, req[t])
    /\ Quietly
    /\ UNCHANGED <<published, removedAt>>

(* The lock is handed over.  Freshness is looked at again, the negative    *)
(* window is not.                                                          *)
Wake(t) ==
    /\ req[t].pc = "wait"
    /\ holder = None
    /\ IF Fresh THEN LookUp(t, req[t], jwks, None)
       ELSE UNCHANGED jwks /\ Fetch(t, req[t])
    /\ Quietly
    /\ UNCHANGED <<published, removedAt>>

(* The identity provider answers ... *)
IdpServes(t) ==
    /\ req[t].pc = "fetch"
    /\ Become(t, [req[t] EXCEPT !.pc = "answer", !.seen = published])
    /\ Quietly
    /\ UNCHANGED <<jwks, holder, published, removedAt>>

(* Variant: the age of the keys counts from the answer's arrival. *)
FetchedOnArrival(t) ==
    [have |-> TRUE, keys |-> req[t].seen, at |-> clock, neg |-> jwks.neg]

Fetched(t) ==
    [have |-> TRUE, keys |-> req[t].seen, at |-> req[t].now, neg |-> jwks.neg]

(* ... and the answer arrives, however late: the five seconds the client   *)
(* waits are per read, not for the whole answer; ...                       *)
Receive(t) ==
    /\ req[t].pc = "answer"
    /\ LookUp(t, [req[t] EXCEPT !.seen = {}, !.now = 0], Fetched(t), None)
    /\ Quietly
    /\ UNCHANGED <<published, removedAt>>

(* Variant: the error path leaves the lock locked. *)
FetchFailsLocked(t) ==
    /\ req[t].pc \in {"fetch", "answer"}
    /\ jwks' = [jwks EXCEPT !.neg = req[t].now + NegativeTTL]
    /\ Refuse(t, [req[t] EXCEPT !.seen = {}, !.now = 0], "no answer")
    /\ Happens
    /\ UNCHANGED <<holder, published, removedAt>>

(* ... or it does not, or is malformed. *)
FetchFails(t) ==
    /\ req[t].pc \in {"fetch", "answer"}
    /\ jwks' = [jwks EXCEPT !.neg = req[t].now + NegativeTTL]
    /\ holder' = None
    /\ Refuse(t, [req[t] EXCEPT !.seen = {}, !.now = 0], "no answer")
    /\ Happens
    /\ UNCHANGED <<published, removedAt>>

(* The identity provider rotates its keys. *)
Rotate(S) ==
    /\ S # published
    /\ published' = S
    /\ removedAt' = [k \in Kid |-> IF k \in published \ S THEN clock
                                                          ELSE removedAt[k]]
    /\ req' = [t \in Request |-> [req[t] EXCEPT
                  !.steady = @ /\ req[t].kid \in S]]
    /\ Happens
    /\ UNCHANGED <<jwks, holder>>

JwksNext ==
    \/ \E t \in Request : \/ \E k \in Kid : Bearer(t, k)
                          \/ Wake(t) \/ IdpServes(t) \/ Receive(t)
                          \/ FetchFails(t)
    \/ \E S \in SUBSET Kid \ {{}} : Rotate(S)

-----------------------------------------------------------------------------
(* The cache never makes a removed key usable for longer than ttl_seconds: *)
(* whatever get_keys would return out of it, the identity provider         *)
(* published within the last TTL, however long the answer took to arrive.  *)
KeysAreRecent ==
    Fresh => \A k \in jwks.keys \ published : clock < removedAt[k] + TTL

(* A token whose key has been published ever since its request arrived is  *)
(* never refused for an unknown kid, whoever else invalidates or refills   *)
(* the cache meanwhile.                                                    *)
CurrentKeyAccepted ==
    \A t \in Request : req[t].pc = "refused" /\ req[t].why = "no key"
                          => ~req[t].steady

(* The lock is only ever held by a request the identity provider owes an   *)
(* answer, so it is free again once that request's fetch ended.            *)
LockHeldByFetcher ==
    /\ holder # None => req[holder].pc \in {"fetch", "answer"}
    /\ \A t \in Request : req[t].pc \in {"fetch", "answer"} => holder = t

(* A request that waited for the lock behind a successful fetch uses what  *)
(* it brought: while the identity provider is being asked, the cache holds *)
(* nothing get_keys could have returned instead, whoever invalidates or    *)
(* refills it meanwhile.                                                   *)
OneFetchPerExpiry == holder # None => ~Fresh

=============================================================================
