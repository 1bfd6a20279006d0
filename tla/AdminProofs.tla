---------------------------- MODULE AdminProofs ----------------------------
(***************************************************************************)
(* Theorems about AdminAccess, for any number of requests, logins,         *)
(* accounts, keys and addresses, any TTL, negative window, timeout and     *)
(* lockout.                                                                *)
(***************************************************************************)
EXTENDS AdminAccess, FiniteSetTheorems, TLAPS

(* The lock is held by the request that fetches. *)
Fetching(t) == req[t].pc \in {"fetch", "answer"}

(* A key that was seen, or is cached, and is published no more was         *)
(* published when the clock was read before it was asked for.              *)
SeenRecent ==
    \A t \in Request : Fetching(t) =>
        /\ req[t].now <= clock
        /\ req[t].pc = "answer" =>
              \A k \in req[t].seen \ published : removedAt[k] >= req[t].now

CachedRecent ==
    jwks.have =>
        /\ jwks.at <= clock
        /\ \A k \in jwks.keys \ published : removedAt[k] >= jwks.at

(* The bootstrap account is shut as soon as the hook has seen to it. *)
Shut ==
    (flag = "settled" \/ \E t \in Request :
        req[t].pc \in {"served", "disable_event"})
    => ~account[Bootstrap].enabled \/ reset

(* A login or a command has a username exactly while it is under way. *)
Cells ==
    /\ account \in [Name -> Account]
    /\ login \in [Login -> LoginTask]
    /\ cli \in Cli
    /\ \A s \in Login : login[s].pc = "idle" <=> login[s].name = None
    /\ cli.pc = "idle" <=> cli.name = None

AdminInv ==
    /\ clock \in Nat /\ JwksTypeOK /\ Cells
    /\ LockHeldByFetcher /\ SeenRecent /\ CachedRecent /\ Shut

Cache == [have : BOOLEAN, keys : SUBSET Kid, at : Nat, neg : Nat]

LEMMA NoKeysType == NoKeys \in Cache /\ NoKeys.have = FALSE
BY DEF NoKeys, Cache

LEMMA WarmOK ==
    ASSUME published \subseteq Kid, clock \in Nat, NEW w \in Warm
    PROVE  w \in Cache /\ (w.have => w.keys = published /\ w.at = clock)
<1> DEFINE full == [have |-> TRUE, keys |-> published, at |-> clock, neg |-> 0]
           empty == [NoKeys EXCEPT !.neg = clock + NegativeTTL]
<1>1. full \in Cache /\ full.keys = published /\ full.at = clock
  BY DEF Cache
<1>2. empty \in Cache /\ empty.have = FALSE
  BY TTLAssumption, NoKeysType DEF Cache
<1>3. w = full \/ w = empty
  BY DEF Warm
<1> HIDE DEF full, empty
<1>4. QED
  BY <1>1, <1>2, <1>3

LEMMA InitAdminInv == Init => AdminInv
<1> SUFFICES ASSUME Init PROVE AdminInv
  OBVIOUS
<1> USE DEF Init, ClockInit, JwksInit, LocalInit
<1>1. PICK k \in Kid : published = {k}
  OBVIOUS
<1>2. jwks \in Cache /\ (jwks.have => jwks.keys = published /\ jwks.at = clock)
  BY <1>1, WarmOK
<1>3. NoReq \in Req /\ NoReq.pc = "idle"
  BY DEF NoReq, Req
<1>4. JwksTypeOK
  BY <1>1, <1>2, <1>3, TTLAssumption DEF JwksTypeOK, Cache
<1>5. Cells
  <2>1. NoAccount \in Account /\ Created(0) \in Account
    BY DEF NoAccount, Created, Account
  <2>2. /\ NoLogin \in LoginTask /\ NoLogin.pc = "idle" /\ NoLogin.name = None
        /\ NoCli \in Cli /\ NoCli.pc = "idle" /\ NoCli.name = None
    BY DEF NoLogin, LoginTask, NoCli, Cli
  <2>3. QED
    BY <2>1, <2>2 DEF Cells
<1>6. LockHeldByFetcher /\ SeenRecent /\ CachedRecent
  BY <1>2, <1>3 DEF LockHeldByFetcher, SeenRecent, CachedRecent, Fetching
<1>7. Shut
  BY <1>3 DEF Shut
<1>8. QED
  BY <1>4, <1>5, <1>6, <1>7 DEF AdminInv

-----------------------------------------------------------------------------
(* The key cache. *)

(* What is left of a request that ends a wait or a fetch, or begins one.   *)
Moved(t, x, h) ==
    /\ req' = [req EXCEPT ![t] = x] /\ x \in Req
    /\ \/ x.pc \in {"wait", "verified", "refused"} /\ holder' = h
       \/ x.pc = "fetch" /\ x.now = clock /\ h = None /\ holder' = t

LEMMA FetchOrQueueMoves ==
    ASSUME clock \in Nat, NEW t \in Request, NEW r \in Req, NEW h,
           FetchOrQueue(t, r, h)
    PROVE  \E x : Moved(t, x, h)
<1> DEFINE x == [r EXCEPT !.pc = "fetch", !.now = clock]
           y == [r EXCEPT !.pc = "wait"]
<1>1. /\ x \in Req /\ x.pc = "fetch" /\ x.now = clock
      /\ y \in Req /\ y.pc = "wait"
  BY DEF Req
<1>2. \/ h = None /\ holder' = t /\ req' = [req EXCEPT ![t] = x]
      \/ holder' = h /\ req' = [req EXCEPT ![t] = y]
  BY DEF FetchOrQueue, Fetch, Queue, Become
<1> HIDE DEF x, y
<1>3. QED
  BY <1>1, <1>2 DEF Moved

LEMMA LookUpMoves ==
    ASSUME clock \in Nat, NEW t \in Request, NEW r \in Req, NEW c, NEW h,
           LookUp(t, r, c, h)
    PROVE  /\ \E x : Moved(t, x, h)
           /\ jwks' \in {c, NoKeys}
<1> DEFINE x == [r EXCEPT !.pc = "verified"]
           y == [r EXCEPT !.pc = "refused", !.why = "no key"]
           z == [r EXCEPT !.again = TRUE]
<1>1. /\ x \in Req /\ x.pc = "verified"
      /\ y \in Req /\ y.pc = "refused"
      /\ z \in Req
  BY DEF Req
<1>2. \/ jwks' = c /\ holder' = h /\ req' = [req EXCEPT ![t] = x]
      \/ jwks' = c /\ holder' = h /\ req' = [req EXCEPT ![t] = y]
      \/ jwks' = NoKeys /\ FetchOrQueue(t, z, h)
  BY DEF LookUp, Refuse, Become
<1> HIDE DEF x, y, z
<1>3. CASE FetchOrQueue(t, z, h) /\ jwks' = NoKeys
  BY <1>1, <1>3, FetchOrQueueMoves
<1>4. QED
  BY <1>1, <1>2, <1>3 DEF Moved

(* One request moves; the cache is kept, emptied, or holds what the        *)
(* request saw.                                                            *)
LEMMA RequestStep ==
    ASSUME clock \in Nat, JwksTypeOK, LockHeldByFetcher, SeenRecent,
           CachedRecent, NEW t \in Request, NEW x, NEW h, Moved(t, x, h),
           h = holder \/ (h = None /\ (holder = None \/ holder = t)),
           Fetching(t) => h = None,
           jwks' \in Cache,
           \/ ~jwks'.have
           \/ jwks'.keys = jwks.keys /\ jwks'.at = jwks.at
              /\ jwks'.have = jwks.have
           \/ /\ req[t].pc = "answer"
              /\ jwks'.keys = req[t].seen /\ jwks'.at = req[t].now,
           UNCHANGED <<clock, published, removedAt>>
    PROVE  /\ JwksTypeOK' /\ LockHeldByFetcher' /\ SeenRecent'
           /\ CachedRecent'
<1>1. /\ req'[t] = x /\ \A s \in Request \ {t} : req'[s] = req[s]
      /\ holder \in Request \cup {None}
  BY DEF JwksTypeOK, Moved
<1>2. JwksTypeOK'
  BY DEF JwksTypeOK, Moved, Cache
<1>3. LockHeldByFetcher'
  <2>1. \A s \in Request \ {t} : Fetching(s) => h = s
    BY NoneAssumption DEF LockHeldByFetcher, Fetching
  <2>2. h # None => h \in Request \ {t} /\ Fetching(h)
    BY <1>1 DEF LockHeldByFetcher, Fetching
  <2>3. CASE x.pc \in {"wait", "verified", "refused"} /\ holder' = h
    BY <1>1, <2>1, <2>2, <2>3 DEF LockHeldByFetcher, Fetching
  <2>4. CASE x.pc = "fetch" /\ h = None /\ holder' = t
    BY <1>1, <2>1, <2>4, NoneAssumption DEF LockHeldByFetcher, Fetching
  <2>5. QED
    BY <2>3, <2>4 DEF Moved
<1>4. SeenRecent'
  BY <1>1 DEF SeenRecent, Moved, Fetching
<1>5. CachedRecent'
  BY DEF CachedRecent, SeenRecent, Fetching
<1>6. QED
  BY <1>2, <1>3, <1>4, <1>5

(* The facts about the cache that every step keeps. *)
JwksInv == clock \in Nat /\ JwksTypeOK /\ LockHeldByFetcher /\ SeenRecent
           /\ CachedRecent

LEMMA BearerType ==
    ASSUME NEW k \in Kid, NEW b \in BOOLEAN
    PROVE  [NoReq EXCEPT !.kid = k, !.steady = b] \in Req
<1>1. NoReq \in Req
  BY DEF NoReq, Req
<1>2. QED
  BY <1>1 DEF Req

LEMMA JwksNextInv ==
    ASSUME JwksInv, JwksNext
    PROVE  JwksInv'
<1> USE DEF JwksInv
<1>1. /\ req \in [Request -> Req] /\ jwks \in Cache /\ published \subseteq Kid
      /\ holder \in Request \cup {None}
  BY DEF JwksTypeOK, Cache
<1>2. NoKeys \in Cache /\ NoKeys.have = FALSE
  BY NoKeysType
<1>3. ASSUME NEW t \in Request, NEW k \in Kid, Bearer(t, k)
      PROVE  JwksInv'
  <2> DEFINE r == [NoReq EXCEPT !.kid = k, !.steady = k \in published]
             y == [r EXCEPT !.pc = "refused", !.why = "no answer"]
  <2>1. (k \in published) \in BOOLEAN
    OBVIOUS
  <2>2. r \in Req
    BY <2>1, BearerType
  <2>3. y \in Req /\ y.pc = "refused"
    BY <2>2 DEF Req
  <2>4. /\ ~Fetching(t)
        /\ GetKeys(t, r)
        /\ UNCHANGED <<clock, published, removedAt>>
    BY <1>3 DEF Bearer, Fetching, Happens
  <2>5. \/ LookUp(t, r, jwks, holder)
        \/ jwks' = jwks /\ holder' = holder /\ req' = [req EXCEPT ![t] = y]
        \/ jwks' = jwks /\ FetchOrQueue(t, r, holder)
    BY <2>4 DEF GetKeys, Refuse, Become
  <2> HIDE DEF r, y
  <2>6. (\E x : Moved(t, x, holder)) /\ jwks' \in {jwks, NoKeys}
    BY <2>2, <2>3, <2>5, LookUpMoves, FetchOrQueueMoves DEF Moved
  <2>7. QED
    BY <1>1, <1>2, <2>4, <2>6, RequestStep
<1>4. ASSUME NEW t \in Request, Wake(t)
      PROVE  JwksInv'
  <2>1. /\ ~Fetching(t) /\ holder = None /\ req[t] \in Req
        /\ UNCHANGED <<clock, published, removedAt>>
    BY <1>1, <1>4 DEF Wake, Fetching, Quietly, clockVars
  <2> DEFINE x == [req[t] EXCEPT !.pc = "fetch", !.now = clock]
  <2>2. x \in Req /\ x.pc = "fetch" /\ x.now = clock
    BY <2>1 DEF Req
  <2>3. \/ LookUp(t, req[t], jwks, None)
        \/ jwks' = jwks /\ holder' = t /\ req' = [req EXCEPT ![t] = x]
    BY <1>4 DEF Wake, Fetch, Become
  <2> HIDE DEF x
  <2>4. (\E y : Moved(t, y, None)) /\ jwks' \in {jwks, NoKeys}
    BY <2>1, <2>2, <2>3, LookUpMoves DEF Moved
  <2>5. QED
    BY <1>1, <1>2, <2>1, <2>4, RequestStep
<1>5. ASSUME NEW t \in Request, IdpServes(t)
      PROVE  JwksInv'
  <2> DEFINE x == [req[t] EXCEPT !.pc = "answer", !.seen = published]
  <2>1. /\ x \in Req /\ x.pc = "answer" /\ x.seen = published
        /\ x.now = req[t].now
    BY <1>1 DEF Req
  <2>2. /\ req[t].pc = "fetch" /\ req' = [req EXCEPT ![t] = x]
        /\ UNCHANGED <<clock, jwks, holder, published, removedAt>>
    BY <1>5 DEF IdpServes, Become, Quietly, clockVars
  <2> HIDE DEF x
  <2>3. JwksTypeOK'
    BY <2>1, <2>2 DEF JwksTypeOK
  <2>4. LockHeldByFetcher' /\ SeenRecent' /\ CachedRecent'
    BY <1>1, <2>1, <2>2
    DEF LockHeldByFetcher, SeenRecent, CachedRecent, Fetching
  <2>5. QED
    BY <2>2, <2>3, <2>4
<1>6. ASSUME NEW t \in Request, Receive(t)
      PROVE  JwksInv'
  <2> DEFINE r == [req[t] EXCEPT !.seen = {}, !.now = 0]
             c == Fetched(t)
  <2>1. /\ req[t] \in Req /\ req[t].pc = "answer" /\ holder = t
        /\ LookUp(t, r, c, None)
        /\ UNCHANGED <<clock, published, removedAt>>
    BY <1>1, <1>6 DEF Receive, Quietly, clockVars, LockHeldByFetcher
  <2>2. r \in Req
    BY <2>1 DEF Req
  <2>3. c \in Cache /\ c.keys = req[t].seen /\ c.at = req[t].now
    BY <1>1, <2>1 DEF Fetched, Cache, Req
  <2> HIDE DEF r, c
  <2>4. (\E y : Moved(t, y, None)) /\ jwks' \in {c, NoKeys}
    BY <2>1, <2>2, LookUpMoves
  <2>5. QED
    BY <1>2, <2>1, <2>3, <2>4, RequestStep
<1>7. ASSUME NEW t \in Request, FetchFails(t)
      PROVE  JwksInv'
  <2> DEFINE r == [req[t] EXCEPT !.seen = {}, !.now = 0]
             x == [r EXCEPT !.pc = "refused", !.why = "no answer"]
             c == [jwks EXCEPT !.neg = req[t].now + NegativeTTL]
  <2>1. /\ Fetching(t) /\ req[t] \in Req /\ holder = t
        /\ UNCHANGED <<clock, published, removedAt>>
    BY <1>1, <1>7 DEF FetchFails, Fetching, Happens, LockHeldByFetcher
  <2>2. r \in Req
    BY <2>1 DEF Req
  <2>3. x \in Req /\ x.pc = "refused"
    BY <2>2 DEF Req
  <2>4. req[t].now + NegativeTTL \in Nat
    <3>1. req[t].now \in Nat
      BY <2>1 DEF Req
    <3>2. QED
      BY <3>1, TTLAssumption
  <2>5. /\ c \in Cache /\ c.keys = jwks.keys /\ c.at = jwks.at
        /\ c.have = jwks.have
    BY <1>1, <2>4 DEF Cache
  <2>6. jwks' = c /\ holder' = None /\ req' = [req EXCEPT ![t] = x]
    BY <1>7 DEF FetchFails, Refuse, Become
  <2> HIDE DEF r, x, c
  <2>7. Moved(t, x, None)
    BY <2>3, <2>6 DEF Moved
  <2>8. QED
    BY <2>1, <2>5, <2>6, <2>7, RequestStep
<1>8. ASSUME NEW S \in SUBSET Kid, Rotate(S)
      PROVE  JwksInv'
  <2>1. /\ published' = S /\ clock' = clock /\ jwks' = jwks
        /\ holder' = holder
        /\ removedAt' = [k \in Kid |-> IF k \in published \ S THEN clock
                                      ELSE removedAt[k]]
    BY <1>8 DEF Rotate, Happens
  <2>2. \A t \in Request :
          /\ req'[t].pc = req[t].pc /\ req'[t].now = req[t].now
          /\ req'[t].seen = req[t].seen /\ req'[t] \in Req
    <3>1. ASSUME NEW t \in Request, NEW b \in BOOLEAN
          PROVE  /\ [req[t] EXCEPT !.steady = b] \in Req
                 /\ [req[t] EXCEPT !.steady = b].pc = req[t].pc
                 /\ [req[t] EXCEPT !.steady = b].now = req[t].now
                 /\ [req[t] EXCEPT !.steady = b].seen = req[t].seen
      BY <1>1 DEF Req
    <3>2. \A t \in Request : \E b \in BOOLEAN :
            req'[t] = [req[t] EXCEPT !.steady = b]
      BY <1>8 DEF Rotate
    <3>3. ASSUME NEW t \in Request
          PROVE  /\ req'[t].pc = req[t].pc /\ req'[t].now = req[t].now
                 /\ req'[t].seen = req[t].seen /\ req'[t] \in Req
      <4>1. PICK b \in BOOLEAN : req'[t] = [req[t] EXCEPT !.steady = b]
        BY <3>2
      <4>2. QED
        BY <3>1, <4>1
    <3>4. QED
      BY <3>3
  <2>3. DOMAIN req' = Request /\ req' = [t \in Request |-> req'[t]]
    BY <1>8 DEF Rotate
  <2>4. JwksTypeOK'
    BY <1>1, <2>1, <2>2, <2>3 DEF JwksTypeOK
  <2>5. LockHeldByFetcher'
    BY <1>1, <2>1, <2>2 DEF LockHeldByFetcher
  <2>6. \A k \in Kid :
           /\ removedAt[k] \in Int
           /\ k \notin S =>
                \/ k \in published /\ removedAt'[k] = clock
                \/ k \notin published /\ removedAt'[k] = removedAt[k]
    BY <2>1 DEF JwksTypeOK
  <2>7. SeenRecent'
    <3> SUFFICES ASSUME NEW t \in Request, Fetching(t)
                 PROVE  /\ req[t].now <= clock
                        /\ req[t].pc = "answer" => \A k \in req[t].seen \ S :
                               removedAt'[k] >= req[t].now
      BY <2>1, <2>2 DEF SeenRecent, Fetching
    <3>1. req[t].seen \subseteq Kid /\ req[t].now \in Nat
      BY <1>1 DEF Req
    <3>2. QED
      BY <2>6, <3>1 DEF SeenRecent
  <2>8. CachedRecent'
    <3> SUFFICES ASSUME jwks.have, NEW k \in jwks.keys \ S
                 PROVE  removedAt'[k] >= jwks.at
      BY <2>1 DEF CachedRecent
    <3>1. k \in Kid /\ jwks.at \in Nat
      BY <1>1 DEF Cache
    <3>2. k \in published => jwks.at <= clock
      BY DEF CachedRecent
    <3>3. QED
      BY <2>6, <3>1, <3>2 DEF CachedRecent
  <2>9. QED
    BY <2>1, <2>4, <2>5, <2>7, <2>8
<1>9. QED
  BY <1>3, <1>4, <1>5, <1>6, <1>7, <1>8 DEF JwksNext

-----------------------------------------------------------------------------
(* The gate and the account. *)

LEMMA InitJwksInv == Init => JwksInv
BY InitAdminInv DEF AdminInv, JwksInv

(* A request of the gate: it holds no lock, before and after. *)
LEMMA GateMoves ==
    ASSUME JwksInv, NEW t \in Request, GateNext(t)
    PROVE  \E x \in Req :
              /\ req' = [req EXCEPT ![t] = x]
              /\ x.pc \in {"idle", "disable", "disable_write",
                           "disable_event", "served", "refused"}
              /\ x.steady => req[t].steady /\ x.kid = req[t].kid
              /\ x.pc = "refused" => x.why # "no key"
              /\ ~Fetching(t)
              /\ UNCHANGED <<clock, jwks, holder, published, removedAt>>
<1>1. req[t] \in Req
  BY DEF JwksInv, JwksTypeOK
<1>2. \A pc \in {"disable", "disable_write", "disable_event", "served"} :
        /\ [req[t] EXCEPT !.pc = pc] \in Req
        /\ [req[t] EXCEPT !.pc = pc].pc = pc
        /\ [req[t] EXCEPT !.pc = pc].steady = req[t].steady
        /\ [req[t] EXCEPT !.pc = pc].kid = req[t].kid
  BY <1>1 DEF Req
<1>3. \A why \in {"role", "error"} :
        /\ [req[t] EXCEPT !.pc = "refused", !.why = why] \in Req
        /\ [req[t] EXCEPT !.pc = "refused", !.why = why].pc = "refused"
        /\ [req[t] EXCEPT !.pc = "refused", !.why = why].why = why
        /\ [req[t] EXCEPT !.pc = "refused", !.why = why].steady = req[t].steady
        /\ [req[t] EXCEPT !.pc = "refused", !.why = why].kid = req[t].kid
  BY <1>1 DEF Req
<1>4. NoReq \in Req /\ NoReq.pc = "idle" /\ ~NoReq.steady
  BY DEF NoReq, Req
<1>5. ~Fetching(t)
  BY DEF GateNext, Gate, DisableFetch, DisableWrite, DisableEvent,
         DisableRaises, Reply, At, Fetching
<1>6. UNCHANGED <<clock, jwks, holder, published, removedAt>>
  BY DEF GateNext, Gate, DisableFetch, DisableWrite, DisableEvent,
         DisableRaises, Reply, InRequest, clockVars, Happens
<1>7. CASE Gate(t) \/ DisableFetch(t) \/ DisableWrite(t) \/ DisableEvent(t)
  <2>1. \/ \E pc \in {"disable", "disable_write", "disable_event", "served"} :
               req' = [req EXCEPT ![t] = [req[t] EXCEPT !.pc = pc]]
        \/ req' = [req EXCEPT ![t] =
                      [req[t] EXCEPT !.pc = "refused", !.why = "role"]]
    BY <1>7 DEF Gate, DisableFetch, DisableWrite, DisableEvent, Goto, Refuse,
                Become
  <2>2. ASSUME NEW pc \in {"disable", "disable_write", "disable_event", "served"},
               NEW x, x = [req[t] EXCEPT !.pc = pc],
               req' = [req EXCEPT ![t] = x]
        PROVE  /\ x \in Req /\ x.pc = pc
               /\ x.steady => req[t].steady /\ x.kid = req[t].kid
    BY <1>2, <2>2
  <2>3. CASE req' = [req EXCEPT ![t] =
                        [req[t] EXCEPT !.pc = "refused", !.why = "role"]]
    BY <1>3, <1>5, <1>6, <2>3
  <2>4. QED
    BY <1>5, <1>6, <2>1, <2>2, <2>3
<1>8. CASE DisableRaises(t)
  <2>1. req' = [req EXCEPT ![t] =
                  [req[t] EXCEPT !.pc = "refused", !.why = "error"]]
    BY <1>8 DEF DisableRaises, Refuse, Become
  <2>2. QED
    BY <1>3, <1>5, <1>6, <2>1
<1>9. CASE Reply(t)
  BY <1>4, <1>5, <1>6, <1>9 DEF Reply, Become
<1>10. QED
  BY <1>7, <1>8, <1>9 DEF GateNext

LEMMA NextJwksInv ==
    ASSUME JwksInv, [Next]_vars
    PROVE  JwksInv'
<1>1. ASSUME clock' \in Nat, clock' >= clock,
             UNCHANGED jwksVars
      PROVE  JwksInv'
  <2>1. clock \in Nat /\ \A t \in Request : req[t].now \in Nat
    BY DEF JwksInv, JwksTypeOK, Req
  <2>2. JwksTypeOK' /\ LockHeldByFetcher'
    BY <1>1 DEF JwksInv, JwksTypeOK, LockHeldByFetcher, jwksVars
  <2>3. SeenRecent'
    BY <1>1, <2>1 DEF JwksInv, SeenRecent, jwksVars, Fetching
  <2>4. jwks.at \in Nat
    BY DEF JwksInv, JwksTypeOK
  <2>5. CachedRecent'
    BY <1>1, <2>1, <2>4 DEF JwksInv, CachedRecent, jwksVars
  <2>6. QED
    BY <1>1, <2>2, <2>3, <2>5 DEF JwksInv
<1>2. CASE JwksNext
  BY <1>2, JwksNextInv
<1>3. CASE LocalNext /\ UNCHANGED <<jwksVars, flag>>
  <2>1. clock' = clock
    BY <1>3 DEF LocalNext, LoginNext, LoginArrives, LoginFetch, RecordFailure,
       RecordSuccess, LoginEvent, LoginRaises, CliStarts, CliWrites, CliEnds,
       Happens, Quietly, clockVars
  <2>2. QED
    BY <1>1, <1>3, <2>1 DEF JwksInv
<1>4. ASSUME NEW t \in Request, GateNext(t)
      PROVE  JwksInv'
  <2>1. PICK x \in Req :
          /\ req' = [req EXCEPT ![t] = x]
          /\ x.pc \in {"idle", "disable", "disable_write",
                       "disable_event", "served", "refused"}
          /\ ~Fetching(t)
          /\ UNCHANGED <<clock, jwks, holder, published, removedAt>>
    BY <1>4, GateMoves
  <2>2. JwksTypeOK' /\ CachedRecent'
    BY <2>1 DEF JwksInv, JwksTypeOK, CachedRecent
  <2>3. req \in [Request -> Req] /\ holder \in Request \cup {None}
    BY DEF JwksInv, JwksTypeOK
  <2>4. LockHeldByFetcher' /\ SeenRecent'
    BY <2>1, <2>3 DEF JwksInv, LockHeldByFetcher, SeenRecent, Fetching
  <2>5. QED
    BY <2>1, <2>2, <2>4 DEF JwksInv
<1>5. CASE Restart
  <2>1. /\ jwks' \in Warm /\ holder' = None /\ clock' = clock
        /\ req' = [t \in Request |-> NoReq]
        /\ published' = published /\ removedAt' = removedAt
    BY <1>5 DEF Restart, Happens
  <2>2. jwks' \in Cache
        /\ (jwks'.have => jwks'.keys = published /\ jwks'.at = clock)
    BY <2>1, WarmOK DEF JwksInv, JwksTypeOK
  <2>3. NoReq \in Req /\ NoReq.pc = "idle"
    BY DEF NoReq, Req
  <2>4. JwksTypeOK' /\ LockHeldByFetcher' /\ SeenRecent'
    BY <2>1, <2>2, <2>3
    DEF JwksInv, JwksTypeOK, LockHeldByFetcher, SeenRecent, Fetching, Cache
  <2>5. CachedRecent'
    BY <2>1, <2>2 DEF JwksInv, CachedRecent
  <2>6. QED
    BY <2>1, <2>4, <2>5 DEF JwksInv
<1>6. CASE Tick
  BY <1>1, <1>6 DEF Tick, JwksInv
<1>7. CASE UNCHANGED vars
  BY <1>1, <1>7 DEF vars, clockVars, JwksInv
<1>8. QED
  BY <1>2, <1>3, <1>4, <1>5, <1>6, <1>7 DEF Next

LEMMA JwksInvHolds == Spec => []JwksInv
BY InitJwksInv, NextJwksInv, PTL DEF Spec

(* For any TTL, no key is usable for TTL after the identity provider       *)
(* removed it: the age of the cached keys counts from before they were     *)
(* asked for.                                                              *)
THEOREM KeysAlwaysRecent == Spec => []KeysAreRecent
<1>1. JwksInv => KeysAreRecent
  <2> SUFFICES ASSUME JwksInv, Fresh, NEW k \in jwks.keys \ published
               PROVE  clock < removedAt[k] + TTL
    BY DEF KeysAreRecent
  <2>1. /\ jwks.at \in Nat /\ clock \in Nat /\ removedAt[k] \in Int
        /\ removedAt[k] >= jwks.at
    BY DEF JwksInv, JwksTypeOK, CachedRecent, Fresh
  <2>2. QED
    BY <2>1, TTLAssumption DEF Fresh
<1>2. QED
  BY <1>1, JwksInvHolds, PTL

(* For any number of requests, the lock of the cache is held by exactly    *)
(* the request that waits for the identity provider.                       *)
THEOREM LockAlwaysHeldByFetcher == Spec => []LockHeldByFetcher
BY JwksInvHolds, PTL DEF JwksInv

-----------------------------------------------------------------------------
(* The account. *)

Late(t) == req[t].pc \in {"served", "disable_event"}

(* Nothing of the key cache lets a request past the gate. *)
LEMMA JwksLetsNobodyIn ==
    ASSUME JwksInv, JwksNext, NEW t \in Request, Late(t)'
    PROVE  Late(t)
<1>1. req \in [Request -> Req]
  BY DEF JwksInv, JwksTypeOK
<1>2. ASSUME NEW s \in Request, NEW x, NEW h, Moved(s, x, h)
      PROVE  Late(t)
  BY <1>1, <1>2 DEF Moved, Late
<1>3. ASSUME NEW s \in Request, NEW k \in Kid, Bearer(s, k)
      PROVE  Late(t)
  <2> DEFINE r == [NoReq EXCEPT !.kid = k, !.steady = k \in published]
             y == [r EXCEPT !.pc = "refused", !.why = "no answer"]
  <2>1. (k \in published) \in BOOLEAN
    OBVIOUS
  <2>2. r \in Req
    BY <2>1, BearerType
  <2>3. y \in Req /\ y.pc = "refused"
    BY <2>2 DEF Req
  <2>4. GetKeys(s, r) /\ clock \in Nat
    BY <1>3 DEF Bearer, JwksInv
  <2>5. \/ LookUp(s, r, jwks, holder)
        \/ jwks' = jwks /\ holder' = holder /\ req' = [req EXCEPT ![s] = y]
        \/ jwks' = jwks /\ FetchOrQueue(s, r, holder)
    BY <2>4 DEF GetKeys, Refuse, Become
  <2> HIDE DEF r, y
  <2>6. \E x : Moved(s, x, holder)
    BY <2>2, <2>3, <2>4, <2>5, LookUpMoves, FetchOrQueueMoves DEF Moved
  <2>7. QED
    BY <1>2, <2>6
<1>4. ASSUME NEW s \in Request, Wake(s)
      PROVE  Late(t)
  <2> DEFINE x == [req[s] EXCEPT !.pc = "fetch", !.now = clock]
  <2>1. req[s] \in Req /\ clock \in Nat
    BY <1>1 DEF JwksInv
  <2>2. x \in Req /\ x.pc = "fetch"
    BY <2>1 DEF Req
  <2>3. \/ LookUp(s, req[s], jwks, None)
        \/ req' = [req EXCEPT ![s] = x]
    BY <1>4 DEF Wake, Fetch, Become
  <2> HIDE DEF x
  <2>4. CASE LookUp(s, req[s], jwks, None)
    BY <1>2, <2>1, <2>4, LookUpMoves
  <2>5. CASE req' = [req EXCEPT ![s] = x]
    BY <1>1, <2>2, <2>5 DEF Late
  <2>6. QED
    BY <2>3, <2>4, <2>5
<1>5. ASSUME NEW s \in Request, IdpServes(s)
      PROVE  Late(t)
  BY <1>1, <1>5 DEF IdpServes, Become, Late, Req
<1>6. ASSUME NEW s \in Request, Receive(s)
      PROVE  Late(t)
  <2> DEFINE r == [req[s] EXCEPT !.seen = {}, !.now = 0]
             c == Fetched(s)
  <2>1. r \in Req /\ clock \in Nat
    BY <1>1 DEF JwksInv, Req
  <2>2. LookUp(s, r, c, None)
    BY <1>6 DEF Receive
  <2> HIDE DEF r, c
  <2>3. QED
    BY <1>2, <2>1, <2>2, LookUpMoves
<1>7. ASSUME NEW s \in Request, FetchFails(s)
      PROVE  Late(t)
  BY <1>1, <1>7 DEF FetchFails, Refuse, Become, Late, Req
<1>8. ASSUME NEW S \in SUBSET Kid, Rotate(S)
      PROVE  Late(t)
  BY <1>1, <1>8 DEF Rotate, Late, Req
<1>9. QED
  BY <1>3, <1>4, <1>5, <1>6, <1>7, <1>8 DEF JwksNext

(* What a login moves to. *)
LEMMA ThenType ==
    ASSUME NEW s \in Login, login[s] \in LoginTask,
           NEW p \in {"idle", "fetch", "fail", "ok", "event", "ok_event"}
    PROVE  /\ Then(s, p) \in LoginTask
           /\ Then(s, p).pc = p /\ Then(s, p).name = login[s].name
<1>1. PICK n : n = login[s].name /\ n \in Name \cup {None}
  BY DEF LoginTask
<1>2. NoLogin \in LoginTask
  BY DEF NoLogin, LoginTask
<1> DEFINE x == [NoLogin EXCEPT !.pc = p, !.name = n]
<1>3. x \in LoginTask /\ x.pc = p /\ x.name = n
  BY <1>1, <1>2 DEF LoginTask
<1>4. Then(s, p) = x
  BY <1>1 DEF Then
<1> HIDE DEF x
<1>5. QED
  BY <1>1, <1>3, <1>4

(* Logins and create-admin keep the bootstrap account as open or shut as   *)
(* it is, or say that create-admin has written it.                         *)
LEMMA LocalStep ==
    ASSUME Cells, clock \in Nat, LocalNext
    PROVE  /\ Cells'
           /\ reset => reset'
           /\ account'[Bootstrap].enabled = account[Bootstrap].enabled \/ reset'
<1> DEFINE Held == /\ \A u \in Name : account'[u].enabled = account[u].enabled
                   /\ reset => reset'
<1>1. /\ account \in [Name -> Account] /\ login \in [Login -> LoginTask]
      /\ cli \in Cli /\ Bootstrap \in Name /\ None \notin Name
      /\ \A s \in Login : login[s].pc = "idle" <=> login[s].name = None
      /\ cli.pc = "idle" <=> cli.name = None
  BY NamesAssumption DEF Cells
<1>2. NoLogin \in LoginTask /\ NoLogin.pc = "idle" /\ NoLogin.name = None
  BY DEF NoLogin, LoginTask
<1>3. \A s \in Login : login[s].pc # "idle" => login[s].name \in Name
  BY <1>1 DEF LoginTask
<1>4. ASSUME NEW s \in Login, NEW x \in LoginTask,
             x.pc = "idle" <=> x.name = None,
             login' = [login EXCEPT ![s] = x], UNCHANGED cli,
             account' \in [Name -> Account]
      PROVE  Cells'
  BY <1>1, <1>4 DEF Cells
<1>5. ASSUME NEW s \in Login, NEW ip \in Ip, NEW u \in Name,
             NEW p \in Passwords(u), LoginArrives(s, ip, u, p)
      PROVE  Cells' /\ Held
  <2>1. p \in Int
    BY <1>1 DEF Passwords, Account
  <2> DEFINE ok == Admits(ip, u)
             pc == IF ok THEN "fetch" ELSE "event"
             q == IF ok THEN p ELSE -1
             x == [NoLogin EXCEPT !.pc = pc, !.name = u, !.password = q]
  <2>2. /\ login' = [login EXCEPT ![s] = x]
        /\ UNCHANGED <<account, cli, reset>>
    BY <1>5 DEF LoginArrives
  <2>3. pc \in {"fetch", "event"} /\ q \in Int
    BY <2>1
  <2> HIDE DEF ok, pc, q
  <2>4. x \in LoginTask /\ x.pc = pc /\ x.name = u
    BY <2>3 DEF NoLogin, LoginTask
  <2> HIDE DEF x
  <2>5. QED
    BY <1>1, <1>4, <2>2, <2>3, <2>4
<1>6. ASSUME NEW s \in Login, LoginFetch(s)
      PROVE  Cells' /\ Held
  <2>1. PICK u \in Name : u = login[s].name
    BY <1>3, <1>6 DEF LoginFetch
  <2> DEFINE a == AfterFailure(account[u])
             x == [Then(s, "fail") EXCEPT !.attempts = a.attempts,
                                          !.locked = a.locked]
  <2>2. a.attempts \in Nat /\ a.locked \in Nat
    BY <1>1, LimitAssumption DEF AfterFailure, Account
  <2> HIDE DEF a
  <2>3. x \in LoginTask /\ x.pc = "fail" /\ x.name = u
    <3> DEFINE y == Then(s, "fail")
    <3>1. y \in LoginTask /\ y.pc = "fail" /\ y.name = u
      BY <1>1, <2>1, ThenType
    <3> HIDE DEF y
    <3>2. /\ [y EXCEPT !.attempts = a.attempts, !.locked = a.locked] \in LoginTask
          /\ [y EXCEPT !.attempts = a.attempts, !.locked = a.locked].pc = y.pc
          /\ [y EXCEPT !.attempts = a.attempts, !.locked = a.locked].name = y.name
      BY <2>2, <3>1 DEF LoginTask
    <3> USE DEF y
    <3>3. QED
      BY <3>1, <3>2
  <2> USE DEF a
  <2>4. /\ UNCHANGED <<account, cli, reset>>
        /\ \E y \in {x, Then(s, "event"), Then(s, "ok")} :
              login' = [login EXCEPT ![s] = y]
    BY <1>6, <2>1 DEF LoginFetch
  <2>5. \A pc \in {"event", "ok"} :
           Then(s, pc) \in LoginTask /\ Then(s, pc).pc = pc
           /\ Then(s, pc).name = u
    BY <1>1, <2>1, ThenType
  <2> HIDE DEF a, x
  <2>6. QED
    BY <1>1, <1>4, <2>3, <2>4, <2>5
<1>7. ASSUME NEW s \in Login, RecordFailure(s)
      PROVE  Cells' /\ Held
  <2>1. PICK u \in Name : u = login[s].name
    BY <1>3, <1>7 DEF RecordFailure
  <2>2. login[s].attempts \in Nat /\ login[s].locked \in Nat
    BY <1>1 DEF LoginTask
  <2>3. /\ account' \in [Name -> Account]
        /\ \A v \in Name : account'[v].enabled = account[v].enabled
    BY <1>1, <1>7, <2>1, <2>2 DEF RecordFailure, Account
  <2>4. /\ login' = [login EXCEPT ![s] = Then(s, "event")]
        /\ UNCHANGED <<cli, reset>>
    BY <1>7 DEF RecordFailure
  <2>5. /\ Then(s, "event") \in LoginTask /\ Then(s, "event").pc = "event"
        /\ Then(s, "event").name = u
    BY <1>1, <2>1, ThenType
  <2>6. QED
    BY <1>1, <1>4, <2>3, <2>4, <2>5
<1>8. ASSUME NEW s \in Login, RecordSuccess(s)
      PROVE  Cells' /\ Held
  <2>1. PICK u \in Name : u = login[s].name
    BY <1>3, <1>8 DEF RecordSuccess
  <2>2. account' = [account EXCEPT ![u].attempts = 0, ![u].locked = 0]
    BY <1>8, <2>1 DEF RecordSuccess
  <2>3. /\ account' \in [Name -> Account]
        /\ \A v \in Name : account'[v].enabled = account[v].enabled
    BY <1>1, <2>1, <2>2 DEF Account
  <2>4. /\ login' = [login EXCEPT ![s] = Then(s, "ok_event")]
        /\ UNCHANGED <<cli, reset>>
    BY <1>8 DEF RecordSuccess
  <2>5. /\ Then(s, "ok_event") \in LoginTask
        /\ Then(s, "ok_event").pc = "ok_event"
        /\ Then(s, "ok_event").name = u
    BY <1>1, <2>1, ThenType
  <2>6. QED
    BY <1>1, <1>4, <2>3, <2>4, <2>5
<1>9. ASSUME NEW s \in Login, LoginEvent(s) \/ LoginRaises(s)
      PROVE  Cells' /\ Held
  BY <1>1, <1>2, <1>4, <1>9 DEF LoginEvent, LoginRaises
<1>10. ASSUME NEW u \in Name, CliStarts(u)
       PROVE  Cells' /\ Held
  <2>1. cli' \in Cli /\ cli'.pc = "write" /\ cli'.name = u
    BY <1>10 DEF CliStarts, Cli
  <2>2. UNCHANGED <<account, login, reset>>
    BY <1>10 DEF CliStarts
  <2>3. QED
    BY <1>1, <2>1, <2>2 DEF Cells
<1>11. CASE CliEnds
  <2>1. NoCli \in Cli /\ NoCli.pc = "idle" /\ NoCli.name = None
    BY DEF NoCli, Cli
  <2>2. UNCHANGED <<account, login, reset>> /\ cli' = NoCli
    BY <1>11 DEF CliEnds
  <2>3. QED
    BY <1>1, <2>1, <2>2 DEF Cells
<1>12. CASE CliWrites
  <2>1. PICK u \in Name : u = cli.name
    BY <1>1, <1>12 DEF CliWrites, Cli
  <2>2. /\ account' = [account EXCEPT ![u] = Created(@.password + 1)]
        /\ reset' = (reset \/ u = Bootstrap)
        /\ cli' = [cli EXCEPT !.pc = "event"] /\ login' = login
    BY <1>12, <2>1 DEF CliWrites
  <2>3. Created(account[u].password + 1) \in Account
    BY <1>1 DEF Created, Account
  <2>4. account' \in [Name -> Account]
    BY <1>1, <2>2, <2>3
  <2>5. cli' \in Cli /\ cli'.pc = "event" /\ cli'.name = u
    BY <1>1, <2>1, <2>2 DEF Cli
  <2>6. Cells'
    BY <1>1, <2>2, <2>4, <2>5 DEF Cells
  <2>7. CASE u = Bootstrap
    BY <2>2, <2>6, <2>7
  <2>8. CASE u # Bootstrap
    BY <1>1, <2>2, <2>6, <2>8
  <2>9. QED
    BY <2>7, <2>8
<1>13. QED
  BY <1>1, <1>5, <1>6, <1>7, <1>8, <1>9, <1>10, <1>11, <1>12
     DEF LocalNext, LoginNext

LEMMA NextAdminInv ==
    ASSUME AdminInv, [Next]_vars
    PROVE  AdminInv'
<1>1. JwksInv'
  BY NextJwksInv DEF AdminInv, JwksInv
<1>2. /\ JwksInv /\ Cells /\ Shut
      /\ account \in [Name -> Account] /\ Bootstrap \in Name
      /\ req \in [Request -> Req]
  BY NamesAssumption DEF AdminInv, JwksInv, JwksTypeOK, Cells
<1>3. Cells' /\ Shut'
  <2>1. CASE JwksNext /\ UNCHANGED <<localVars, flag>>
    <3>1. \A t \in Request : Late(t)' => Late(t)
      BY <1>2, <2>1, JwksLetsNobodyIn
    <3>2. QED
      BY <1>2, <2>1, <3>1 DEF Shut, Late, Cells, localVars
  <2>2. CASE LocalNext /\ UNCHANGED <<jwksVars, flag>>
    <3>1. /\ Cells' /\ (reset => reset')
          /\ \/ account'[Bootstrap].enabled = account[Bootstrap].enabled
             \/ reset'
      BY <1>2, <2>2, LocalStep DEF JwksInv
    <3>2. QED
      BY <1>2, <2>2, <3>1 DEF Shut, jwksVars
  <2>3. ASSUME NEW t \in Request, GateNext(t)
        PROVE  Cells' /\ Shut'
    <3>1. PICK x \in Req : req' = [req EXCEPT ![t] = x]
      BY <1>2, <2>3, GateMoves
    <3> DEFINE y(pc) == [req[t] EXCEPT !.pc = pc]
               z(why) == [req[t] EXCEPT !.pc = "refused", !.why = why]
    <3>0. \A v : y(v).pc = v /\ z(v).pc = "refused"
      BY <1>2 DEF Req
    <3>2. CASE Gate(t)
      <4>1. req'[t].pc \in {"served", "disable_event"} => flag = "settled"
        <5>1. \/ req' = [req EXCEPT ![t] = z("role")]
              \/ flag = "settled"
              \/ req' = [req EXCEPT ![t] = y("disable")]
          BY <3>2 DEF Gate, Goto, Refuse, Become
        <5> HIDE DEF y, z
        <5>2. QED
          BY <1>2, <3>0, <5>1
      <4>2. QED
        BY <1>2, <3>1, <3>2, <4>1 DEF Gate, KeepLocal, Shut, Cells
    <3>3. CASE DisableFetch(t)
      <4>1. CASE ~account[Bootstrap].enabled
        BY <1>2, <3>3, <4>1 DEF DisableFetch, KeepLocal, Shut, Cells
      <4>2. CASE account[Bootstrap].enabled
        <5>1. req'[t].pc = "disable_write" /\ flag' = flag /\ reset' = reset
          <6>1. /\ req' = [req EXCEPT ![t] = y("disable_write")]
                /\ flag' = flag /\ reset' = reset
            BY <3>3, <4>2 DEF DisableFetch, Goto, Become
          <6> HIDE DEF y, z
          <6>2. QED
            BY <1>2, <3>0, <6>1
        <5>2. QED
          BY <1>2, <3>1, <3>3, <5>1 DEF DisableFetch, KeepLocal, Shut, Cells
      <4>3. QED
        BY <4>1, <4>2
    <3>4. CASE DisableWrite(t)
      <4>1. /\ account' = [account EXCEPT ![Bootstrap].enabled = FALSE]
            /\ UNCHANGED <<login, cli>>
        BY <3>4 DEF DisableWrite
      <4>2. account' \in [Name -> Account] /\ ~account'[Bootstrap].enabled
        BY <1>2, <4>1 DEF Account
      <4>3. QED
        BY <1>2, <4>1, <4>2 DEF Shut, Cells
    <3>5. CASE DisableEvent(t)
      BY <1>2, <3>5 DEF DisableEvent, At, KeepLocal, Shut, Cells
    <3>6. CASE DisableRaises(t)
      <4>1. req'[t].pc = "refused"
        <5>1. req' = [req EXCEPT ![t] = z("error")]
          BY <3>6 DEF DisableRaises, Refuse, Become
        <5> HIDE DEF y, z
        <5>2. QED
          BY <1>2, <3>0, <5>1
      <4>2. QED
        BY <1>2, <3>1, <3>6, <4>1 DEF DisableRaises, KeepLocal, Shut, Cells
    <3>7. CASE Reply(t)
      <4>1. NoReq.pc = "idle"
        BY DEF NoReq
      <4>2. req'[t].pc = "idle"
        BY <1>2, <3>7, <4>1 DEF Reply, Become
      <4>3. QED
        BY <1>2, <3>1, <3>7, <4>2 DEF Reply, KeepLocal, Shut, Cells
    <3>8. QED
      BY <2>3, <3>2, <3>3, <3>4, <3>5, <3>6, <3>7 DEF GateNext
  <2>4. CASE Restart
    <3>1. /\ NoReq.pc = "idle" /\ NoLogin \in LoginTask
          /\ NoLogin.pc = "idle" /\ NoLogin.name = None
      BY DEF NoReq, NoLogin, LoginTask
    <3>2. QED
      BY <1>2, <2>4, <3>1 DEF Restart, Shut, Cells
  <2>5. CASE Tick \/ UNCHANGED vars
    BY <1>2, <2>5 DEF Tick, vars, jwksVars, localVars, Shut, Cells
  <2>6. QED
    BY <2>1, <2>2, <2>3, <2>4, <2>5 DEF Next
<1>4. QED
  BY <1>1, <1>3 DEF AdminInv, JwksInv

(* For any number of requests, logins and restarts: a process that has let *)
(* a SIAM administrator in leaves the bootstrap account disabled until     *)
(* create-admin writes it.                                                 *)
THEOREM SiamAdminAlwaysDisablesLocal == Spec => []SiamAdminDisablesLocal
<1>1. AdminInv => SiamAdminDisablesLocal
  BY DEF AdminInv, Shut, SiamAdminDisablesLocal, At
<1>2. QED
  BY <1>1, InitAdminInv, NextAdminInv, PTL DEF Spec

-----------------------------------------------------------------------------
(* The remaining variables. *)

Buckets == [Key -> Seq(Nat)]

RestOK ==
    /\ events \in Nat
    /\ hits \in Buckets /\ admitted \in [Name -> SUBSET Nat]
    /\ \A u \in Name : admitted[u] \subseteq DOMAIN hits[u]
    /\ fails \in [Name -> Nat] /\ mixed \in [Name -> BOOLEAN]
    /\ reset \in BOOLEAN /\ flag \in {"pending", "settled"}

(* A login hits both buckets or only its address's, and is admitted only   *)
(* in the first case; other usernames' buckets are left alone.             *)
LEMMA ArrivalHits ==
    ASSUME hits \in Buckets, admitted \in [Name -> SUBSET Nat], clock \in Nat,
           NEW s, NEW ip \in Ip, NEW u \in Name, NEW p,
           LoginArrives(s, ip, u, p)
    PROVE  /\ hits' \in Buckets /\ \A v \in Name : hits[v] \in Seq(Nat)
           /\ \A v \in Name \ {u} : /\ hits'[v] = hits[v]
                                    /\ admitted'[v] = admitted[v]
           /\ admitted' \in [Name -> SUBSET Nat]
           /\ hits'[u] \in {hits[u], Append(hits[u], clock)}
           /\ \/ admitted'[u] = admitted[u]
              \/ /\ admitted'[u] = admitted[u] \cup {Len(hits[u]) + 1}
                 /\ hits'[u] = Append(hits[u], clock)
                 /\ UnderLimit(hits[u])
<1> DEFINE hit == IF UnderLimit(hits[ip]) THEN {ip, u} ELSE {ip}
           ok == Admits(ip, u)
<1>1. hits' = [k \in Key |-> IF k \in hit THEN Hit(hits[k]) ELSE hits[k]]
  BY DEF LoginArrives
<1>2. admitted' = [admitted EXCEPT ![u] =
                     IF ok THEN @ \cup {Len(hits[u]) + 1} ELSE @]
  BY DEF LoginArrives
<1>3. ok => u \in hit /\ UnderLimit(hits[u])
  BY DEF Admits
<1>4. \A v \in Name : v \in Key /\ (v # u => v \notin hit)
  BY NamesAssumption DEF Key
<1> HIDE DEF hit, ok
<1>5. \A k \in Key : hits[k] \in Seq(Nat) /\ Hit(hits[k]) \in Seq(Nat)
  BY DEF Buckets, Hit
<1>6. hits' \in Buckets
  BY <1>1, <1>5 DEF Buckets
<1>7. \A v \in Name : hits'[v] = IF v \in hit THEN Append(hits[v], clock)
                                            ELSE hits[v]
  BY <1>1, <1>4 DEF Hit
<1>8. Len(hits[u]) + 1 \in Nat
  BY <1>4, <1>5
<1>9. admitted' \in [Name -> SUBSET Nat]
  BY <1>2, <1>8
<1>10. /\ \A v \in Name \ {u} : admitted'[v] = admitted[v]
       /\ admitted'[u] = IF ok THEN admitted[u] \cup {Len(hits[u]) + 1}
                               ELSE admitted[u]
  BY <1>2
<1>11. QED
  BY <1>3, <1>4, <1>5, <1>6, <1>7, <1>9, <1>10

LEMMA HappensType ==
    ASSUME events \in Nat, Happens \/ Quietly
    PROVE  events' \in Nat
BY DEF Happens, Quietly, clockVars

LEMMA LocalRest ==
    ASSUME RestOK, Cells, clock \in Nat, LocalNext, flag' = flag
    PROVE  RestOK'
<1> USE DEF RestOK
<1>0. \A s \in Login : login[s].pc # "idle" => login[s].name \in Name
  BY DEF Cells, LoginTask
<1>1. ASSUME NEW s \in Login, NEW ip \in Ip, NEW u \in Name,
             NEW p \in Passwords(u), LoginArrives(s, ip, u, p)
      PROVE  RestOK'
  <2>1. /\ hits' \in Buckets /\ \A v \in Name : hits[v] \in Seq(Nat)
        /\ \A v \in Name \ {u} : /\ hits'[v] = hits[v]
                                 /\ admitted'[v] = admitted[v]
        /\ admitted' \in [Name -> SUBSET Nat]
        /\ hits'[u] \in {hits[u], Append(hits[u], clock)}
        /\ \/ admitted'[u] = admitted[u]
           \/ /\ admitted'[u] = admitted[u] \cup {Len(hits[u]) + 1}
              /\ hits'[u] = Append(hits[u], clock)
    BY <1>1, ArrivalHits
  <2>2. admitted'[u] \subseteq DOMAIN hits'[u]
    <3>1. PICK h : h = hits[u]
      OBVIOUS
    <3>2. h \in Seq(Nat) /\ admitted[u] \subseteq DOMAIN h
      BY <2>1, <3>1
    <3>3. QED
      BY <2>1, <3>1, <3>2
  <2>3. \A v \in Name : admitted'[v] \subseteq DOMAIN hits'[v]
    BY <2>1, <2>2
  <2>4. mixed' \in [Name -> BOOLEAN] /\ Happens /\ UNCHANGED <<fails, reset>>
    BY <1>1 DEF LoginArrives
  <2>5. QED
    BY <2>1, <2>3, <2>4, HappensType
<1>2. ASSUME NEW s \in Login, LoginFetch(s)
      PROVE  RestOK'
  <2> DEFINE u == login[s].name
  <2>1. /\ fails' = fails \/ fails' = [fails EXCEPT ![u] = fails[u] + 1]
        /\ Quietly /\ UNCHANGED <<hits, admitted, mixed, reset>>
    <3>1. u \in Name
      BY <1>0, <1>2 DEF LoginFetch
    <3>2. QED
      BY <1>2, <3>1 DEF LoginFetch
  <2> HIDE DEF u
  <2>2. QED
    BY <2>1, HappensType
<1>3. ASSUME NEW s \in Login,
             RecordFailure(s) \/ LoginEvent(s) \/ LoginRaises(s)
      PROVE  RestOK'
  BY <1>3, HappensType DEF RecordFailure, LoginEvent, LoginRaises
<1>4. ASSUME NEW s \in Login, RecordSuccess(s)
      PROVE  RestOK'
  <2>1. /\ fails' \in [Name -> Nat] /\ mixed' \in [Name -> BOOLEAN] /\ Quietly
        /\ UNCHANGED <<hits, admitted, reset>>
    BY <1>4 DEF RecordSuccess
  <2>2. QED
    BY <2>1, HappensType
<1>5. CASE (\E u \in Name : CliStarts(u)) \/ CliEnds
  <2>1. /\ mixed' \in [Name -> BOOLEAN] /\ (Happens \/ Quietly)
        /\ UNCHANGED <<hits, admitted, fails, reset>>
    BY <1>5 DEF CliStarts, CliEnds
  <2>2. QED
    BY <2>1, HappensType
<1>6. CASE CliWrites
  <2>1. /\ fails' \in [Name -> Nat] /\ mixed' \in [Name -> BOOLEAN] /\ Quietly
        /\ reset' \in BOOLEAN /\ UNCHANGED <<hits, admitted>>
    BY <1>6 DEF CliWrites
  <2>2. QED
    BY <2>1, HappensType
<1>7. QED
  BY <1>1, <1>2, <1>3, <1>4, <1>5, <1>6 DEF LocalNext, LoginNext

LEMMA NextRest ==
    ASSUME RestOK, Cells, clock \in Nat, [Next]_vars
    PROVE  RestOK'
<1>1. CASE JwksNext /\ UNCHANGED <<localVars, flag>>
  <2>1. Happens \/ Quietly
    BY <1>1 DEF JwksNext, Bearer, Wake, IdpServes, Receive, FetchFails, Rotate
  <2>2. QED
    BY <1>1, <2>1, HappensType DEF RestOK, localVars
<1>2. CASE LocalNext /\ UNCHANGED <<jwksVars, flag>>
  BY <1>2, LocalRest
<1>3. ASSUME NEW t \in Request, GateNext(t)
      PROVE  RestOK'
  <2>1. /\ Happens \/ Quietly
        /\ UNCHANGED <<hits, admitted, fails, mixed>>
    BY <1>3 DEF GateNext, Gate, DisableFetch, DisableWrite, DisableEvent,
       DisableRaises, Reply, KeepLocal, InRequest, Quietly
  <2>2. /\ reset' = reset \/ reset' = FALSE
        /\ flag' = flag \/ flag' = "settled"
    BY <1>3 DEF GateNext, Gate, DisableFetch, DisableWrite, DisableEvent,
       DisableRaises, Reply
  <2>3. reset' \in BOOLEAN /\ flag' \in {"pending", "settled"}
    BY <2>2 DEF RestOK
  <2>4. QED
    BY <2>1, <2>3, HappensType DEF RestOK
<1>4. CASE Restart
  <2>1. /\ hits' \in Buckets /\ admitted' \in [Name -> SUBSET Nat]
        /\ \A u \in Name : admitted'[u] = {}
    BY <1>4 DEF Restart, NoHits, Buckets
  <2>2. Happens /\ UNCHANGED fails
    BY <1>4 DEF Restart
  <2>3. /\ mixed' \in [Name -> BOOLEAN] /\ reset' \in BOOLEAN
        /\ flag' \in {"pending", "settled"}
    BY <1>4 DEF Restart
  <2>4. QED
    BY <2>1, <2>2, <2>3, HappensType DEF RestOK
<1>5. CASE Tick \/ UNCHANGED vars
  BY <1>5 DEF Tick, RestOK, vars, clockVars, localVars
<1>6. QED
  BY <1>1, <1>2, <1>3, <1>4, <1>5 DEF Next

LEMMA InitRest == Init => RestOK
<1>1. Init => /\ hits \in Buckets /\ admitted \in [Name -> SUBSET Nat]
              /\ \A u \in Name : admitted[u] = {}
  BY DEF Init, LocalInit, NoHits, Buckets
<1>2. ASSUME Init
      PROVE  /\ mixed \in [Name -> BOOLEAN] /\ reset \in BOOLEAN
             /\ events \in Nat /\ fails \in [Name -> Nat]
             /\ flag \in {"pending", "settled"}
  BY <1>2 DEF Init, ClockInit, LocalInit
<1>3. QED
  BY <1>1, <1>2 DEF RestOK

LEMMA AdminInvHolds == Spec => [](AdminInv /\ RestOK)
<1>1. Init => AdminInv /\ RestOK
  BY InitAdminInv, InitRest
<1>2. AdminInv /\ RestOK /\ [Next]_vars => (AdminInv /\ RestOK)'
  BY NextAdminInv, NextRest DEF AdminInv
<1>3. QED
  BY <1>1, <1>2, PTL DEF Spec

(* The key cache, the requests, the account row, the rate limiter's        *)
(* windows and the create-admin command keep their types; in particular    *)
(* failed_attempts never goes below 0.                                     *)
THEOREM AdminTypes == Spec => []TypeInv
<1>1. AdminInv /\ RestOK => TypeInv
  BY DEF AdminInv, RestOK, Cells, TypeInv, LocalTypeOK, Buckets
<1>2. QED
  BY <1>1, AdminInvHolds, PTL

-----------------------------------------------------------------------------
(* The keys a request is checked against. *)

Asking(t) == req[t].pc \in {"wait", "fetch", "answer"}

(* Once a request has emptied the cache, no keys that were asked for       *)
(* before that can come back: the lock is free then or its holder's answer *)
(* is the first to fill it.  So as long as its key is published, whatever  *)
(* is cached or on its way holds it.                                       *)
Promising(t) ==
    Asking(t) /\ req[t].again /\ req[t].steady =>
        /\ jwks.have => req[t].kid \in jwks.keys
        /\ \A s \in Request :
              req[s].pc = "answer" => req[t].kid \in req[s].seen

SteadyOK == \A t \in Request : req[t].steady => req[t].kid \in published

KeyInv ==
    /\ SteadyOK
    /\ holder # None => ~Fresh
    /\ \A t \in Request : Promising(t)
    /\ CurrentKeyAccepted

KeyState == JwksInv /\ KeyInv

(* One request moves to x, and the cache is kept, emptied, or holds what   *)
(* the request saw.                                                        *)
LEMMA KeyStep ==
    ASSUME KeyState, NEW t \in Request, NEW x,
           req' = [req EXCEPT ![t] = x],
           UNCHANGED <<clock, published>>,
           x.steady => x.kid \in published,
           holder' # None => ~Fresh',
           \/ ~jwks'.have
           \/ jwks'.keys = jwks.keys /\ jwks'.have = jwks.have
           \/ req[t].pc = "answer" /\ jwks'.keys = req[t].seen,
           x.pc = "answer" => x.seen = published,
           x.pc \in {"wait", "fetch", "answer"} /\ x.again /\ x.steady =>
              /\ jwks'.have => x.kid \in jwks'.keys
              /\ \A s \in Request \ {t} :
                    req[s].pc = "answer" => x.kid \in req[s].seen,
           x.pc = "refused" /\ x.why = "no key" => ~x.steady
    PROVE  KeyInv'
<1>1. /\ req'[t] = x /\ \A s \in Request \ {t} : req'[s] = req[s]
      /\ KeyInv
  BY DEF KeyState, JwksInv, JwksTypeOK
<1>2. SteadyOK' /\ CurrentKeyAccepted'
  <2>1. ASSUME NEW u \in Request
        PROVE  /\ req'[u].steady => req'[u].kid \in published
               /\ req'[u].pc = "refused" /\ req'[u].why = "no key"
                     => ~req'[u].steady
    <3>1. CASE u = t
      BY <1>1, <3>1
    <3>2. CASE u # t
      BY <1>1, <3>2 DEF KeyInv, SteadyOK, CurrentKeyAccepted
    <3>3. QED
      BY <3>1, <3>2
  <2>2. QED
    BY <2>1 DEF SteadyOK, CurrentKeyAccepted
<1>3. ASSUME NEW u \in Request \ {t}
      PROVE  Promising(u)'
  <2> SUFFICES ASSUME Asking(u), req[u].again, req[u].steady
               PROVE  /\ jwks'.have => req[u].kid \in jwks'.keys
                      /\ \A s \in Request :
                            req'[s].pc = "answer" => req[u].kid \in req'[s].seen
    BY <1>1 DEF Promising, Asking
  <2>1. /\ jwks.have => req[u].kid \in jwks.keys
        /\ \A s \in Request :
              req[s].pc = "answer" => req[u].kid \in req[s].seen
        /\ req[u].kid \in published
    BY <1>1 DEF KeyInv, Promising, SteadyOK
  <2>2. jwks'.have => req[u].kid \in jwks'.keys
    BY <2>1
  <2>3. \A s \in Request :
           req'[s].pc = "answer" => req[u].kid \in req'[s].seen
    BY <1>1, <2>1
  <2>4. QED
    BY <2>2, <2>3
<1>4. Promising(t)'
  <2> SUFFICES ASSUME x.pc \in {"wait", "fetch", "answer"}, x.again, x.steady
               PROVE  /\ jwks'.have => x.kid \in jwks'.keys
                      /\ \A s \in Request :
                            req'[s].pc = "answer" => x.kid \in req'[s].seen
    BY <1>1 DEF Promising, Asking
  <2>1. QED
    BY <1>1
<1>5. QED
  BY <1>2, <1>3, <1>4 DEF KeyInv

(* A look into the cache c, the lock being free. *)
LEMMA LookUpKeeps ==
    ASSUME KeyState, NEW t \in Request, NEW r \in Req, NEW c,
           LookUp(t, r, c, None),
           \A s \in Request \ {t} : ~Fetching(s),
           UNCHANGED <<clock, published>>,
           r.steady => r.kid \in published,
           r.again /\ r.steady => r.kid \in c.keys,
           \/ c = jwks
           \/ req[t].pc = "answer" /\ c.keys = req[t].seen
    PROVE  KeyInv'
<1> DEFINE x == [r EXCEPT !.pc = "verified"]
           y == [r EXCEPT !.pc = "refused", !.why = "no key"]
           v == [r EXCEPT !.again = TRUE, !.pc = "fetch", !.now = clock]
           w == [r EXCEPT !.again = TRUE, !.pc = "wait"]
<1>1. /\ x.pc = "verified" /\ x.steady = r.steady /\ x.kid = r.kid
      /\ y.pc = "refused" /\ y.steady = r.steady /\ y.kid = r.kid
      /\ v.pc = "fetch" /\ v.steady = r.steady /\ v.kid = r.kid
      /\ w.pc = "wait" /\ w.steady = r.steady /\ w.kid = r.kid
  BY DEF Req
<1>2. NoKeys.have = FALSE
  BY DEF NoKeys
<1>3. \A z \in {v, w} :
         FetchOrQueue(t, [r EXCEPT !.again = TRUE], None) =>
            \/ req' = [req EXCEPT ![t] = v]
            \/ req' = [req EXCEPT ![t] = w]
  BY DEF FetchOrQueue, Fetch, Queue, Become
<1>4. \/ /\ jwks' = c /\ holder' = None /\ req' = [req EXCEPT ![t] = x]
      \/ /\ jwks' = c /\ holder' = None /\ req' = [req EXCEPT ![t] = y]
         /\ r.again /\ r.kid \notin c.keys
      \/ /\ jwks' = NoKeys
         /\ req' = [req EXCEPT ![t] = v] \/ req' = [req EXCEPT ![t] = w]
  BY <1>3 DEF LookUp, Refuse, Become
<1> HIDE DEF x, y, v, w
<1>5. CASE jwks' = c /\ holder' = None /\ req' = [req EXCEPT ![t] = x]
  BY <1>1, <1>5, KeyStep
<1>6. CASE /\ jwks' = c /\ holder' = None /\ req' = [req EXCEPT ![t] = y]
           /\ r.again /\ r.kid \notin c.keys
  BY <1>1, <1>6, KeyStep
<1>7. ASSUME jwks' = NoKeys, NEW z \in {v, w}, req' = [req EXCEPT ![t] = z]
      PROVE  KeyInv'
  <2>1. ~Fresh' /\ ~jwks'.have
    BY <1>2, <1>7 DEF Fresh
  <2>2. /\ z.pc \in {"fetch", "wait"} /\ z.steady = r.steady
        /\ z.kid = r.kid
    BY <1>1, <1>7
  <2>3. \A s \in Request \ {t} : req[s].pc # "answer"
    BY DEF Fetching
  <2>4. QED
    BY <1>7, <2>1, <2>2, <2>3, KeyStep
<1>8. QED
  BY <1>4, <1>5, <1>6, <1>7

LEMMA InitKey == Init => KeyInv
<1> SUFFICES ASSUME Init PROVE KeyInv
  OBVIOUS
<1>1. \A t \in Request : req[t].pc = "idle" /\ ~req[t].steady
  BY DEF Init, JwksInit, NoReq
<1>2. holder = None
  BY DEF Init, JwksInit
<1>3. QED
  BY <1>1, <1>2 DEF KeyInv, SteadyOK, Promising, Asking, CurrentKeyAccepted

LEMMA JwksNextKey ==
    ASSUME KeyState, JwksNext
    PROVE  KeyInv'
<1>1. /\ req \in [Request -> Req] /\ jwks \in Cache /\ clock \in Nat
      /\ KeyInv /\ JwksInv /\ holder \in Request \cup {None}
  BY DEF KeyState, JwksInv, JwksTypeOK, Cache
<1>2. ASSUME NEW t \in Request, NEW k \in Kid, Bearer(t, k)
      PROVE  KeyInv'
  <2> DEFINE r == [NoReq EXCEPT !.kid = k, !.steady = k \in published]
             y == [r EXCEPT !.pc = "refused", !.why = "no answer"]
             v == [r EXCEPT !.pc = "fetch", !.now = clock]
             w == [r EXCEPT !.pc = "wait"]
  <2>1. (k \in published) \in BOOLEAN
    OBVIOUS
  <2>2. r \in Req
    BY <2>1, BearerType
  <2>3. r.kid = k /\ r.steady = (k \in published) /\ r.again = FALSE
    <3>1. NoReq \in Req /\ NoReq.again = FALSE
      BY DEF NoReq, Req
    <3>2. \A b \in BOOLEAN :
            LET q == [NoReq EXCEPT !.kid = k, !.steady = b]
            IN  q.kid = k /\ q.steady = b /\ q.again = FALSE
      BY <3>1 DEF Req
    <3>3. QED
      BY <2>1, <3>2
  <2> HIDE DEF r
  <2>4. /\ y.pc = "refused" /\ y.why = "no answer" /\ y.kid = k
        /\ y.steady = r.steady
        /\ v.pc = "fetch" /\ v.again = FALSE /\ v.kid = k
        /\ v.steady = r.steady
        /\ w.pc = "wait" /\ w.again = FALSE /\ w.kid = k
        /\ w.steady = r.steady
    BY <2>2, <2>3 DEF Req
  <2>5. /\ GetKeys(t, r) /\ UNCHANGED <<clock, published>>
        /\ ~Fetching(t)
    BY <1>2 DEF Bearer, Happens, Fetching, r
  <2>6. CASE Fresh
    <3>1. /\ holder = None /\ LookUp(t, r, jwks, None)
          /\ \A s \in Request : ~Fetching(s)
      BY <1>1, <2>5, <2>6, NoneAssumption
      DEF KeyInv, GetKeys, JwksInv, LockHeldByFetcher, Fetching
    <3>2. QED
      BY <2>2, <2>3, <2>5, <3>1, LookUpKeeps
  <2>7. CASE ~Fresh
    <3>1. /\ jwks' = jwks
          /\ \/ req' = [req EXCEPT ![t] = y]
             \/ req' = [req EXCEPT ![t] = v]
             \/ req' = [req EXCEPT ![t] = w]
      BY <2>5, <2>7 DEF GetKeys, FetchOrQueue, Fetch, Queue, Refuse, Become
    <3>2. ~Fresh'
      BY <2>5, <2>7, <3>1 DEF Fresh
    <3> HIDE DEF y, v, w
    <3>3. ASSUME NEW z \in {y, v, w}, req' = [req EXCEPT ![t] = z]
          PROVE  KeyInv'
      <4>1. /\ z.pc \in {"refused", "fetch", "wait"}
            /\ z.pc = "refused" => z.why = "no answer"
            /\ z.pc # "refused" => z.again = FALSE
            /\ z.steady => z.kid \in published
        BY <2>3, <2>4, <3>3
      <4>2. QED
        BY <2>5, <3>1, <3>2, <3>3, <4>1, KeyStep
    <3>4. QED
      BY <3>1, <3>3
  <2>8. QED
    BY <2>6, <2>7
<1>3. ASSUME NEW t \in Request, Wake(t)
      PROVE  KeyInv'
  <2>1. /\ req[t].pc = "wait" /\ holder = None /\ req[t] \in Req
        /\ UNCHANGED <<clock, published>>
        /\ \A s \in Request : ~Fetching(s)
    BY <1>1, <1>3, NoneAssumption
    DEF Wake, Quietly, clockVars, JwksInv, LockHeldByFetcher, Fetching
  <2>2. /\ req[t].steady => req[t].kid \in published
        /\ Promising(t)
    BY <1>1 DEF KeyInv, SteadyOK
  <2>3. CASE Fresh
    <3>1. LookUp(t, req[t], jwks, None)
      BY <1>3, <2>3 DEF Wake
    <3>2. req[t].again /\ req[t].steady => req[t].kid \in jwks.keys
      BY <2>1, <2>2, <2>3 DEF Promising, Asking, Fresh
    <3>3. QED
      BY <2>1, <2>2, <3>1, <3>2, LookUpKeeps
  <2>4. CASE ~Fresh
    <3> DEFINE x == [req[t] EXCEPT !.pc = "fetch", !.now = clock]
    <3>1. jwks' = jwks /\ req' = [req EXCEPT ![t] = x]
      BY <1>3, <2>4 DEF Wake, Fetch, Become
    <3>2. /\ x.pc = "fetch" /\ x.steady = req[t].steady
          /\ x.kid = req[t].kid /\ x.again = req[t].again
      BY <2>1 DEF Req
    <3> HIDE DEF x
    <3>3. ~Fresh'
      BY <2>1, <2>4, <3>1 DEF Fresh
    <3>4. x.again /\ x.steady =>
            /\ jwks.have => x.kid \in jwks.keys
            /\ \A s \in Request : req[s].pc = "answer" => x.kid \in req[s].seen
      BY <2>1, <2>2, <3>2 DEF Promising, Asking
    <3>5. QED
      BY <2>1, <2>2, <3>1, <3>2, <3>3, <3>4, KeyStep
  <2>5. QED
    BY <2>3, <2>4
<1>4. ASSUME NEW t \in Request, IdpServes(t)
      PROVE  KeyInv'
  <2> DEFINE x == [req[t] EXCEPT !.pc = "answer", !.seen = published]
  <2>1. /\ x.pc = "answer" /\ x.seen = published
        /\ x.steady = req[t].steady /\ x.kid = req[t].kid
        /\ x.again = req[t].again
    BY <1>1 DEF Req
  <2>2. /\ req[t].pc = "fetch" /\ req' = [req EXCEPT ![t] = x]
        /\ UNCHANGED <<clock, jwks, holder, published>>
    BY <1>4 DEF IdpServes, Become, Quietly, clockVars
  <2> HIDE DEF x
  <2>3. /\ req[t].steady => req[t].kid \in published
        /\ Promising(t)
    BY <1>1 DEF KeyInv, SteadyOK
  <2>4. x.again /\ x.steady =>
            /\ jwks.have => x.kid \in jwks.keys
            /\ \A s \in Request : req[s].pc = "answer" => x.kid \in req[s].seen
    BY <2>1, <2>2, <2>3 DEF Promising, Asking
  <2>5. holder' # None => ~Fresh'
    BY <1>1, <2>2 DEF KeyInv, Fresh
  <2>6. QED
    BY <2>1, <2>2, <2>3, <2>4, <2>5, KeyStep
<1>5. ASSUME NEW t \in Request, Receive(t)
      PROVE  KeyInv'
  <2> DEFINE r == [req[t] EXCEPT !.seen = {}, !.now = 0]
  <2>1. /\ req[t].pc = "answer" /\ LookUp(t, r, Fetched(t), None)
        /\ UNCHANGED <<clock, published>>
        /\ \A s \in Request \ {t} : ~Fetching(s)
    BY <1>1, <1>5
    DEF Receive, Quietly, clockVars, JwksInv, LockHeldByFetcher, Fetching
  <2>2. /\ r \in Req /\ r.steady = req[t].steady /\ r.kid = req[t].kid
        /\ r.again = req[t].again
    BY <1>1 DEF Req
  <2>3. Fetched(t).keys = req[t].seen
    BY DEF Fetched
  <2> HIDE DEF r
  <2>4. /\ r.steady => r.kid \in published
        /\ r.again /\ r.steady => r.kid \in req[t].seen
    BY <1>1, <2>1, <2>2 DEF KeyInv, SteadyOK, Promising, Asking
  <2>5. QED
    BY <2>1, <2>2, <2>3, <2>4, LookUpKeeps
<1>6. ASSUME NEW t \in Request, FetchFails(t)
      PROVE  KeyInv'
  <2> DEFINE r == [req[t] EXCEPT !.seen = {}, !.now = 0]
             x == [r EXCEPT !.pc = "refused", !.why = "no answer"]
  <2>1. /\ x.pc = "refused" /\ x.why = "no answer"
        /\ x.steady = req[t].steady /\ x.kid = req[t].kid
    BY <1>1 DEF Req
  <2>2. /\ req' = [req EXCEPT ![t] = x] /\ holder' = None
        /\ jwks'.keys = jwks.keys /\ jwks'.have = jwks.have
        /\ UNCHANGED <<clock, published>>
    BY <1>1, <1>6 DEF FetchFails, Refuse, Become, Happens, Cache
  <2> HIDE DEF x
  <2>3. req[t].steady => req[t].kid \in published
    BY <1>1 DEF KeyInv, SteadyOK
  <2>4. QED
    BY <2>1, <2>2, <2>3, KeyStep
<1>7. ASSUME NEW S \in SUBSET Kid, Rotate(S)
      PROVE  KeyInv'
  <2>1. published' = S /\ UNCHANGED <<clock, jwks, holder>>
    BY <1>7 DEF Rotate, Happens
  <2>2. ASSUME NEW t \in Request
        PROVE  /\ req'[t].pc = req[t].pc /\ req'[t].kid = req[t].kid
               /\ req'[t].seen = req[t].seen /\ req'[t].why = req[t].why
               /\ req'[t].again = req[t].again
               /\ req'[t].steady = (req[t].steady /\ req[t].kid \in S)
    <3>1. \A b \in BOOLEAN :
            LET q == [req[t] EXCEPT !.steady = b]
            IN  /\ q.pc = req[t].pc /\ q.kid = req[t].kid
                /\ q.seen = req[t].seen /\ q.why = req[t].why
                /\ q.again = req[t].again /\ q.steady = b
      BY <1>1 DEF Req
    <3>2. PICK b \in BOOLEAN : b = (req[t].steady /\ req[t].kid \in S)
      OBVIOUS
    <3>3. req'[t] = [req[t] EXCEPT !.steady = b]
      BY <1>7, <3>2 DEF Rotate
    <3>4. QED
      BY <3>1, <3>2, <3>3
  <2>3. SteadyOK' /\ CurrentKeyAccepted'
    BY <1>1, <2>1, <2>2 DEF SteadyOK, KeyInv, CurrentKeyAccepted
  <2>4. ASSUME NEW t \in Request, req'[t].pc \in {"wait", "fetch", "answer"},
               req'[t].again, req'[t].steady
        PROVE  /\ jwks'.have => req'[t].kid \in jwks'.keys
               /\ \A s \in Request :
                     req'[s].pc = "answer" => req'[t].kid \in req'[s].seen
    <3>1. Promising(t)
      BY <1>1 DEF KeyInv
    <3>2. Asking(t) /\ req[t].again /\ req[t].steady
      BY <2>2, <2>4 DEF Asking
    <3>3. /\ jwks.have => req[t].kid \in jwks.keys
          /\ \A s \in Request :
                req[s].pc = "answer" => req[t].kid \in req[s].seen
      BY <3>1, <3>2 DEF Promising
    <3>4. QED
      BY <2>1, <2>2, <3>3
  <2>5. holder' # None => ~Fresh'
    BY <1>1, <2>1 DEF KeyInv, Fresh
  <2>6. QED
    BY <2>3, <2>4, <2>5 DEF KeyInv, Promising, Asking
<1>8. QED
  BY <1>2, <1>3, <1>4, <1>5, <1>6, <1>7 DEF JwksNext

LEMMA NextKey ==
    ASSUME KeyState, [Next]_vars
    PROVE  KeyInv'
<1>1. /\ req \in [Request -> Req] /\ clock \in Nat /\ KeyInv /\ JwksInv
      /\ jwks \in Cache
  BY DEF KeyState, JwksInv, JwksTypeOK, Cache
<1>2. CASE JwksNext
  BY <1>2, JwksNextKey
<1>3. ASSUME UNCHANGED jwksVars, clock' \in Nat, clock' >= clock
      PROVE  KeyInv'
  <2>1. UNCHANGED <<jwks, holder, published, req>>
    BY <1>3 DEF jwksVars
  <2>2. Fresh' => Fresh
    BY <1>1, <1>3, <2>1, TTLAssumption DEF Fresh, Cache
  <2>3. SteadyOK' /\ CurrentKeyAccepted'
    BY <1>1, <2>1 DEF KeyInv, SteadyOK, CurrentKeyAccepted
  <2>4. \A t \in Request : Promising(t)'
    BY <1>1, <2>1 DEF KeyInv, Promising, Asking
  <2>5. QED
    BY <1>1, <2>1, <2>2, <2>3, <2>4 DEF KeyInv
<1>4. CASE LocalNext /\ UNCHANGED <<jwksVars, flag>>
  <2>1. clock' = clock
    BY <1>4 DEF LocalNext, LoginNext, LoginArrives, LoginFetch, RecordFailure,
       RecordSuccess, LoginEvent, LoginRaises, CliStarts, CliWrites, CliEnds,
       Happens, Quietly, clockVars
  <2>2. QED
    BY <1>1, <1>3, <1>4, <2>1
<1>5. ASSUME NEW t \in Request, GateNext(t)
      PROVE  KeyInv'
  <2>1. PICK x \in Req :
          /\ req' = [req EXCEPT ![t] = x]
          /\ x.pc \in {"idle", "disable", "disable_write",
                       "disable_event", "served", "refused"}
          /\ x.steady => req[t].steady /\ x.kid = req[t].kid
          /\ x.pc = "refused" => x.why # "no key"
          /\ UNCHANGED <<clock, jwks, holder, published>>
    BY <1>1, <1>5, GateMoves
  <2>2. x.steady => x.kid \in published
    BY <1>1, <2>1 DEF KeyInv, SteadyOK
  <2>3. holder' # None => ~Fresh'
    BY <1>1, <2>1 DEF KeyInv, Fresh
  <2>4. QED
    BY <2>1, <2>2, <2>3, KeyStep
<1>6. CASE Restart
  <2>1. \A t \in Request : req'[t].pc = "idle" /\ ~req'[t].steady
    BY <1>6 DEF Restart, NoReq
  <2>2. holder' = None
    BY <1>6 DEF Restart
  <2>3. QED
    BY <2>1, <2>2 DEF KeyInv, SteadyOK, Promising, Asking, CurrentKeyAccepted
<1>7. CASE Tick \/ UNCHANGED vars
  <2>1. UNCHANGED jwksVars /\ clock' \in {clock, clock + 1}
    BY <1>7 DEF Tick, vars, clockVars
  <2>2. QED
    BY <1>1, <1>3, <2>1
<1>8. QED
  BY <1>2, <1>4, <1>5, <1>6, <1>7 DEF Next

(* For any number of requests and key rotations: a token is not refused    *)
(* for an unknown key that was published ever since its request arrived,   *)
(* whichever requests empty or fill the cache meanwhile.                   *)
THEOREM CurrentKeyAlwaysAccepted == Spec => []CurrentKeyAccepted
<1>1. Init => KeyState
  BY InitJwksInv, InitKey DEF KeyState
<1>2. KeyState /\ [Next]_vars => KeyState'
  BY NextJwksInv, NextKey DEF KeyState
<1>3. KeyState => CurrentKeyAccepted
  BY DEF KeyState, KeyInv
<1>4. QED
  BY <1>1, <1>2, <1>3, PTL DEF Spec

(* For any number of requests and whatever they invalidate or refill: a    *)
(* request that takes over the lock asks the identity provider only when   *)
(* the cache holds nothing get_keys could have returned, and so it stays   *)
(* for as long as the lock is held, the clock running on.                  *)
THEOREM OneFetchAlwaysPerExpiry == Spec => []OneFetchPerExpiry
<1>1. Init => KeyState
  BY InitJwksInv, InitKey DEF KeyState
<1>2. KeyState /\ [Next]_vars => KeyState'
  BY NextJwksInv, NextKey DEF KeyState
<1>3. KeyState => OneFetchPerExpiry
  BY DEF KeyState, KeyInv, OneFetchPerExpiry
<1>4. QED
  BY <1>1, <1>2, <1>3, PTL DEF Spec

-----------------------------------------------------------------------------
(* The lockout. *)

Counts(u) ==
    /\ account[u].attempts = fails[u]
    /\ account[u].locked > 0 <=> fails[u] >= Threshold

(* One login or command at a time on account u: between the row's read and *)
(* its write the count is the login's, otherwise the account's.            *)
CountOf(u) ==
    ~mixed[u] =>
        /\ \A s, v \in Busy(u) : s = v
        /\ cli.name = u => Busy(u) = {}
        /\ \A s \in Busy(u) : login[s].pc = "fail" =>
              /\ login[s].attempts = fails[u]
              /\ login[s].locked > 0 <=> fails[u] >= Threshold
        /\ (\A s \in Busy(u) : login[s].pc # "fail") => Counts(u)

CountInv == \A u \in Name : CountOf(u)

CountState == Cells /\ RestOK /\ clock \in Nat /\ CountInv

(* What a step that is about login s, and about username w, leaves to      *)
(* another username.                                                       *)
LEMMA OthersCount ==
    ASSUME CountState, NEW u \in Name, NEW w, u # w,
           NEW s \in Login, NEW x, login' = [login EXCEPT ![s] = x],
           login[s].name \in {w, None}, x.name \in {w, None},
           cli'.name = u <=> cli.name = u,
           account'[u].attempts = account[u].attempts,
           account'[u].locked = account[u].locked,
           fails'[u] = fails[u], mixed'[u] = mixed[u]
    PROVE  CountOf(u)'
<1>1. login \in [Login -> LoginTask] /\ u # None /\ CountOf(u)
  BY NamesAssumption DEF CountState, Cells, CountInv
<1>2. /\ login'[s] = x /\ \A v \in Login \ {s} : login'[v] = login[v]
  BY <1>1
<1>3. Busy(u)' = Busy(u) /\ s \notin Busy(u)
  BY <1>1, <1>2 DEF Busy
<1>4. \A v \in Busy(u) : login'[v] = login[v]
  BY <1>2, <1>3 DEF Busy
<1>5. Counts(u)' <=> Counts(u)
  BY DEF Counts
<1>6. QED
  BY <1>1, <1>3, <1>4, <1>5 DEF CountOf

(* A login moves on; the account keeps its count, or takes over what the   *)
(* login counted. *)
LEMMA LoginNextCounts ==
    ASSUME CountState, NEW s \in Login, LoginNext(s), NEW u \in Name
    PROVE  CountOf(u)'
<1>1. /\ account \in [Name -> Account] /\ login \in [Login -> LoginTask]
      /\ fails \in [Name -> Nat] /\ mixed \in [Name -> BOOLEAN]
      /\ clock \in Nat /\ CountOf(u)
      /\ \A v \in Login : login[v].pc = "idle" <=> login[v].name = None
      /\ u # None
  BY NamesAssumption DEF CountState, Cells, RestOK, CountInv
<1>2. \A v \in Login : login[v].pc # "idle" => login[v].name \in Name
  BY <1>1 DEF LoginTask
<1>3. NoLogin.pc = "idle" /\ NoLogin.name = None
  BY DEF NoLogin
<1>4. \A v \in Login : v \in Busy(u) <=> login[v].name = u
  BY DEF Busy
<1>5. ASSUME NEW x, login' = [login EXCEPT ![s] = x],
             x.pc # "fail", x.name \in {u, None}, login[s].name \in {u, None},
             UNCHANGED <<account, cli, fails>>,
             ~mixed'[u] =>
                ~mixed[u] /\ (s \in Busy(u) \/ (Busy(u) = {} /\ cli.name # u)),
             login[s].pc # "fail"
      PROVE  CountOf(u)'
  <2> SUFFICES ASSUME ~mixed'[u] PROVE CountOf(u)'
    BY DEF CountOf
  <2>1. /\ login'[s] = x /\ \A v \in Login \ {s} : login'[v] = login[v]
        /\ ~mixed[u]
    BY <1>1, <1>5
  <2>2. Busy(u) \subseteq {s} /\ cli.name # u
    BY <1>1, <1>4, <1>5, <2>1 DEF CountOf
  <2>3. Counts(u)'
    <3>1. Counts(u)
      BY <1>1, <1>5, <2>1, <2>2 DEF CountOf
    <3>2. QED
      BY <1>5, <3>1 DEF Counts
  <2>4. Busy(u)' \subseteq {s}
    BY <1>4, <2>1, <2>2 DEF Busy
  <2>5. QED
    BY <1>5, <2>1, <2>2, <2>3, <2>4 DEF CountOf
<1>6. ASSUME NEW ip \in Ip, NEW w \in Name, NEW p \in Passwords(w),
             LoginArrives(s, ip, w, p)
      PROVE  CountOf(u)'
  <2> DEFINE ok == Admits(ip, w)
             pc == IF ok THEN "fetch" ELSE "event"
             q == IF ok THEN p ELSE -1
             x == [NoLogin EXCEPT !.pc = pc, !.name = w, !.password = q]
  <2>1. /\ login' = [login EXCEPT ![s] = x] /\ login[s].pc = "idle"
        /\ mixed' = [mixed EXCEPT ![w] = @ \/ Busy(w) # {} \/ cli.name = w]
        /\ UNCHANGED <<account, cli, fails>>
    BY <1>6 DEF LoginArrives
  <2>2. pc # "fail"
    OBVIOUS
  <2> HIDE DEF ok, pc, q
  <2>3. x.pc = pc /\ x.name = w /\ login[s].name = None
    BY <1>1, <2>1 DEF NoLogin
  <2> HIDE DEF x
  <2>4. CASE w = u
    <3>1. ~mixed'[u] => ~mixed[u] /\ Busy(u) = {} /\ cli.name # u
      BY <1>1, <2>1, <2>4
    <3>2. QED
      BY <1>5, <2>1, <2>2, <2>3, <2>4, <3>1
  <2>5. CASE w # u
    BY <1>1, <2>1, <2>3, <2>5, OthersCount
  <2>6. QED
    BY <2>4, <2>5
<1> DEFINE w == login[s].name
<1>7. CASE LoginFetch(s)
  <2> DEFINE a == AfterFailure(account[w])
             x == [Then(s, "fail") EXCEPT !.attempts = a.attempts,
                                          !.locked = a.locked]
             y == Then(s, "event")
             z == Then(s, "ok")
  <2>0. w \in Name
    BY <1>2, <1>7 DEF LoginFetch
  <2>1. /\ login[s].pc = "fetch" /\ UNCHANGED <<account, cli, mixed>>
        /\ \/ login' = [login EXCEPT ![s] = y] /\ fails' = [fails EXCEPT ![w] = @]
           \/ login' = [login EXCEPT ![s] = z] /\ fails' = [fails EXCEPT ![w] = @]
           \/ login' = [login EXCEPT ![s] = x]
              /\ fails' = [fails EXCEPT ![w] = @ + 1]
    BY <1>7 DEF LoginFetch
  <2>2. y.pc = "event" /\ z.pc = "ok" /\ y.name = w /\ z.name = w
    BY DEF Then, NoLogin
  <2>3. /\ x.pc = "fail" /\ x.attempts = account[w].attempts + 1
        /\ x.locked = IF account[w].attempts + 1 >= Threshold
                      THEN clock + Lockout ELSE 0
        /\ x.name = w
    BY DEF Then, NoLogin, AfterFailure
  <2> HIDE DEF x, y, z
  <2>4. CASE w # u
    <3>1. fails'[u] = fails[u]
      BY <1>1, <2>1, <2>4
    <3>2. PICK v : login' = [login EXCEPT ![s] = v] /\ v.name = w
      BY <2>1, <2>2, <2>3
    <3>3. account'[u] = account[u] /\ mixed'[u] = mixed[u] /\ cli' = cli
      BY <2>1
    <3>4. QED
      BY <2>4, <3>1, <3>2, <3>3, OthersCount
  <2>5. CASE /\ w = u
             /\ \/ login' = [login EXCEPT ![s] = y]
                \/ login' = [login EXCEPT ![s] = z]
             /\ fails' = [fails EXCEPT ![w] = @]
    <3>1. fails' = fails /\ s \in Busy(u)
      BY <1>1, <1>4, <2>5
    <3>2. QED
      BY <1>5, <2>1, <2>2, <2>5, <3>1
  <2>6. CASE /\ w = u /\ login' = [login EXCEPT ![s] = x]
             /\ fails' = [fails EXCEPT ![w] = @ + 1]
    <3> SUFFICES ASSUME ~mixed'[u] PROVE CountOf(u)'
      BY DEF CountOf
    <3>1. /\ login'[s] = x /\ \A v \in Login \ {s} : login'[v] = login[v]
          /\ fails'[u] = fails[u] + 1
      BY <1>1, <2>6
    <3>2. /\ Busy(u) = {s} /\ cli'.name # u /\ Counts(u)
      BY <1>1, <1>4, <2>1, <2>6 DEF CountOf
    <3>3. /\ x.attempts = fails'[u]
          /\ x.locked > 0 <=> fails'[u] >= Threshold
      BY <1>1, <2>3, <2>6, <3>1, <3>2, LimitAssumption DEF Counts, Account
    <3>4. Busy(u)' \subseteq {s} /\ s \in Busy(u)'
      BY <2>3, <2>6, <3>1, <3>2 DEF Busy
    <3>5. QED
      BY <2>3, <3>1, <3>2, <3>3, <3>4 DEF CountOf
  <2>7. QED
    BY <2>1, <2>4, <2>5, <2>6
<1>8. CASE RecordFailure(s)
  <2> DEFINE y == Then(s, "event")
  <2>0. w \in Name
    BY <1>2, <1>8 DEF RecordFailure
  <2>1. /\ login[s].pc = "fail" /\ UNCHANGED <<cli, fails, mixed>>
        /\ login' = [login EXCEPT ![s] = y]
        /\ account' = [account EXCEPT ![w].attempts = login[s].attempts,
                                      ![w].locked = login[s].locked]
    BY <1>8 DEF RecordFailure
  <2>2. y.pc = "event" /\ y.name = w
    BY DEF Then, NoLogin
  <2> HIDE DEF y
  <2>3. /\ account'[w].attempts = login[s].attempts
        /\ account'[w].locked = login[s].locked
        /\ u # w => account'[u] = account[u]
    BY <1>1, <2>0, <2>1 DEF Account
  <2>4. CASE w # u
    BY <2>1, <2>2, <2>3, <2>4, OthersCount
  <2>5. CASE w = u
    <3> SUFFICES ASSUME ~mixed'[u] PROVE CountOf(u)'
      BY DEF CountOf
    <3>1. /\ login'[s] = y /\ \A v \in Login \ {s} : login'[v] = login[v]
      BY <1>1, <2>1
    <3>2. /\ Busy(u) = {s} /\ cli'.name # u /\ Counts(u)'
      BY <1>1, <1>4, <2>1, <2>3, <2>5 DEF CountOf, Counts
    <3>3. Busy(u)' \subseteq {s}
      BY <3>1, <3>2 DEF Busy
    <3>4. QED
      BY <2>2, <3>1, <3>2, <3>3 DEF CountOf
  <2>6. QED
    BY <2>4, <2>5
<1>9. CASE RecordSuccess(s)
  <2> DEFINE y == Then(s, "ok_event")
  <2>0. w \in Name
    BY <1>2, <1>9 DEF RecordSuccess
  <2>1. /\ login[s].pc = "ok" /\ cli' = cli
        /\ fails' = [fails EXCEPT ![w] = 0]
        /\ mixed' = [mixed EXCEPT ![w] = Busy(w) # {s} \/ cli.name = w]
        /\ login' = [login EXCEPT ![s] = y]
        /\ account' = [account EXCEPT ![w].attempts = 0, ![w].locked = 0]
    BY <1>9 DEF RecordSuccess
  <2>2. y.pc = "ok_event" /\ y.name = w
    BY DEF Then, NoLogin
  <2> HIDE DEF y
  <2>3. /\ account'[w].attempts = 0 /\ account'[w].locked = 0
        /\ u # w => account'[u] = account[u]
    BY <1>1, <2>0, <2>1 DEF Account
  <2>4. CASE w # u
    <3>1. fails'[u] = fails[u] /\ mixed'[u] = mixed[u]
      BY <1>1, <2>1, <2>4
    <3>2. QED
      BY <2>1, <2>2, <2>3, <2>4, <3>1, OthersCount
  <2>5. CASE w = u
    <3> SUFFICES ASSUME ~mixed'[u] PROVE CountOf(u)'
      BY DEF CountOf
    <3>1. /\ login'[s] = y /\ \A v \in Login \ {s} : login'[v] = login[v]
          /\ fails'[u] = 0 /\ Busy(u) = {s} /\ cli'.name # u
      BY <1>1, <2>1, <2>5
    <3>2. Counts(u)'
      BY <2>3, <2>5, <3>1, LimitAssumption DEF Counts
    <3>3. Busy(u)' \subseteq {s}
      BY <3>1 DEF Busy
    <3>4. QED
      BY <2>2, <3>1, <3>2, <3>3 DEF CountOf
  <2>6. QED
    BY <2>4, <2>5
<1>10. CASE LoginEvent(s)
  <2>1. /\ login' = [login EXCEPT ![s] = NoLogin] /\ w \in Name
        /\ login[s].pc \in {"event", "ok_event"}
        /\ UNCHANGED <<account, cli, fails, mixed>>
    BY <1>2, <1>10 DEF LoginEvent
  <2>2. CASE w = u
    BY <1>3, <1>4, <1>5, <2>1, <2>2
  <2>3. CASE w # u
    BY <1>3, <2>1, <2>3, OthersCount
  <2>4. QED
    BY <2>2, <2>3
<1>11. CASE LoginRaises(s)
  <2>1. /\ login' = [login EXCEPT ![s] = NoLogin] /\ w \in Name
        /\ UNCHANGED <<account, cli, fails>>
        /\ mixed' = [mixed EXCEPT ![w] = TRUE]
    BY <1>2, <1>11 DEF LoginRaises
  <2>2. CASE w = u
    BY <1>1, <2>1, <2>2 DEF CountOf
  <2>3. CASE w # u
    BY <1>1, <1>3, <2>1, <2>3, OthersCount
  <2>4. QED
    BY <2>2, <2>3
<1>12. QED
  BY <1>6, <1>7, <1>8, <1>9, <1>10, <1>11 DEF LoginNext

(* create-admin starts, writes the row, ends. *)
LEMMA CliCounts ==
    ASSUME CountState, NEW u \in Name,
           (\E w \in Name : CliStarts(w)) \/ CliWrites \/ CliEnds
    PROVE  CountOf(u)'
<1>1. /\ account \in [Name -> Account] /\ login \in [Login -> LoginTask]
      /\ fails \in [Name -> Nat] /\ mixed \in [Name -> BOOLEAN]
      /\ CountOf(u) /\ cli \in Cli /\ u # None
      /\ cli.pc = "idle" <=> cli.name = None
  BY NamesAssumption DEF CountState, Cells, RestOK, CountInv
<1>2. login' = login /\ Busy(u)' = Busy(u)
  BY DEF CliStarts, CliWrites, CliEnds, Busy
<1>3. ASSUME UNCHANGED <<account, fails>>,
             ~mixed'[u] => ~mixed[u] /\ (Busy(u) = {} \/ cli'.name # u)
      PROVE  CountOf(u)'
  <2>1. Counts(u)' <=> Counts(u)
    BY <1>3 DEF Counts
  <2>2. QED
    BY <1>1, <1>2, <1>3, <2>1 DEF CountOf
<1>4. ASSUME NEW w \in Name, CliStarts(w)
      PROVE  CountOf(u)'
  <2>1. /\ UNCHANGED <<account, fails>> /\ cli'.name = w
        /\ mixed' = [mixed EXCEPT ![w] = @ \/ Busy(w) # {}]
    BY <1>4 DEF CliStarts
  <2>2. ~mixed'[u] => ~mixed[u] /\ (Busy(u) = {} \/ cli'.name # u)
    BY <1>1, <2>1
  <2>3. QED
    BY <1>3, <2>1, <2>2
<1>5. CASE CliEnds
  <2>1. UNCHANGED <<account, fails, mixed>> /\ cli'.name = None
    BY <1>5 DEF CliEnds, NoCli
  <2>2. QED
    BY <1>1, <1>3, <2>1
<1>6. CASE CliWrites
  <2> DEFINE w == cli.name
  <2>1. /\ account' = [account EXCEPT ![w] = Created(@.password + 1)]
        /\ fails' = [fails EXCEPT ![w] = 0]
        /\ mixed' = [mixed EXCEPT ![w] = Busy(w) # {}]
        /\ cli' = [cli EXCEPT !.pc = "event"]
    BY <1>6 DEF CliWrites
  <2>2. cli'.name = cli.name
    BY <1>1, <2>1 DEF Cli
  <2>3. CASE w = u
    <3>1. /\ fails'[u] = 0 /\ account'[u].attempts = 0
          /\ account'[u].locked = 0 /\ (~mixed'[u] => Busy(u) = {})
      BY <1>1, <2>1, <2>3 DEF Created
    <3>2. Counts(u)'
      BY <3>1, LimitAssumption DEF Counts
    <3>3. QED
      BY <1>2, <3>1, <3>2 DEF CountOf
  <2>4. CASE w # u
    <3>1. /\ fails'[u] = fails[u] /\ account'[u] = account[u]
          /\ mixed'[u] = mixed[u]
      BY <1>1, <2>1, <2>4
    <3>2. Counts(u)' <=> Counts(u)
      BY <3>1 DEF Counts
    <3>3. QED
      BY <1>1, <1>2, <2>2, <3>1, <3>2 DEF CountOf
  <2>5. QED
    BY <2>3, <2>4
<1>7. QED
  BY <1>4, <1>5, <1>6

LEMMA NextCounts ==
    ASSUME CountState, [Next]_vars
    PROVE  CountInv'
<1>1. CountInv /\ account \in [Name -> Account] /\ Bootstrap \in Name
  BY NamesAssumption DEF CountState, Cells
<1>2. ASSUME \A u \in Name : /\ account'[u].attempts = account[u].attempts
                            /\ account'[u].locked = account[u].locked,
             UNCHANGED <<login, cli, fails, mixed>>
      PROVE  CountInv'
  <2>1. \A u \in Name : Busy(u)' = Busy(u) /\ (Counts(u)' <=> Counts(u))
    BY <1>2 DEF Busy, Counts
  <2>2. QED
    BY <1>1, <1>2, <2>1 DEF CountInv, CountOf
<1>3. CASE UNCHANGED localVars
  BY <1>2, <1>3 DEF localVars
<1>4. CASE LocalNext
  BY <1>4, LoginNextCounts, CliCounts DEF LocalNext, CountInv
<1>5. ASSUME NEW t \in Request, GateNext(t)
      PROVE  CountInv'
  <2>1. /\ UNCHANGED <<login, cli, fails, mixed>>
        /\ \/ account' = account
           \/ account' = [account EXCEPT ![Bootstrap].enabled = FALSE]
    BY <1>5 DEF GateNext, Gate, DisableFetch, DisableWrite, DisableEvent,
       DisableRaises, Reply, KeepLocal
  <2>2. \A u \in Name : /\ account'[u].attempts = account[u].attempts
                       /\ account'[u].locked = account[u].locked
    BY <1>1, <2>1 DEF Account
  <2>3. QED
    BY <1>2, <2>1, <2>2
<1>6. CASE Restart
  BY <1>6 DEF Restart, CountInv, CountOf
<1>7. QED
  BY <1>3, <1>4, <1>5, <1>6 DEF Next, Tick, vars

LEMMA InitCounts == Init => CountInv
<1> SUFFICES ASSUME Init, NEW u \in Name PROVE CountOf(u)
  BY DEF CountInv
<1>1. account[u].attempts = 0 /\ account[u].locked = 0 /\ fails[u] = 0
  BY DEF Init, LocalInit, NoAccount, Created
<1>2. Busy(u) = {}
  BY NamesAssumption DEF Busy, Init, LocalInit, NoLogin
<1>3. Counts(u)
  BY <1>1, LimitAssumption DEF Counts
<1>4. QED
  BY <1>2, <1>3 DEF CountOf

(* For any threshold and lockout: as long as logins to an account do not   *)
(* overlap, its stored count is exact and it is locked when, and only      *)
(* when, the count reached the threshold, through successes, create-admin, *)
(* the hook that disables an account and logins to other accounts.         *)
THEOREM LockoutAlwaysCounts == Spec => []LockoutCounts
<1>1. Init => CountInv
  BY InitCounts
<1>2. AdminInv /\ RestOK /\ CountInv /\ [Next]_vars => CountInv'
  BY NextCounts DEF CountState, AdminInv
<1>3. AdminInv /\ RestOK /\ CountInv => LockoutCounts
  BY DEF CountInv, CountOf, Counts, LockoutCounts
<1>4. QED
  BY <1>1, <1>2, <1>3, AdminInvHolds, PTL DEF Spec


-----------------------------------------------------------------------------
(* The rate limit. *)

Times(u) == hits[u]

(* The admitted logins of u in the window that begins at t. *)
Within(u, t) == {n \in admitted[u] : Times(u)[n] \in t..(t + Window)}

(* A hit is in the past, so the window that counts for it holds every      *)
(* admission of a window it could complete.                                *)
LimitOf(u) ==
    /\ \A n \in DOMAIN Times(u) : Times(u)[n] <= clock
    /\ \A t \in Nat : /\ IsFiniteSet(Within(u, t))
                     /\ Cardinality(Within(u, t)) <= Limit

LimitInv == \A u \in Name : LimitOf(u)

LEMMA TimesType ==
    ASSUME RestOK, NEW u \in Name
    PROVE  Times(u) \in Seq(Nat) /\ admitted[u] \subseteq DOMAIN Times(u)
BY DEF RestOK, Buckets, Times, Key

LEMMA RecentIsFinite ==
    ASSUME NEW h \in Seq(Nat)
    PROVE  IsFiniteSet(Recent(h))
<1>1. IsFiniteSet(1..Len(h)) /\ Recent(h) \in SUBSET (1..Len(h))
  BY FS_Interval DEF Recent
<1>2. QED
  BY <1>1, FS_Subset

(* One more admission, when fewer than Limit hits are recent. *)
LEMMA AdmittedFits ==
    ASSUME RestOK, NEW u \in Name, LimitOf(u), clock \in Nat, UnderLimit(Times(u)),
           admitted'[u] = admitted[u] \cup {Len(Times(u)) + 1},
           Times(u)' = Append(Times(u), clock), NEW t \in Nat
    PROVE  IsFiniteSet(Within(u, t)') /\ Cardinality(Within(u, t)') <= Limit
<1>0. PICK x : x = Len(Times(u)) + 1
  OBVIOUS
<1>1. /\ Times(u) \in Seq(Nat) /\ admitted[u] \subseteq DOMAIN Times(u)
      /\ Window \in Nat /\ Limit \in Nat
  BY LimitAssumption, TimesType
<1>2. /\ \A n \in admitted[u] : Times(u)'[n] = Times(u)[n] /\ n # x
      /\ Times(u)'[x] = clock
  BY <1>0, <1>1
<1>3. IsFiniteSet(Within(u, t)) /\ Cardinality(Within(u, t)) <= Limit
  BY DEF LimitOf
<1>4. CASE clock \notin t..(t + Window)
  <2>1. Within(u, t)' = Within(u, t)
    BY <1>0, <1>2, <1>4 DEF Within
  <2>2. QED
    BY <1>3, <2>1
<1>5. CASE clock \in t..(t + Window)
  <2>1. Within(u, t)' = Within(u, t) \cup {x} /\ x \notin Within(u, t)
    BY <1>0, <1>2, <1>5 DEF Within
  <2>2. Within(u, t) \in SUBSET Recent(Times(u))
    BY <1>1, <1>5 DEF Within, Recent
  <2>3. Cardinality(Within(u, t)) <= Cardinality(Recent(Times(u)))
    BY <1>1, <2>2, RecentIsFinite, FS_Subset
  <2>4. /\ Cardinality(Within(u, t)) \in Nat
        /\ Cardinality(Recent(Times(u))) \in Nat
    BY <1>1, <1>3, RecentIsFinite, FS_CardinalityType
  <2>5. /\ IsFiniteSet(Within(u, t)')
        /\ Cardinality(Within(u, t)') = Cardinality(Within(u, t)) + 1
    BY <1>3, <2>1, FS_AddElement
  <2>6. Cardinality(Recent(Times(u))) < Limit
    BY DEF UnderLimit
  <2>7. QED
    BY <1>1, <2>3, <2>4, <2>5, <2>6
<1>6. QED
  BY <1>4, <1>5

(* Hits that admit nobody change no window. *)
LEMMA RefusedFits ==
    ASSUME RestOK, NEW u \in Name, LimitOf(u), clock \in Nat, admitted'[u] = admitted[u],
           Times(u)' \in {Times(u), Append(Times(u), clock)}, NEW t \in Nat
    PROVE  IsFiniteSet(Within(u, t)') /\ Cardinality(Within(u, t)') <= Limit
<1>1. Times(u) \in Seq(Nat) /\ admitted[u] \subseteq DOMAIN Times(u)
  BY TimesType
<1>2. \A n \in admitted[u] : Times(u)'[n] = Times(u)[n]
  BY <1>1
<1>3. Within(u, t)' = Within(u, t)
  BY <1>2 DEF Within
<1>4. QED
  BY <1>3 DEF LimitOf

LEMMA NextLimit ==
    ASSUME RestOK, Cells, clock \in Nat, LimitInv, [Next]_vars
    PROVE  LimitInv'
<1>1. ASSUME NEW u \in Name, hits'[u] = hits[u], admitted'[u] = admitted[u],
             clock' \in Nat, clock <= clock'
      PROVE  LimitOf(u)'
  <2>1. LimitOf(u) /\ Times(u) \in Seq(Nat)
    BY TimesType DEF LimitInv
  <2>2. \A n \in DOMAIN Times(u)' : Times(u)'[n] <= clock'
    BY <1>1, <2>1 DEF LimitOf, Times
  <2>3. \A t \in Nat : Within(u, t)' = Within(u, t)
    BY <1>1 DEF Within, Times
  <2>4. QED
    BY <2>1, <2>2, <2>3 DEF LimitOf
<1>2. ASSUME UNCHANGED <<hits, admitted>>, clock' \in Nat, clock <= clock'
      PROVE  LimitInv'
  BY <1>1, <1>2 DEF LimitInv
<1>3. ASSUME NEW s \in Login, NEW ip \in Ip, NEW w \in Name,
             NEW p \in Passwords(w), LoginArrives(s, ip, w, p)
      PROVE  LimitInv'
  <2>1. clock' = clock
    BY <1>3 DEF LoginArrives, Happens
  <2>2. /\ \A u \in Name \ {w} : hits'[u] = hits[u] /\ admitted'[u] = admitted[u]
        /\ Times(w)' \in {Times(w), Append(Times(w), clock)}
        /\ \/ admitted'[w] = admitted[w]
           \/ /\ admitted'[w] = admitted[w] \cup {Len(Times(w)) + 1}
              /\ Times(w)' = Append(Times(w), clock) /\ UnderLimit(Times(w))
    BY <1>3, ArrivalHits DEF RestOK, Times
  <2>3. \A u \in Name \ {w} : LimitOf(u)'
    BY <1>1, <2>1, <2>2
  <2>4. LimitOf(w) /\ Times(w) \in Seq(Nat)
    BY TimesType DEF LimitInv
  <2>5. \A n \in DOMAIN Times(w)' : Times(w)'[n] <= clock'
    BY <2>1, <2>2, <2>4 DEF LimitOf
  <2>6. \A t \in Nat : /\ IsFiniteSet(Within(w, t)')
                       /\ Cardinality(Within(w, t)') <= Limit
    BY <2>2, <2>4, AdmittedFits, RefusedFits
  <2>7. LimitOf(w)'
    BY <2>5, <2>6 DEF LimitOf
  <2>8. QED
    BY <2>3, <2>7 DEF LimitInv
<1>4. CASE Restart
  <2> SUFFICES ASSUME NEW u \in Name PROVE LimitOf(u)'
    BY DEF LimitInv
  <2>1. Times(u)' = <<>> /\ admitted'[u] = {}
    BY <1>4 DEF Restart, NoHits, Times, Key
  <2>2. \A t \in Nat : Within(u, t)' = {}
    BY <2>1 DEF Within
  <2>3. \A t \in Nat : /\ IsFiniteSet(Within(u, t)')
                       /\ Cardinality(Within(u, t)') <= Limit
    BY <2>2, FS_EmptySet, LimitAssumption
  <2>4. \A n \in DOMAIN Times(u)' : Times(u)'[n] <= clock'
    BY <2>1
  <2>5. QED
    BY <2>3, <2>4 DEF LimitOf
<1>5. ASSUME NEW s \in Login,
             LoginFetch(s) \/ RecordFailure(s) \/ RecordSuccess(s)
               \/ LoginEvent(s) \/ LoginRaises(s)
      PROVE  LimitInv'
  BY <1>2, <1>5 DEF LoginFetch, RecordFailure, RecordSuccess, LoginEvent,
     LoginRaises, Happens, Quietly, clockVars
<1>6. CASE (\E u \in Name : CliStarts(u)) \/ CliWrites \/ CliEnds
  BY <1>2, <1>6 DEF CliStarts, CliWrites, CliEnds, Happens, Quietly, clockVars
<1>7. CASE LocalNext
  BY <1>3, <1>5, <1>6, <1>7 DEF LocalNext, LoginNext
<1>8. CASE JwksNext /\ UNCHANGED <<localVars, flag>>
  <2>1. Happens \/ Quietly
    BY <1>8 DEF JwksNext, Bearer, Wake, IdpServes, Receive, FetchFails, Rotate
  <2>2. clock' = clock
    BY <2>1 DEF Happens, Quietly, clockVars
  <2>3. QED
    BY <1>2, <1>8, <2>2 DEF localVars
<1>9. ASSUME NEW t \in Request, GateNext(t)
      PROVE  LimitInv'
  BY <1>2, <1>9 DEF GateNext, Gate, DisableFetch, DisableWrite, DisableEvent,
     DisableRaises, Reply, KeepLocal, InRequest, Happens, Quietly, clockVars
<1>10. CASE Tick \/ UNCHANGED vars
  BY <1>2, <1>10 DEF Tick, vars, clockVars, localVars
<1>11. QED
  BY <1>4, <1>7, <1>8, <1>9, <1>10 DEF Next

LEMMA InitLimit == Init => LimitInv
<1> SUFFICES ASSUME Init, NEW u \in Name PROVE LimitOf(u)
  BY DEF LimitInv
<1>1. Times(u) = <<>> /\ admitted[u] = {}
  BY DEF Init, LocalInit, NoHits, Times, Key
<1>2. \A t \in Nat : Within(u, t) = {}
  BY <1>1 DEF Within
<1>3. \A t \in Nat : /\ IsFiniteSet(Within(u, t))
                     /\ Cardinality(Within(u, t)) <= Limit
  BY <1>2, FS_EmptySet, LimitAssumption
<1>4. \A n \in DOMAIN Times(u) : Times(u)[n] <= clock
  BY <1>1
<1>5. QED
  BY <1>3, <1>4 DEF LimitOf

(* For any limit and window, any number of addresses and overlapping       *)
(* logins: no closed minute admits more than rate_limit_per_minute of them *)
(* to one account.  The user's bucket decides, whichever addresses'        *)
(* buckets let the hits through; refused hits in it only make the window   *)
(* fuller.                                                                 *)
THEOREM AdmissionsAlwaysBounded == Spec => []AdmissionsBounded
<1>1. AdminInv /\ RestOK /\ LimitInv /\ [Next]_vars => LimitInv'
  BY NextLimit DEF AdminInv
<1>2. LimitInv => AdmissionsBounded
  <2> SUFFICES ASSUME LimitInv, NEW u \in Name, NEW t \in 0..MaxClock
               PROVE  Cardinality({n \in admitted[u] :
                                      hits[u][n] \in t..(t + Window)}) <= Limit
    BY DEF AdmissionsBounded
  <2>1. t \in Nat /\ LimitOf(u)
    BY ClockAssumption DEF LimitInv
  <2>2. Cardinality(Within(u, t)) <= Limit
    BY <2>1 DEF LimitOf
  <2>3. QED
    BY <2>2 DEF Within, Times
<1>3. QED
  BY <1>1, <1>2, InitLimit, AdminInvHolds, PTL DEF Spec

=============================================================================
