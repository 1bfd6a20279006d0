---------------------------- MODULE TokenProofs ----------------------------
(***************************************************************************)
(* What a token's life guarantees for any number of connections, mailboxes *)
(* and calls, any lifetimes, stated or not, any skew and answers that      *)
(* take any time.  TokenInv carries the theorems on tokens served, revoked *)
(* and wiped: a call under way names a row and read the clock in the past, *)
(* timely tokens are believed at most Skew longer than they are honoured,  *)
(* and a row that was wiped undisturbed is final and nobody's business any *)
(* more.  StaleState adds, for the theorems on stale rows, what an         *)
(* undisturbed row, the call that refreshes it and the source agree on.    *)
(***************************************************************************)
EXTENDS TokenLifecycle, TLAPS

(* Stored and in-flight tokens. *)
Sound(k) == k # None /\ k.timely => k.until <= k.real + Skew

CallsOK ==
    \A t \in Reader :
        /\ call[t].pc # "idle" => call[t].row \in Conn
        /\ call[t].pc \in {"instance", "refresh", "persist"} =>
              call[t].creds \in Tokens
        /\ call[t].now <= clock
        /\ call[t].pc = "persist" => Sound(call[t].creds)

GrantOK ==
    /\ grant.pc # "idle" => grant.creds \in Tokens /\ grant.ext \in Mailbox
    /\ grant.pc = "answered" /\ grant.creds.timely =>
          grant.creds.real = grant.issued + grant.life
    /\ grant.pc = "received" => Sound(grant.creds)

RowsOK ==
    \A c \in Conn :
        /\ Sound(rows[c].creds)
        /\ Live(c) => rows[c].status # "absent"
        /\ rows[c].status = "connected" => Live(c)

CleanOK ==
    \A c \in clean :
        /\ rows[c].creds = None
        /\ rows[c].status = "disconnected"
        /\ ~Live(c)
        /\ \A t \in Reader : call[t].row # c

TokenInv ==
    /\ TypeInv /\ CallsOK /\ GrantOK /\ RowsOK /\ CleanOK

(* The initial state: nothing stored, nothing under way. *)
LEMMA InitTokenInv == Init => TokenInv
  BY NoneAssumption
  DEF Init, TokenInv, TypeInv, CallsOK, GrantOK, RowsOK, CleanOK, Live, Sound, Row, Status, NoRow, NoCall, NoGrant,
      NoPage, Call, Grant, Family


(* Actions that leave rows, calls and grant as they are. *)
LEMMA RestStep ==
    ASSUME TokenInv, UNCHANGED <<rows, call, grant, clean>>,
           clock' \in Nat, clock' >= clock, TypeInv'
    PROVE  TokenInv'
<1>1. \A t \in Reader : call[t].now \in Nat /\ clock \in Nat
  BY DEF TokenInv, TypeInv, Call
<1>2. CallsOK'
  BY <1>1 DEF TokenInv, CallsOK, Sound
<1>3. GrantOK' /\ RowsOK' /\ CleanOK'
  BY DEF TokenInv, GrantOK, RowsOK, CleanOK, Live, Sound
<1>4. QED
  BY <1>2, <1>3 DEF TokenInv

(* What the locals of one call have to be. *)
Fits(x) ==
    /\ \/ x.pc = "idle" /\ x.row = None
       \/ x.pc # "idle" /\ x.row \in Conn /\ x.row \notin clean
    /\ x.pc \in {"instance", "refresh", "persist"} => x.creds \in Tokens
    /\ x.now \in Nat /\ x.now <= clock
    /\ x.pc = "persist" => Sound(x.creds)

(* One call moves on, to locals x that fit. *)
LEMMA CallStep ==
    ASSUME TokenInv, TypeInv', NEW t \in Reader, NEW x, Fits(x),
           call' = [call EXCEPT ![t] = x],
           clock' = clock, rows' = rows, grant' = grant, clean' = clean
    PROVE  TokenInv'
<1>1. CallsOK'
  BY DEF TokenInv, TypeInv, CallsOK, Sound, Fits
<1>2. CleanOK'
  BY NoneAssumption DEF TokenInv, TypeInv, CleanOK, Live, Fits
<1>3. GrantOK' /\ RowsOK'
  BY DEF TokenInv, GrantOK, RowsOK, Live, Sound
<1>4. QED
  BY <1>1, <1>2, <1>3 DEF TokenInv

-----------------------------------------------------------------------------
(* Types. *)

LEMMA ReceivedType ==
    ASSUME TypeInv, GrantOK, grant.pc = "answered"
    PROVE  Received(grant) \in Tokens
<1>1. PICK b \in BOOLEAN :
         b = (grant.creds.timely /\ clock <= grant.issued + Skew)
  OBVIOUS
<1>2. grant.creds \in Tokens /\ clock + grant.life \in Int
  BY DEF TypeInv, GrantOK, Grant
<1>3. [grant.creds EXCEPT !.until = clock + grant.life, !.timely = b]
         \in Tokens
  BY <1>2 DEF Tokens
<1>4. QED
  BY <1>1, <1>3 DEF Received

LEMMA RefreshedType ==
    ASSUME TypeInv, NEW t \in Reader, call[t].creds \in Tokens,
           NEW g \in Nat, NEW r \in BOOLEAN, NEW l \in Lifetime,
           NEW b \in BOOLEAN
    PROVE  Refreshed(t, g, r, l, b) \in Tokens
BY LifetimeAssumption DEF TypeInv, Refreshed, Believed, Tokens, Call

(* The token endpoint's answer, whichever kind of source it is. *)
Answered(t, g, r, l, b) ==
    /\ idp' = [idp EXCEPT ![call[t].creds.fam].gen = g]
    /\ call' = [call EXCEPT ![t].pc = "persist",
                            ![t].creds = Refreshed(t, g, r, l, b),
                            ![t].now = 0]

LEMMA AnswerGiven ==
    ASSUME NEW t \in Reader, IdpRefreshes(t), call[t].creds \in Tokens
    PROVE  \E g \in Nat, r \in BOOLEAN, l \in Lifetime,
         b \in BOOLEAN : Answered(t, g, r, l, b)
<1> DEFINE gen == call[t].creds.gen
<1>1. gen \in Nat /\ gen + 1 \in Nat
  BY DEF Tokens
<1>2. \/ \E l \in Lifetime, b \in BOOLEAN : Answered(t, gen + 1, TRUE, l, b)
      \/ \E l \in Lifetime, b \in BOOLEAN : Answered(t, gen, TRUE, l, b)
      \/ \E l \in Lifetime, b \in BOOLEAN : Answered(t, gen, FALSE, l, b)
  BY DEF IdpRefreshes, Answered
<1>3. QED
  BY <1>1, <1>2

LEMMA NoCallType == NoCall \in Call
BY DEF NoCall, Call

(* A call that ends or gives up. *)
LEMMA GiveUpType ==
    ASSUME TypeInv, NEW t \in Reader
    PROVE  /\ [call EXCEPT ![t] = NoCall] \in [Reader -> Call]
           /\ GiveUp(t) => call' \in [Reader -> Call]
<1>1. [NoCall EXCEPT !.pc = "stale", !.row = call[t].row] \in Call
  BY DEF TypeInv, Call, NoCall
<1>2. QED
  BY <1>1, NoCallType DEF TypeInv, GiveUp

LEMMA SpoilType ==
    ASSUME TypeInv, NEW S \in SUBSET Conn, Spoil(S)
    PROVE  spoiled' \subseteq Conn
BY DEF TypeInv, Spoil

(* Steps of one call. *)
LEMMA CallNextType ==
    ASSUME TokenInv, NEW t \in Reader, CallNext(t)
    PROVE  TypeInv'
<1> USE DEF TokenInv, TypeInv
<1>1. CASE \E c \in Conn : Fetch(t, c)
  <2>1. PICK c \in Conn : Fetch(t, c)
    BY <1>1
  <2>2. rows[c].creds \in Tokens
    BY <2>1 DEF Fetch, Row
  <2>3. /\ [NoCall EXCEPT !.pc = "stale", !.row = c] \in Call
        /\ [pc |-> "instance", row |-> c, creds |-> rows[c].creds,
            now |-> clock] \in Call
    BY <2>2 DEF NoCall, Call
  <2>4. call' \in [Reader -> Call]
    BY <2>1, <2>3 DEF Fetch
  <2>5. spoiled' \subseteq Conn
    BY <2>1, SpoilType DEF Fetch
  <2>6. QED
    BY <2>1, <2>4, <2>5 DEF Fetch
<1>2. CASE LookUpInstance(t)
  <2>1. call[t] \in Call /\ call[t].row \in Conn
    BY <1>2 DEF LookUpInstance, CallsOK
  <2>2. [call[t] EXCEPT !.pc = "refresh"] \in Call
    BY <2>1 DEF Call
  <2>3. call' \in [Reader -> Call]
    BY <1>2, <2>2, GiveUpType DEF LookUpInstance
  <2>4. spoiled' \subseteq Conn
    BY <1>2, <2>1, SpoilType DEF LookUpInstance
  <2>5. QED
    BY <1>2, <2>3, <2>4 DEF LookUpInstance
<1>3. CASE IdpRefreshes(t)
  <2>1. call[t] \in Call /\ call[t].creds \in Tokens /\ call[t].row \in Conn
    BY <1>3 DEF IdpRefreshes, CallsOK
  <2>2. call[t].creds.gen \in Nat /\ call[t].creds.fam \in Fam
    BY <2>1 DEF Tokens
  <2>3. PICK g \in Nat, r \in BOOLEAN, l \in Lifetime,
         b \in BOOLEAN : Answered(t, g, r, l, b)
    BY <1>3, <2>1, AnswerGiven
  <2>4. [call[t] EXCEPT !.pc = "persist", !.creds = Refreshed(t, g, r, l, b),
                        !.now = 0] \in Call
    BY <2>1, RefreshedType DEF Call
  <2>5. [idp[call[t].creds.fam] EXCEPT !.gen = g] \in Family
    BY <2>2 DEF Family
  <2>6. call' \in [Reader -> Call] /\ idp' \in [Fam -> Family]
    BY <2>2, <2>3, <2>4, <2>5 DEF Answered
  <2>7. spoiled' \subseteq Conn
    BY <1>3, <2>1, SpoilType DEF IdpRefreshes
  <2>8. QED
    BY <1>3, <2>6, <2>7 DEF IdpRefreshes
<1>4. CASE IdpRefuses(t)
  BY <1>4, GiveUpType DEF IdpRefuses
<1>5. CASE AnswerLost(t)
  <2>1. call[t].row \in Conn
    BY <1>5 DEF AnswerLost, CallsOK
  <2>2. spoiled' \subseteq Conn
    BY <1>5, <2>1, SpoilType DEF AnswerLost
  <2>3. QED
    BY <1>5, <2>2, GiveUpType DEF AnswerLost, Failure
<1>6. CASE Persist(t)
  <2>1. call[t].creds \in Tokens /\ call[t].row \in Conn
    BY <1>6 DEF Persist, CallsOK
  <2>2. [rows[call[t].row] EXCEPT !.creds = call[t].creds] \in Row
    BY <2>1 DEF Row
  <2>3. rows' \in [Conn -> Row]
    BY <1>6, <2>1, <2>2 DEF Persist
  <2>4. QED
    BY <1>6, <2>3, GiveUpType DEF Persist
<1>7. CASE MarkStale(t)
  <2>1. call[t].row \in Conn
    BY <1>7 DEF MarkStale, CallsOK
  <2>2. [rows[call[t].row] EXCEPT !.status = "stale"] \in Row
    BY <2>1 DEF Row, Status
  <2>3. rows' \in [Conn -> Row]
    BY <1>7, <2>1, <2>2 DEF MarkStale
  <2>4. QED
    BY <1>7, <2>3, GiveUpType DEF MarkStale
<1>8. CASE CallRaises(t)
  <2>1. call[t].row \in Conn
    BY <1>8 DEF CallRaises, CallsOK
  <2>2. spoiled' \subseteq Conn
    BY <1>8, <2>1, SpoilType DEF CallRaises
  <2>3. QED
    BY <1>8, <2>2, GiveUpType DEF CallRaises, Failure
<1>9. QED
  BY <1>1, <1>2, <1>3, <1>4, <1>5, <1>6, <1>7, <1>8 DEF CallNext

(* All steps. *)
LEMMA NextType ==
    ASSUME TokenInv, [Next]_vars
    PROVE  TypeInv'
<1> USE DEF TokenInv, TypeInv
<1>1. CASE Tick
  BY <1>1 DEF Tick
<1>2. ASSUME NEW m \in Mailbox, IdpIssues(m)
      PROVE  TypeInv'
  <2>1. PICK f \in Fam, l \in Lifetime, r \in BOOLEAN, b \in BOOLEAN :
          /\ idp' = [idp EXCEPT ![f] = [used |-> TRUE, alive |-> TRUE,
                                        gen |-> 0]]
          /\ grant' = [pc |-> "answered", ext |-> m,
                life |-> Believed(l, b), issued |-> clock,
                creds |-> [fam |-> f, gen |-> 0, refresh |-> r, key |-> key,
                           real |-> clock + l, until |-> clock, timely |-> b]]
    BY <1>2 DEF IdpIssues
  <2>2. [used |-> TRUE, alive |-> TRUE, gen |-> 0] \in Family
    BY DEF Family
  <2>3. /\ l \in Nat /\ Believed(l, b) \in Nat
        /\ [fam |-> f, gen |-> 0, refresh |-> r, key |-> key,
            real |-> clock + l, until |-> clock, timely |-> b] \in Tokens
    BY LifetimeAssumption DEF Tokens, Believed
  <2>4. grant' \in Grant
    BY <2>1, <2>3 DEF Grant
  <2>5. QED
    BY <1>2, <2>1, <2>2, <2>4 DEF IdpIssues
<1>3. NoGrant \in Grant
  BY DEF NoGrant, Grant
<1>4. CASE GrantFails \/ RefuseDuplicate \/ ReceiveGrant
  <2>1. CASE ReceiveGrant
    <3>1. Received(grant) \in Tokens /\ grant.ext \in Mailbox
      BY <2>1, ReceivedType DEF ReceiveGrant, GrantOK
    <3>2. grant' \in Grant
      BY <2>1, <3>1 DEF ReceiveGrant, Grant
    <3>3. QED
      BY <2>1, <3>2 DEF ReceiveGrant
  <2>2. QED
    BY <1>3, <1>4, <2>1 DEF GrantFails, RefuseDuplicate
<1>5. CASE Insert
  <2>1. PICK c \in Conn : rows' = [rows EXCEPT ![c] =
                [status |-> "connected", live |-> TRUE, ext |-> grant.ext,
                 creds |-> grant.creds]]
    BY <1>5 DEF Insert
  <2>2. grant.creds \in Tokens /\ grant.ext \in Mailbox
    BY <1>5 DEF Insert, GrantOK
  <2>3. rows' \in [Conn -> Row]
    BY <2>1, <2>2 DEF Row, Status
  <2>4. QED
    BY <1>3, <1>5, <2>3 DEF Insert
<1>6. ASSUME NEW t \in Reader, CallNext(t)
      PROVE  TypeInv'
  BY <1>6, CallNextType
<1>7. ASSUME NEW c \in Conn, RevokeRow(c)
      PROVE  TypeInv'
  <2>1. [rows[c] EXCEPT !.status = "disconnected", !.live = FALSE] \in Row
    BY DEF Row, Status
  <2>2. QED
    BY <1>7, <2>1 DEF RevokeRow
<1>8. ASSUME NEW c \in Conn, WipeRow(c)
      PROVE  TypeInv'
  <2>1. [rows[c] EXCEPT !.status = "disconnected", !.live = FALSE,
                        !.creds = None] \in Row
    BY DEF Row, Status
  <2>2. QED
    BY <1>8, <2>1 DEF WipeRow
<1>9. ASSUME NEW f \in Fam, IdpWithdraws(f)
      PROVE  TypeInv'
  <2>1. [idp[f] EXCEPT !.alive = FALSE] \in Family
    BY DEF Family
  <2>2. QED
    BY <1>9, <2>1 DEF IdpWithdraws
<1>10. CASE OpenMe \/ ListConnections
  BY <1>10 DEF OpenMe, ListConnections, NoPage
<1>11. CASE Restart
  <2>1. spoiled' \subseteq Conn
    BY <1>11, SpoilType DEF Restart
  <2>2. QED
    BY <1>3, <1>11, <2>1, NoCallType DEF Restart, NoPage, Failure
<1>12. CASE UNCHANGED vars
  BY <1>12 DEF vars
<1>13. QED
  BY <1>1, <1>2, <1>4, <1>5, <1>6, <1>7, <1>8, <1>9, <1>10, <1>11, <1>12
  DEF Next

-----------------------------------------------------------------------------
(* The invariant. *)

(* One row changes, to x, and perhaps one call or the grant ends. *)
LEMMA RowStep ==
    ASSUME TokenInv, TypeInv', NEW c \in Conn, NEW x \in Row,
           rows' = [rows EXCEPT ![c] = x],
           UNCHANGED clock,
           \A t \in Reader : call'[t] \in {call[t], NoCall},
           grant' \in {grant, NoGrant},
           Sound(x.creds),
           x.live => x.status # "absent",
           x.status = "connected" => x.live,
           \A d \in clean' : d \in clean \/ (d = c /\ Working(c) = {}),
           c \in clean' => /\ x.creds = None /\ x.status = "disconnected"
                           /\ ~x.live /\ Working(c) = {}
    PROVE  TokenInv'
<1>1. rows \in [Conn -> Row] /\ clock \in Nat
  BY DEF TokenInv, TypeInv
<1>2. CallsOK'
  BY <1>1 DEF TokenInv, CallsOK, NoCall, Sound
<1>3. GrantOK'
  BY DEF TokenInv, GrantOK, NoGrant
<1>4. RowsOK'
  BY <1>1 DEF TokenInv, RowsOK, Live, Sound
<1>5. CleanOK'
  BY <1>1, NoneAssumption DEF TokenInv, TypeInv, CleanOK, Live, Working, NoCall
<1>6. QED
  BY <1>2, <1>3, <1>4, <1>5 DEF TokenInv

LEMMA CallNextInv ==
    ASSUME TokenInv, NEW t \in Reader, CallNext(t), TypeInv'
    PROVE  TokenInv'
<1>1. /\ call \in [Reader -> Call] /\ call[t] \in Call /\ clock \in Nat
      /\ rows \in [Conn -> Row]
  BY DEF TokenInv, TypeInv
<1>2. /\ NoCall.pc = "idle" /\ NoCall.row = None /\ NoCall.now = 0
      /\ NoCall.creds = None
  BY DEF NoCall
<1>3. call[t].pc # "idle" => call[t].row \in Conn /\ call[t].row \notin clean
  BY DEF TokenInv, CallsOK, CleanOK
<1>4. ASSUME call[t].pc # "idle", GiveUp(t), clock' = clock, rows' = rows,
             grant' = grant, clean' = clean
      PROVE  TokenInv'
  <2> DEFINE x == [NoCall EXCEPT !.pc = "stale", !.row = call[t].row]
  <2>1. x.pc = "stale" /\ x.row = call[t].row /\ x.now = 0
    BY DEF NoCall
  <2>2. call' = [call EXCEPT ![t] = x]
    BY <1>4 DEF GiveUp
  <2> HIDE DEF x
  <2>3. Fits(x)
    BY <1>1, <1>3, <1>4, <2>1 DEF Fits
  <2>4. QED
    BY <1>4, <2>2, <2>3, CallStep
<1>5. CASE \E c \in Conn : Fetch(t, c)
  <2>1. PICK c \in Conn : Fetch(t, c)
    BY <1>5
  <2>2. rows[c].creds \in Tokens /\ c \notin clean
    BY <1>1, <2>1 DEF Fetch, Row, TokenInv, CleanOK
  <2> DEFINE x == [NoCall EXCEPT !.pc = "stale", !.row = c]
             y == [pc |-> "instance", row |-> c, creds |-> rows[c].creds,
                   now |-> clock]
  <2>3. call' = [call EXCEPT ![t] = x] \/ call' = [call EXCEPT ![t] = y]
    BY <2>1 DEF Fetch
  <2>4. /\ x.pc = "stale" /\ x.row = c /\ x.now = 0
        /\ y.pc = "instance" /\ y.row = c /\ y.now = clock
        /\ y.creds = rows[c].creds
    BY DEF NoCall
  <2>5. clock' = clock /\ rows' = rows /\ grant' = grant /\ clean' = clean
    BY <2>1 DEF Fetch
  <2> HIDE DEF x, y
  <2>6. Fits(x) /\ Fits(y)
    BY <1>1, <2>2, <2>4 DEF Fits
  <2>7. QED
    BY <2>3, <2>5, <2>6, CallStep
<1>6. CASE LookUpInstance(t)
  <2> DEFINE x == [call[t] EXCEPT !.pc = "refresh"]
  <2>1. /\ x.pc = "refresh" /\ x.row = call[t].row /\ x.now = call[t].now
        /\ x.creds = call[t].creds
    BY <1>1 DEF Call
  <2>2. call[t].creds \in Tokens /\ call[t].now \in Nat /\ call[t].now <= clock
    BY <1>1, <1>6 DEF TokenInv, CallsOK, LookUpInstance, Call
  <2>3. CASE call' = [call EXCEPT ![t].pc = "refresh"]
    <3>1. call' = [call EXCEPT ![t] = x]
      BY <1>1, <2>3
    <3> HIDE DEF x
    <3>2. Fits(x)
      BY <1>3, <1>6, <2>1, <2>2 DEF Fits, LookUpInstance
    <3>3. QED
      BY <1>6, <3>1, <3>2, CallStep DEF LookUpInstance
  <2>4. QED
    BY <1>4, <1>6, <2>3 DEF LookUpInstance
<1>7. CASE IdpRefreshes(t)
  <2>1. call[t].creds \in Tokens
    BY <1>7 DEF TokenInv, CallsOK, IdpRefreshes
  <2>2. PICK g \in Nat, r \in BOOLEAN, l \in Lifetime,
         b \in BOOLEAN : Answered(t, g, r, l, b)
    BY <1>7, <2>1, AnswerGiven
  <2> DEFINE x == [call[t] EXCEPT !.pc = "persist",
                     !.creds = Refreshed(t, g, r, l, b), !.now = 0]
  <2>3. /\ x.pc = "persist" /\ x.row = call[t].row /\ x.now = 0
        /\ x.creds = Refreshed(t, g, r, l, b)
    BY <1>1 DEF Call
  <2>4. call' = [call EXCEPT ![t] = x]
    BY <1>1, <2>2 DEF Answered
  <2>5. Refreshed(t, g, r, l, b) \in Tokens
    BY <2>1, RefreshedType DEF TokenInv
  <2>6. Sound(Refreshed(t, g, r, l, b))
    <3>1. call[t].now \in Nat /\ call[t].now <= clock /\ l \in Nat
      BY <1>1, LifetimeAssumption DEF TokenInv, CallsOK, Call
    <3>2. QED
      BY <1>1, <3>1, SkewAssumption DEF Sound, Refreshed, Believed
  <2> HIDE DEF x
  <2>7. Fits(x)
    <3>1. x.row \in Conn /\ x.row \notin clean
      BY <1>3, <1>7, <2>3 DEF IdpRefreshes
    <3>2. Sound(x.creds)
      BY <2>3, <2>6
    <3>3. QED
      BY <1>1, <2>3, <2>5, <3>1, <3>2 DEF Fits
  <2>8. QED
    BY <1>7, <2>4, <2>7, CallStep DEF IdpRefreshes
<1>8. CASE IdpRefuses(t)
  BY <1>4, <1>8 DEF IdpRefuses
<1>9. CASE AnswerLost(t)
  BY <1>4, <1>9 DEF AnswerLost
<1>10. CASE Persist(t)
  <2> DEFINE c == call[t].row
             x == [rows[c] EXCEPT !.creds = call[t].creds]
  <2>1. /\ c \in Conn /\ c \notin clean
        /\ call[t].creds \in Tokens /\ Sound(call[t].creds)
    BY <1>3, <1>10 DEF TokenInv, CallsOK, Persist
  <2>2. /\ x \in Row /\ x.creds = call[t].creds /\ x.live = Live(c)
        /\ x.status = rows[c].status /\ x.ext = rows[c].ext
    BY <1>1, <2>1 DEF Row, Live
  <2>3. rows' = [rows EXCEPT ![c] = x]
    BY <1>1, <1>10, <2>1 DEF Persist
  <2>4. \A s \in Reader : call'[s] \in {call[s], NoCall}
    BY <1>1, <1>10 DEF Persist
  <2>5. /\ x.live => x.status # "absent"
        /\ x.status = "connected" => x.live
    BY <2>1, <2>2 DEF TokenInv, RowsOK
  <2> HIDE DEF x
  <2>6. QED
    BY <1>10, <2>1, <2>2, <2>3, <2>4, <2>5, RowStep DEF Persist
<1>11. CASE MarkStale(t)
  <2> DEFINE c == call[t].row
             x == [rows[c] EXCEPT !.status = "stale"]
  <2>1. c \in Conn /\ c \notin clean
    BY <1>3, <1>11 DEF MarkStale
  <2>2. /\ x \in Row /\ x.creds = rows[c].creds /\ x.live = Live(c)
        /\ x.status = "stale" /\ x.ext = rows[c].ext
    BY <1>1, <2>1 DEF Row, Live, Status
  <2>3. rows' = [rows EXCEPT ![c] = x]
    BY <1>1, <1>11, <2>1 DEF MarkStale
  <2>4. \A s \in Reader : call'[s] \in {call[s], NoCall}
    BY <1>1, <1>11 DEF MarkStale
  <2>5. Sound(x.creds)
    BY <2>1, <2>2 DEF TokenInv, RowsOK
  <2> HIDE DEF x
  <2>6. QED
    BY <1>11, <2>1, <2>2, <2>3, <2>4, <2>5, RowStep DEF MarkStale
<1>12. CASE CallRaises(t)
  <2>1. Fits(NoCall)
    BY <1>1, <1>2 DEF Fits
  <2>2. QED
    BY <1>12, <2>1, CallStep DEF CallRaises
<1>13. QED
  BY <1>5, <1>6, <1>7, <1>8, <1>9, <1>10, <1>11, <1>12 DEF CallNext

LEMMA NextTokenInv ==
    ASSUME TokenInv, [Next]_vars
    PROVE  TokenInv'
<1>1. TypeInv'
  BY NextType
<1>2. /\ rows \in [Conn -> Row] /\ clock \in Nat
      /\ NoGrant.pc = "idle" /\ NoCall.pc = "idle" /\ NoCall.row = None
      /\ NoCall.now = 0
  BY DEF TokenInv, TypeInv, NoGrant, NoCall
<1>3. CASE Tick
  BY <1>1, <1>2, <1>3, RestStep DEF Tick
<1>4. ASSUME NEW m \in Mailbox, IdpIssues(m)
      PROVE  TokenInv'
  <2>1. grant' \in Grant /\ grant'.pc = "answered" /\ grant'.ext = m
    BY <1>1, <1>4 DEF IdpIssues, TypeInv
  <2>2. /\ grant'.creds \in Tokens
        /\ grant'.creds.timely => grant'.creds.real = grant'.issued + grant'.life
    BY <1>2, <1>4, LifetimeAssumption
    DEF IdpIssues, Tokens, Believed, TokenInv, TypeInv
  <2>3. GrantOK'
    BY <2>1, <2>2 DEF GrantOK
  <2>4. UNCHANGED <<clock, rows, call, clean>>
    BY <1>4 DEF IdpIssues
  <2>5. CallsOK' /\ RowsOK' /\ CleanOK'
    BY <2>4 DEF TokenInv, CallsOK, RowsOK, CleanOK, Live,
                Sound
  <2>6. QED
    BY <1>1, <2>3, <2>5 DEF TokenInv
<1>5. ASSUME grant' = NoGrant, UNCHANGED <<clock, rows, clean>>,
             call' = call \/ call' = [t \in Reader |-> NoCall]
      PROVE  TokenInv'
  <2>1. CallsOK' /\ GrantOK'
    BY <1>2, <1>5 DEF TokenInv, CallsOK, GrantOK, Sound
  <2>2. CleanOK'
    BY <1>2, <1>5, NoneAssumption DEF TokenInv, TypeInv, CleanOK, Live
  <2>3. RowsOK'
    BY <1>5 DEF TokenInv, RowsOK, Live, Sound
  <2>4. QED
    BY <1>1, <2>1, <2>2, <2>3 DEF TokenInv
<1>6. CASE GrantFails \/ RefuseDuplicate \/ ReceiveGrant
  <2>1. CASE ReceiveGrant
    <3> DEFINE k == Received(grant)
    <3>1. /\ grant.creds \in Tokens /\ grant.ext \in Mailbox
          /\ grant.life \in Nat /\ grant.issued \in Nat
          /\ grant.creds.timely => grant.creds.real = grant.issued + grant.life
          /\ k \in Tokens
      BY <2>1, ReceivedType
      DEF ReceiveGrant, TokenInv, TypeInv, GrantOK, Grant
    <3>2. /\ k.until = clock + grant.life /\ k.real = grant.creds.real
          /\ k.timely => grant.creds.timely /\ clock <= grant.issued + Skew
      BY <3>1 DEF Received, Tokens
    <3>3. /\ grant'.pc = "received" /\ grant'.creds = k
          /\ grant'.ext = grant.ext
          /\ UNCHANGED <<clock, rows, call, clean>>
      BY <2>1 DEF ReceiveGrant
    <3> HIDE DEF k
    <3>4. Sound(k)
      BY <1>2, <3>1, <3>2, SkewAssumption DEF Sound
    <3>5. GrantOK'
      BY <3>1, <3>3, <3>4 DEF GrantOK, Sound
    <3>6. CallsOK' /\ RowsOK' /\ CleanOK'
      BY <3>3 DEF TokenInv, CallsOK, RowsOK, CleanOK, Live, Sound
    <3>7. QED
      BY <1>1, <3>5, <3>6 DEF TokenInv
  <2>2. QED
    BY <1>5, <1>6, <2>1 DEF GrantFails, RefuseDuplicate
<1>7. CASE Insert
  <2> DEFINE x == [status |-> "connected", live |-> TRUE, ext |-> grant.ext,
                   creds |-> grant.creds]
  <2>1. PICK c \in Conn :
          /\ rows[c].status = "absent"
          /\ rows' = [rows EXCEPT ![c] = x]
    BY <1>7 DEF Insert
  <2>2. /\ grant.creds \in Tokens /\ grant.ext \in Mailbox
        /\ Sound(grant.creds)
    BY <1>7 DEF Insert, GrantOK, TokenInv
  <2>3. x \in Row
    BY <2>2 DEF Row, Status
  <2>4. Sound(x.creds)
    BY <2>2
  <2>6. c \notin clean
    BY <2>1 DEF TokenInv, CleanOK
  <2>7. /\ x.live = TRUE /\ x.status = "connected"
    OBVIOUS
  <2>8. /\ rows' = [rows EXCEPT ![c] = x]
        /\ grant' = NoGrant /\ clean' = clean /\ call' = call
        /\ clock' = clock
    BY <1>7, <2>1 DEF Insert
  <2> HIDE DEF x
  <2>9. QED
    BY <1>1, <2>3, <2>4, <2>6, <2>7, <2>8, RowStep
<1>8. ASSUME NEW t \in Reader, CallNext(t)
      PROVE  TokenInv'
  BY <1>1, <1>8, CallNextInv
<1>9. ASSUME NEW c \in Conn, RevokeRow(c)
      PROVE  TokenInv'
  <2> DEFINE x == [rows[c] EXCEPT !.status = "disconnected", !.live = FALSE]
  <2>1. /\ x \in Row /\ x.creds = rows[c].creds
        /\ x.live = FALSE /\ x.status = "disconnected"
    BY <1>2 DEF Row, Status
  <2>2. Sound(x.creds) /\ c \notin clean
    BY <1>9, <2>1 DEF TokenInv, RowsOK, CleanOK, RevokeRow
  <2>3. /\ rows' = [rows EXCEPT ![c] = x]
        /\ grant' = grant /\ clean' = clean /\ call' = call
        /\ clock' = clock
    BY <1>2, <1>9 DEF RevokeRow
  <2> HIDE DEF x
  <2>4. QED
    BY <1>1, <2>1, <2>2, <2>3, RowStep
<1>10. ASSUME NEW c \in Conn, WipeRow(c)
       PROVE  TokenInv'
  <2> DEFINE x == [rows[c] EXCEPT !.status = "disconnected", !.live = FALSE,
                                  !.creds = None]
  <2>1. /\ x \in Row /\ x.creds = None
        /\ x.live = FALSE /\ x.status = "disconnected"
    BY <1>2 DEF Row, Status
  <2>2. Sound(x.creds) /\ c \notin clean
    BY <1>10, <2>1 DEF TokenInv, CleanOK, WipeRow, Sound
  <2>3. /\ rows' = [rows EXCEPT ![c] = x]
        /\ grant' = grant /\ call' = call /\ clock' = clock
        /\ clean' = IF Working(c) = {} THEN clean \cup {c} ELSE clean
    BY <1>2, <1>10 DEF WipeRow
  <2>4. /\ \A d \in clean' : d \in clean \/ (d = c /\ Working(c) = {})
        /\ c \in clean' => Working(c) = {}
    BY <2>2, <2>3
  <2> HIDE DEF x
  <2>5. QED
    BY <1>1, <2>1, <2>2, <2>3, <2>4, RowStep
<1>11. ASSUME NEW f \in Fam, IdpWithdraws(f)
       PROVE  TokenInv'
  BY <1>1, <1>2, <1>11, RestStep DEF IdpWithdraws
<1>12. CASE OpenMe \/ ListConnections
  BY <1>1, <1>2, <1>12, RestStep DEF OpenMe, ListConnections
<1>13. CASE Restart
  BY <1>5, <1>13 DEF Restart
<1>14. CASE UNCHANGED vars
  BY <1>1, <1>2, <1>14, RestStep DEF vars
<1>15. QED
  BY <1>3, <1>4, <1>6, <1>7, <1>8, <1>9, <1>10, <1>11, <1>12, <1>13, <1>14
  DEF Next

LEMMA TokenInvHolds == Spec => []TokenInv
BY InitTokenInv, NextTokenInv, PTL DEF Spec

-----------------------------------------------------------------------------
(* Rows, families, calls and the grant keep their types; a call that has   *)
(* read a row keeps that row's id.                                         *)
THEOREM TokenTypes == Spec => []TypeInv
BY TokenInvHolds, PTL DEF TokenInv

(* For every clock skew, lifetimes stated or left out, and answers however *)
(* late: an access token handed out without a refresh is one the source    *)
(* system honours, unless its lifetime was left out or the answer to its   *)
(* code exchange took longer than the skew.  What Sound allows a late      *)
(* answer is made up for by the skew; a refresh needs none of it.          *)
THEOREM TokensServedAreValid == Spec => []ServableIsValid
<1>1. TokenInv => ServableIsValid
  <2> SUFFICES ASSUME TokenInv, NEW c \in Conn, rows[c].creds # None,
                      rows[c].creds.timely, Fresh(rows[c].creds)
               PROVE  clock < rows[c].creds.real
    BY DEF ServableIsValid
  <2>1. rows[c].creds \in Tokens /\ clock \in Nat
    BY DEF TokenInv, TypeInv, Row
  <2>2. rows[c].creds.until <= rows[c].creds.real + Skew
    BY DEF TokenInv, RowsOK, Sound
  <2>3. QED
    BY <2>1, <2>2, SkewAssumption DEF Fresh, Tokens
<1>2. QED
  BY <1>1, TokenInvHolds, PTL

(* The row of a revoked connection serves no later call, whatever          *)
(* _persist_tokens and _mark_stale still write to it.                      *)
THEOREM RevokedIsFinal == Spec => []DisconnectedIsFinal
<1>1. TokenInv => DisconnectedIsFinal
  BY DEF TokenInv, RowsOK, DisconnectedIsFinal
<1>2. QED
  BY <1>1, TokenInvHolds, PTL

(* Only a get_valid_access_token call that had read the row can put tokens *)
(* back into a connection a cascade wiped.                                 *)
THEOREM WipedForGood == Spec => []WipedStaysWiped
<1>1. TokenInv => WipedStaysWiped
  BY DEF TokenInv, CleanOK, WipedStaysWiped
<1>2. QED
  BY <1>1, TokenInvHolds, PTL

-----------------------------------------------------------------------------
(* Stale connections.  An undisturbed live row is refreshed by one call at *)
(* a time, and its tokens are the latest of their family, so the source    *)
(* refuses them only when the consent has ended.                           *)

Dead(k) == ~k.refresh \/ ~idp[k.fam].alive

(* Family f belongs to connection c: the row, or a call that read it, has  *)
(* tokens of f. *)
Holds(c, f) ==
    \/ rows[c].creds # None /\ rows[c].creds.fam = f
    \/ \E t \in Reader : /\ call[t].row = c
                         /\ call[t].creds # None /\ call[t].creds.fam = f

(* A family belongs to one connection, and to none while its grant is on   *)
(* the way.                                                                *)
FamInv ==
    /\ \A c, d \in Conn, f \in Fam : Holds(c, f) /\ Holds(d, f) => c = d
    /\ \A c \in Conn, f \in Fam : Holds(c, f) => idp[f].used
    /\ grant.pc # "idle" =>
          LET f == grant.creds.fam
          IN  /\ idp[f].used /\ \A c \in Conn : ~Holds(c, f)
              /\ idp[f].gen = grant.creds.gen
              /\ grant.creds.key = key

(* A call at rest has no row; a row that has a call was granted. *)
BusyInv ==
    \A t \in Reader :
        /\ call[t].pc = "idle" => call[t].row = None
        /\ \A c \in Conn : call[t].row = c => rows[c].status # "absent"

(* What call t knows of its row's tokens k. *)
Follows(t, k) ==
    /\ call[t].pc \in {"instance", "refresh"} =>
          call[t].creds = k /\ k.refresh
    /\ call[t].pc = "persist" =>
          /\ k.refresh /\ call[t].creds.refresh
          /\ call[t].creds.fam = k.fam /\ call[t].creds.key = key
          /\ call[t].creds.gen = idp[k.fam].gen
    /\ call[t].pc = "stale" => Dead(k)

Persisting(c) == \E t \in Reader : call[t].row = c /\ call[t].pc = "persist"

Healthy(c) ==
    LET k == rows[c].creds
    IN  /\ k \in Tokens /\ k.key = key
        /\ rows[c].status = "stale" => Dead(k)
        /\ ~Persisting(c) /\ ~Dead(k) => idp[k.fam].gen = k.gen
        /\ \A s, t \in Reader : call[s].row = c /\ call[t].row = c => s = t
        /\ \A t \in Reader : call[t].row = c => Follows(t, k)

StaleInv == \A c \in Conn : Live(c) /\ c \notin spoiled => Healthy(c)

(* What the page will not list was granted once and stays disconnected. *)
PageInv == \A c \in me.gone : rows[c].status # "absent" /\ ~Live(c)

StaleState == TokenInv /\ FamInv /\ BusyInv /\ StaleInv /\ PageInv

LEMMA InitStale == Init => StaleState
<1> SUFFICES ASSUME Init PROVE StaleState
  OBVIOUS
<1>1. /\ \A c \in Conn : ~rows[c].live /\ rows[c].creds = None
      /\ \A t \in Reader : call[t].pc = "idle" /\ call[t].row = None
      /\ grant.pc = "idle" /\ me.gone = {}
  BY DEF Init, NoRow, NoCall, NoGrant, NoPage
<1>2. FamInv
  BY <1>1, NoneAssumption DEF FamInv, Holds
<1>3. BusyInv /\ StaleInv /\ PageInv
  BY <1>1, NoneAssumption DEF BusyInv, StaleInv, PageInv, Live
<1>4. QED
  BY <1>2, <1>3, InitTokenInv DEF StaleState

-----------------------------------------------------------------------------
(* What a step of a call does. *)

OnlyCall(t) == \A s \in Reader : s # t => call'[s] = call[s]

(* No live row's mark is taken back. *)
MarksStay == \A c \in Conn : c \in spoiled => c \in spoiled'

LEMMA SpoilMarks ==
    ASSUME NEW S, Spoil(S)
    PROVE  MarksStay /\ \A c \in S : Live(c) => c \in spoiled'
BY DEF Spoil, MarksStay

LEMMA GiveUpMoves ==
    ASSUME TokenInv, NEW t \in Reader, GiveUp(t)
    PROVE  /\ OnlyCall(t) /\ call'[t].pc = "stale" /\ call'[t].creds = None
           /\ call'[t].row = call[t].row
<1>1. call'[t] = [NoCall EXCEPT !.pc = "stale", !.row = call[t].row]
  BY DEF GiveUp, TokenInv, TypeInv
<1>2. QED
  BY <1>1 DEF GiveUp, OnlyCall, NoCall, TokenInv, TypeInv

LEMMA EndMoves ==
    ASSUME TokenInv, NEW t \in Reader, call' = [call EXCEPT ![t] = NoCall]
    PROVE  /\ OnlyCall(t) /\ call'[t].pc = "idle" /\ call'[t].creds = None
           /\ call'[t].row = None
BY DEF OnlyCall, NoCall, TokenInv, TypeInv

LEMMA FetchMoves ==
    ASSUME TokenInv, NEW t \in Reader, NEW c \in Conn, Fetch(t, c)
    PROVE  /\ OnlyCall(t) /\ UNCHANGED <<rows, key, idp, grant, me>>
           /\ MarksStay /\ call[t].pc = "idle" /\ call'[t].row = c
           /\ rows[c].status = "connected" /\ rows[c].creds \in Tokens
           /\ \/ /\ call'[t].pc = "stale" /\ call'[t].creds = None
                 /\ rows[c].creds.key = key => ~rows[c].creds.refresh
              \/ /\ call'[t].pc = "instance" /\ rows[c].creds.refresh
                 /\ call'[t].creds = rows[c].creds
           /\ Live(c) /\ rows[c].creds.key = key /\ c \notin spoiled'
                 => \A s \in Reader : call[s].row # c
<1>0. PICK k : k = rows[c].creds
  OBVIOUS
<1>1. /\ UNCHANGED <<rows, key, idp, grant, me>>
      /\ call[t].pc = "idle" /\ rows[c].status = "connected" /\ k \in Tokens
  BY <1>0 DEF Fetch, TokenInv, TypeInv, Row
<1> DEFINE x == [NoCall EXCEPT !.pc = "stale", !.row = c]
           y == [pc |-> "instance", row |-> c, creds |-> k, now |-> clock]
<1>2. /\ x.pc = "stale" /\ x.row = c /\ x.creds = None
      /\ y.pc = "instance" /\ y.row = c /\ y.creds = k
  BY DEF NoCall
<1>3. \/ k.key # key /\ call' = [call EXCEPT ![t] = x] /\ UNCHANGED spoiled
      \/ /\ k.key = key
         /\ \/ k.refresh /\ call' = [call EXCEPT ![t] = y]
            \/ ~k.refresh /\ call' = [call EXCEPT ![t] = x]
         /\ Spoil(IF Working(c) # {} THEN {c} ELSE {})
  BY <1>0 DEF Fetch
<1> HIDE DEF x, y
<1>4. \/ k.key # key /\ call'[t] = x
      \/ k.refresh /\ call'[t] = y
      \/ ~k.refresh /\ call'[t] = x
  BY <1>3 DEF TokenInv, TypeInv
<1>5. OnlyCall(t)
  BY <1>3 DEF OnlyCall, TokenInv, TypeInv
<1>6. MarksStay
  BY <1>3, SpoilMarks DEF MarksStay
<1>7. ASSUME Live(c), k.key = key, c \notin spoiled'
      PROVE  \A s \in Reader : call[s].row # c
  <2>1. Working(c) = {}
    BY <1>3, <1>7, SpoilMarks
  <2>2. QED
    BY <2>1 DEF Working
<1>8. QED
  BY <1>0, <1>1, <1>2, <1>4, <1>5, <1>6, <1>7

LEMMA AnswerMoves ==
    ASSUME TokenInv, NEW t \in Reader, IdpRefreshes(t)
    PROVE  /\ OnlyCall(t) /\ UNCHANGED <<rows, key, grant, me>> /\ MarksStay
           /\ call[t].pc = "refresh" /\ call'[t].pc = "persist"
           /\ call'[t].row = call[t].row /\ call'[t].creds \in Tokens
           /\ call'[t].creds.fam = call[t].creds.fam
           /\ call'[t].creds.key = key
           /\ \E g \in Nat :
                 /\ idp' = [idp EXCEPT ![call[t].creds.fam].gen = g]
                 /\ call'[t].creds.gen = g
           /\ Live(call[t].row) /\ call[t].row \notin spoiled'
                 => call'[t].creds.refresh
<1>1. /\ call[t].creds \in Tokens /\ call[t] \in Call
      /\ call \in [Reader -> Call]
      /\ UNCHANGED <<rows, key, grant, me>> /\ call[t].pc = "refresh"
  BY DEF IdpRefreshes, TokenInv, CallsOK, TypeInv
<1> DEFINE gen == call[t].creds.gen
<1>2. \/ \E l \in Lifetime, b \in BOOLEAN : Answered(t, gen + 1, TRUE, l, b) /\ UNCHANGED spoiled
      \/ \E l \in Lifetime, b \in BOOLEAN : Answered(t, gen, TRUE, l, b) /\ UNCHANGED spoiled
      \/ \E l \in Lifetime, b \in BOOLEAN : Answered(t, gen, FALSE, l, b) /\ Spoil({call[t].row})
  BY DEF IdpRefreshes, Answered
<1>3. gen \in Nat /\ gen + 1 \in Nat
  BY <1>1 DEF Tokens
<1> HIDE DEF gen
<1>4. PICK g \in Nat, r \in BOOLEAN, l \in Lifetime,
         b \in BOOLEAN :
          /\ Answered(t, g, r, l, b)
          /\ \/ r /\ UNCHANGED spoiled
             \/ Spoil({call[t].row})
  BY <1>2, <1>3
<1> DEFINE new == Refreshed(t, g, r, l, b)
<1>5. /\ new \in Tokens /\ new.fam = call[t].creds.fam /\ new.gen = g
      /\ new.refresh = r /\ new.key = key
  BY <1>1, RefreshedType DEF Refreshed, TokenInv
<1>6. /\ call' = [call EXCEPT ![t].pc = "persist", ![t].creds = new,
                              ![t].now = 0]
      /\ idp' = [idp EXCEPT ![call[t].creds.fam].gen = g]
  BY <1>4 DEF Answered
<1> HIDE DEF new
<1>7. /\ call'[t].pc = "persist" /\ call'[t].row = call[t].row
      /\ call'[t].creds = new /\ OnlyCall(t)
  BY <1>1, <1>6 DEF Call, OnlyCall
<1>8. /\ MarksStay
      /\ Live(call[t].row) /\ call[t].row \notin spoiled' => r
  BY <1>4, SpoilMarks DEF MarksStay
<1>9. QED
  BY <1>1, <1>5, <1>6, <1>7, <1>8

LEMMA LookUpMoves ==
    ASSUME TokenInv, NEW t \in Reader, LookUpInstance(t)
    PROVE  /\ OnlyCall(t) /\ UNCHANGED <<rows, key, idp, grant, me>>
           /\ MarksStay /\ call[t].pc = "instance"
           /\ call'[t].row = call[t].row
           /\ \/ call'[t].pc = "refresh" /\ call'[t].creds = call[t].creds
              \/ /\ call'[t].pc = "stale" /\ call'[t].creds = None
                 /\ Live(call[t].row) => call[t].row \in spoiled'
<1>1. /\ call[t] \in Call /\ call \in [Reader -> Call]
      /\ UNCHANGED <<rows, key, idp, grant, me>> /\ call[t].pc = "instance"
  BY DEF LookUpInstance, TokenInv, TypeInv
<1>2. CASE call' = [call EXCEPT ![t].pc = "refresh"] /\ UNCHANGED spoiled
  BY <1>1, <1>2 DEF Call, OnlyCall, MarksStay
<1>3. CASE GiveUp(t) /\ Spoil({call[t].row})
  BY <1>1, <1>3, GiveUpMoves, SpoilMarks
<1>4. QED
  BY <1>2, <1>3 DEF LookUpInstance

-----------------------------------------------------------------------------
(* What undoes nothing. *)

(* A family that no connection gains stays where it is. *)
LEMMA FamStays ==
    ASSUME TokenInv, FamInv,
           \A c \in Conn, f \in Fam : Holds(c, f)' => Holds(c, f),
           \A f \in Fam : idp[f].used => idp'[f].used,
           \/ grant'.pc = "idle"
           \/ /\ grant.pc # "idle" /\ key' = key
              /\ grant'.creds.fam = grant.creds.fam
              /\ grant'.creds.gen = grant.creds.gen
              /\ grant'.creds.key = grant.creds.key
              /\ idp'[grant.creds.fam].gen = idp[grant.creds.fam].gen
    PROVE  FamInv'
<1>1. grant.pc # "idle" => grant.creds.fam \in Fam
  BY DEF TokenInv, GrantOK, Tokens
<1>2. QED
  BY <1>1 DEF FamInv

(* A healthy connection none of whose parts the step touches. *)
LEMMA StillHealthy ==
    ASSUME NEW d \in Conn, Healthy(d),
           rows'[d] = rows[d], key' = key,
           \A t \in Reader : call[t].row = d \/ call'[t].row = d
                                => call'[t] = call[t],
           \A f \in Fam : Holds(d, f) =>
                /\ idp'[f].alive => idp[f].alive
                /\ idp'[f].gen = idp[f].gen
    PROVE  Healthy(d)'
<1>1. PICK k : k = rows[d].creds
  OBVIOUS
<1>2. rows'[d].creds = k /\ k \in Tokens /\ k.fam \in Fam /\ k # None
  BY <1>1, NoneAssumption DEF Healthy, Tokens
<1>3. (idp'[k.fam].alive => idp[k.fam].alive)
      /\ idp'[k.fam].gen = idp[k.fam].gen
  BY <1>1, <1>2 DEF Holds
<1>4. Dead(k) => Dead(k)'
  BY <1>3 DEF Dead
<1>5. Persisting(d) => Persisting(d)'
  BY DEF Persisting
<1>6. ASSUME NEW t \in Reader, call'[t].row = d
      PROVE  Follows(t, k)'
  <2>1. call'[t] = call[t] /\ Follows(t, k)
    BY <1>1, <1>6 DEF Healthy
  <2>2. QED
    BY <1>3, <1>4, <2>1 DEF Follows
<1>7. \A s, t \in Reader : call'[s].row = d /\ call'[t].row = d => s = t
  BY DEF Healthy
<1>8. /\ k.key = key' /\ (rows'[d].status = "stale" => Dead(k)')
      /\ ~Persisting(d)' /\ ~Dead(k)' => idp'[k.fam].gen = k.gen
  BY <1>1, <1>3, <1>4, <1>5 DEF Healthy
<1>9. QED
  BY <1>2, <1>6, <1>7, <1>8 DEF Healthy

(* A step of call t on its row c keeps the invariant when it leaves c, if  *)
(* live and unspoiled, healthy: no other connection shares a family.       *)
LEMMA SubjectOnly ==
    ASSUME StaleState, NEW t \in Reader, NEW c \in Conn,
           OnlyCall(t), MarksStay, UNCHANGED <<key, grant, me>>,
           call[t].row \in {c, None}, call'[t].row \in {c, None},
           call'[t].pc = "idle" => call'[t].row = None,
           \A d \in Conn : d # c => rows'[d] = rows[d],
           Live(c)' = Live(c),
           rows[c].status # "absent", rows'[c].status # "absent",
           \A f \in Fam : idp'[f].used = idp[f].used,
           \A f \in Fam : ~Holds(c, f) => idp'[f] = idp[f],
           \A f \in Fam : Holds(c, f)' => Holds(c, f),
           Live(c) /\ c \notin spoiled' => Healthy(c)'
    PROVE  FamInv' /\ BusyInv' /\ StaleInv' /\ PageInv'
<1>1. ASSUME NEW d \in Conn, d # c
      PROVE  \A s \in Reader : call[s].row = d \/ call'[s].row = d
                                  => call'[s] = call[s]
  BY <1>1, NoneAssumption DEF OnlyCall
<1>2. \A d \in Conn, f \in Fam : Holds(d, f)' => Holds(d, f)
  BY <1>1 DEF Holds
<1>3. grant.pc # "idle" =>
         /\ grant.creds.fam \in Fam
         /\ idp'[grant.creds.fam].gen = idp[grant.creds.fam].gen
  BY DEF StaleState, TokenInv, GrantOK, Tokens, FamInv
<1>4. FamInv'
  BY <1>2, <1>3, FamStays DEF StaleState
<1>5. BusyInv'
  <2> SUFFICES ASSUME NEW s \in Reader
               PROVE  /\ call'[s].pc = "idle" => call'[s].row = None
                      /\ \A d \in Conn : call'[s].row = d
                                            => rows'[d].status # "absent"
    BY DEF BusyInv
  <2>1. BusyInv /\ c # None
    BY NoneAssumption DEF StaleState
  <2>2. CASE s = t
    BY <2>1, <2>2, NoneAssumption
  <2>3. CASE s # t
    BY <2>1, <2>3 DEF BusyInv, OnlyCall
  <2>4. QED
    BY <2>2, <2>3
<1>6. ASSUME NEW d \in Conn, Live(d)', d \notin spoiled', d # c
      PROVE  Healthy(d)'
  <2>1. Live(d) /\ d \notin spoiled
    BY <1>6 DEF Live, MarksStay
  <2>2. Healthy(d)
    BY <2>1 DEF StaleState, StaleInv
  <2>3. \A f \in Fam : Holds(d, f) => idp'[f] = idp[f]
    BY <1>6 DEF StaleState, FamInv
  <2>4. QED
    BY <1>1, <1>6, <2>2, <2>3, StillHealthy
<1>7. StaleInv'
  BY <1>6 DEF StaleInv
<1>8. PageInv'
  <2> SUFFICES ASSUME NEW d \in me.gone
               PROVE  rows'[d].status # "absent" /\ ~Live(d)'
    BY DEF PageInv
  <2>1. d \in Conn /\ rows[d].status # "absent" /\ ~Live(d)
    BY DEF StaleState, TokenInv, TypeInv, PageInv
  <2>2. QED
    BY <2>1 DEF Live
<1>9. QED
  BY <1>4, <1>5, <1>7, <1>8

-----------------------------------------------------------------------------
(* The steps of a call. *)

LEMMA CallNextStale ==
    ASSUME StaleState, NEW t \in Reader, CallNext(t)
    PROVE  FamInv' /\ BusyInv' /\ StaleInv' /\ PageInv'
<1>1. /\ TokenInv /\ BusyInv /\ StaleInv /\ FamInv
      /\ call \in [Reader -> Call] /\ rows \in [Conn -> Row]
      /\ idp \in [Fam -> Family]
  BY DEF StaleState, TokenInv, TypeInv
<1>2. call[t].pc # "idle" =>
         call[t].row \in Conn /\ rows[call[t].row].status # "absent"
  BY <1>1 DEF TokenInv, CallsOK, BusyInv
<1>3. call[t].pc = "idle" => call[t].row = None
  BY <1>1 DEF BusyInv
<1>4. ASSUME call[t].pc # "idle", UNCHANGED <<rows, key, idp, grant, me>>,
             OnlyCall(t), call'[t].creds \in {call[t].creds, None},
             \/ call'[t].row = call[t].row /\ call'[t].pc # "idle"
             \/ call'[t].row = None,
             MarksStay,
             \A c \in Conn : c = call[t].row /\ Live(c) /\ c \notin spoiled'
                                => Healthy(c)'
      PROVE  FamInv' /\ BusyInv' /\ StaleInv' /\ PageInv'
  <2>1. PICK c \in Conn : c = call[t].row
    BY <1>2, <1>4
  <2>2. \A f \in Fam : Holds(c, f)' => Holds(c, f)
    BY <1>4, <2>1, NoneAssumption DEF Holds, OnlyCall
  <2>3. Live(c)' = Live(c)
    BY <1>4 DEF Live
  <2>4. /\ call[t].row \in {c, None} /\ call'[t].row \in {c, None}
        /\ call'[t].pc = "idle" => call'[t].row = None
        /\ rows[c].status # "absent" /\ rows'[c].status # "absent"
    BY <1>2, <1>4, <2>1
  <2>5. QED
    BY <1>4, <2>1, <2>2, <2>3, <2>4, SubjectOnly
<1>5. CASE \E c \in Conn : Fetch(t, c)
  <2>1. PICK c \in Conn : Fetch(t, c)
    BY <1>5
  <2>2. PICK k : k = rows[c].creds
    OBVIOUS
  <2>3. /\ OnlyCall(t) /\ UNCHANGED <<rows, key, idp, grant, me>>
        /\ MarksStay /\ call[t].pc = "idle" /\ call'[t].row = c
        /\ rows[c].status = "connected" /\ k \in Tokens
        /\ \/ /\ call'[t].pc = "stale" /\ call'[t].creds = None
              /\ k.key = key => ~k.refresh
           \/ /\ call'[t].pc = "instance" /\ k.refresh
              /\ call'[t].creds = k
        /\ Live(c) /\ k.key = key /\ c \notin spoiled'
              => \A s \in Reader : call[s].row # c
    BY <1>1, <2>1, <2>2, FetchMoves
  <2>4. \A f \in Fam : Holds(c, f)' => Holds(c, f)
    BY <1>3, <2>2, <2>3, NoneAssumption DEF Holds, OnlyCall
  <2>5. ASSUME Live(c), c \notin spoiled'
        PROVE  Healthy(c)'
    <3>1. Healthy(c)
      BY <1>1, <2>3, <2>5 DEF StaleInv, MarksStay
    <3>2. k.key = key /\ \A s \in Reader : call[s].row # c
      BY <2>2, <2>3, <2>5, <3>1 DEF Healthy
    <3>3. \A s \in Reader : call'[s].row = c => s = t
      BY <2>3, <3>2 DEF OnlyCall
    <3>4. Follows(t, k)'
      BY <2>3, <3>2 DEF Follows, Dead
    <3>5. ~Persisting(c)
      BY <3>2 DEF Persisting
    <3>6. QED
      BY <2>2, <2>3, <3>1, <3>2, <3>3, <3>4, <3>5 DEF Healthy, Dead
  <2>6. Live(c)' = Live(c)
    BY <2>3 DEF Live
  <2>7. QED
    BY <1>3, <2>3, <2>4, <2>5, <2>6, SubjectOnly
<1>6. CASE LookUpInstance(t)
  <2>1. PICK c \in Conn : c = call[t].row
    BY <1>2, <1>6 DEF LookUpInstance
  <2>2. /\ OnlyCall(t) /\ UNCHANGED <<rows, key, idp, grant, me>>
        /\ MarksStay /\ call[t].pc = "instance" /\ call'[t].row = c
        /\ \/ call'[t].pc = "refresh" /\ call'[t].creds = call[t].creds
           \/ /\ call'[t].pc = "stale" /\ call'[t].creds = None
              /\ Live(c) => c \in spoiled'
    BY <1>1, <1>6, <2>1, LookUpMoves
  <2>3. ASSUME Live(c), c \notin spoiled'
        PROVE  Healthy(c)'
    <3>1. Healthy(c)
      BY <1>1, <2>2, <2>3 DEF StaleInv, MarksStay
    <3>2. call'[t].pc = "refresh" /\ call'[t].creds = call[t].creds
      BY <2>2, <2>3
    <3>3. PICK k : k = rows[c].creds
      OBVIOUS
    <3>4. Follows(t, k)
      BY <2>1, <3>1, <3>3 DEF Healthy
    <3>5. Follows(t, k)'
      BY <2>2, <3>2, <3>4 DEF Follows
    <3>6. \A s \in Reader : call'[s].row = c => s = t
      BY <2>1, <2>2, <3>1 DEF Healthy, OnlyCall
    <3>7. ~Persisting(c)
      BY <2>1, <2>2, <3>1 DEF Healthy, Persisting
    <3>8. QED
      BY <2>2, <3>1, <3>3, <3>5, <3>6, <3>7 DEF Healthy, Dead
  <2>4. QED
    BY <1>4, <2>1, <2>2, <2>3
<1>7. CASE IdpRefreshes(t)
  <2>1. PICK c \in Conn : c = call[t].row
    BY <1>2, <1>7 DEF IdpRefreshes
  <2>2. PICK g \in Nat :
          /\ idp' = [idp EXCEPT ![call[t].creds.fam].gen = g]
          /\ call'[t].creds.gen = g
    BY <1>1, <1>7, AnswerMoves
  <2>3. /\ OnlyCall(t) /\ UNCHANGED <<rows, key, grant, me>> /\ MarksStay
        /\ call[t].pc = "refresh" /\ call'[t].pc = "persist"
        /\ call'[t].row = c /\ call'[t].creds.fam = call[t].creds.fam
        /\ call'[t].creds.key = key
        /\ Live(c) /\ c \notin spoiled' => call'[t].creds.refresh
    BY <1>1, <1>7, <2>1, AnswerMoves
  <2>4. PICK h : h = call[t].creds.fam
    OBVIOUS
  <2>5. h \in Fam /\ Holds(c, h) /\ call[t].creds # None
    BY <1>1, <2>1, <2>3, <2>4, NoneAssumption
    DEF TokenInv, CallsOK, Tokens, Holds
  <2>6. /\ idp'[h].gen = g /\ idp'[h].alive = idp[h].alive
        /\ \A f \in Fam : idp'[f].used = idp[f].used
        /\ \A f \in Fam : f # h => idp'[f] = idp[f]
    BY <1>1, <2>2, <2>4, <2>5 DEF Family
  <2>7. \A f \in Fam : Holds(c, f)' => Holds(c, f)
    BY <2>1, <2>3, <2>4, <2>5 DEF Holds, OnlyCall
  <2>8. ASSUME Live(c), c \notin spoiled'
        PROVE  Healthy(c)'
    <3>1. Healthy(c)
      BY <1>1, <2>3, <2>8 DEF StaleInv, MarksStay
    <3>2. PICK k : k = rows[c].creds
      OBVIOUS
    <3>3. k.refresh /\ k.fam = h
      BY <2>1, <2>3, <2>4, <3>1, <3>2 DEF Healthy, Follows
    <3>4. Follows(t, k)'
      BY <2>2, <2>3, <2>4, <2>6, <2>8, <3>3 DEF Follows
    <3>5. \A s \in Reader : call'[s].row = c => s = t
      BY <2>1, <2>3, <3>1 DEF Healthy, OnlyCall
    <3>6. Persisting(c)'
      BY <2>3 DEF Persisting
    <3>7. Dead(k) => Dead(k)'
      BY <2>6, <3>3 DEF Dead
    <3>8. QED
      BY <2>3, <3>1, <3>2, <3>4, <3>5, <3>6, <3>7 DEF Healthy
  <2>9. Live(c)' = Live(c)
    BY <2>3 DEF Live
  <2>10. QED
    BY <1>2, <2>1, <2>3, <2>5, <2>6, <2>7, <2>8, <2>9, SubjectOnly
<1>8. CASE IdpRefuses(t)
  <2>1. PICK c \in Conn : c = call[t].row
    BY <1>2, <1>8 DEF IdpRefuses
  <2>2. /\ OnlyCall(t) /\ call'[t].pc = "stale" /\ call'[t].creds = None
        /\ call'[t].row = c
    BY <1>1, <1>8, <2>1, GiveUpMoves DEF IdpRefuses
  <2>3. /\ UNCHANGED <<rows, key, idp, grant, me>> /\ MarksStay
        /\ call[t].pc = "refresh" /\ ~Honoured(call[t].creds)
    BY <1>8 DEF IdpRefuses, MarksStay
  <2>4. ASSUME Live(c), c \notin spoiled'
        PROVE  Healthy(c)'
    <3>1. Healthy(c)
      BY <1>1, <2>3, <2>4 DEF StaleInv, MarksStay
    <3>2. PICK k : k = rows[c].creds
      OBVIOUS
    <3>3. ~Persisting(c) /\ call[t].creds = k
      BY <2>1, <2>3, <3>1, <3>2 DEF Healthy, Persisting, Follows
    <3>4. Dead(k)
      BY <2>3, <3>1, <3>2, <3>3 DEF Healthy, Honoured, Dead
    <3>5. Dead(k)' /\ Follows(t, k)'
      BY <2>2, <2>3, <3>4 DEF Dead, Follows
    <3>6. \A s \in Reader : call'[s].row = c => s = t
      BY <2>1, <2>2, <3>1 DEF Healthy, OnlyCall
    <3>7. QED
      BY <2>3, <3>1, <3>2, <3>5, <3>6 DEF Healthy
  <2>5. QED
    BY <1>4, <2>1, <2>2, <2>3, <2>4
<1>9. CASE AnswerLost(t)
  <2>1. /\ OnlyCall(t) /\ call'[t].pc = "stale" /\ call'[t].creds = None
        /\ call'[t].row = call[t].row
    BY <1>1, <1>9, GiveUpMoves DEF AnswerLost
  <2>2. /\ UNCHANGED <<rows, key, idp, grant, me>> /\ call[t].pc # "idle"
        /\ MarksStay
        /\ Live(call[t].row) => call[t].row \in spoiled'
    BY <1>9, SpoilMarks DEF AnswerLost
  <2>3. QED
    BY <1>4, <2>1, <2>2
<1>10. CASE CallRaises(t)
  <2>1. /\ OnlyCall(t) /\ call'[t].pc = "idle" /\ call'[t].creds = None
        /\ call'[t].row = None
    BY <1>1, <1>10, EndMoves DEF CallRaises
  <2>2. /\ UNCHANGED <<rows, key, idp, grant, me>> /\ call[t].pc # "idle"
        /\ MarksStay
        /\ Live(call[t].row) => call[t].row \in spoiled'
    BY <1>10, SpoilMarks DEF CallRaises
  <2>3. QED
    BY <1>4, <2>1, <2>2
<1>11. ASSUME NEW c \in Conn, c = call[t].row, call[t].pc # "idle",
              OnlyCall(t), call'[t].creds = None, call'[t].row = None,
              NEW x \in Row, rows' = [rows EXCEPT ![c] = x],
              x.live = rows[c].live, x.status # "absent",
              \A f \in Fam : x.creds # None /\ x.creds.fam = f
                                => Holds(c, f),
              UNCHANGED <<key, idp, grant, me, spoiled>>,
              Live(c) /\ c \notin spoiled =>
                 /\ x.creds \in Tokens /\ x.creds.key = key
                 /\ x.status = "stale" => Dead(x.creds)
                 /\ ~Dead(x.creds) => idp[x.creds.fam].gen = x.creds.gen
       PROVE  FamInv' /\ BusyInv' /\ StaleInv' /\ PageInv'
  <2>1. MarksStay /\ rows'[c] = x /\ Live(c)' = Live(c)
    BY <1>1, <1>11 DEF MarksStay, Live
  <2>2. \A f \in Fam : Holds(c, f)' => Holds(c, f)
    BY <1>11, <2>1 DEF Holds, OnlyCall
  <2>3. ASSUME Live(c), c \notin spoiled'
        PROVE  Healthy(c)'
    <3>1. Healthy(c)
      BY <1>1, <1>11, <2>3 DEF StaleInv
    <3>2. \A s \in Reader : call'[s].row # c
      BY <1>11, <3>1, NoneAssumption DEF Healthy, OnlyCall
    <3>3. (Dead(x.creds)' <=> Dead(x.creds))
      BY <1>11 DEF Dead
    <3>4. QED
      BY <1>11, <2>1, <2>3, <3>2, <3>3 DEF Healthy, Dead
  <2>4. QED
    BY <1>1, <1>2, <1>11, <2>1, <2>2, <2>3, SubjectOnly
<1>12. CASE Persist(t)
  <2>1. PICK c \in Conn : c = call[t].row
    BY <1>2, <1>12 DEF Persist
  <2>2. PICK k : k = call[t].creds
    OBVIOUS
  <2>3. k \in Tokens /\ k # None /\ call[t].pc = "persist"
    BY <1>1, <1>12, <2>2, NoneAssumption DEF TokenInv, CallsOK, Persist
  <2> DEFINE x == [rows[c] EXCEPT !.creds = k]
  <2>4. /\ x \in Row /\ x.live = rows[c].live /\ x.creds = k
        /\ x.status = rows[c].status
    BY <1>1, <2>3 DEF Row
  <2>5. /\ rows' = [rows EXCEPT ![c] = x]
        /\ UNCHANGED <<key, idp, grant, me, spoiled>>
    BY <1>1, <1>12, <2>1, <2>2 DEF Persist
  <2> HIDE DEF x
  <2>6. OnlyCall(t) /\ call'[t].creds = None /\ call'[t].row = None
    BY <1>1, <1>12, EndMoves DEF Persist
  <2>7. \A f \in Fam : k.fam = f => Holds(c, f)
    BY <2>1, <2>2, <2>3 DEF Holds
  <2>8. ASSUME Live(c), c \notin spoiled
        PROVE  /\ k.key = key /\ idp[k.fam].gen = k.gen
               /\ x.status = "stale" => Dead(k)
    <3>1. Healthy(c)
      BY <1>1, <2>8 DEF StaleInv
    <3>2. PICK old : old = rows[c].creds
      OBVIOUS
    <3>3. /\ old.refresh /\ k.fam = old.fam /\ k.key = key
          /\ k.gen = idp[old.fam].gen
      BY <2>1, <2>2, <2>3, <3>1, <3>2 DEF Healthy, Follows
    <3>4. QED
      BY <2>4, <3>1, <3>2, <3>3 DEF Healthy, Dead
  <2>9. x.status # "absent"
    BY <1>2, <2>1, <2>3, <2>4
  <2>10. QED
    BY <1>11, <2>1, <2>3, <2>4, <2>5, <2>6, <2>7, <2>8, <2>9
<1>13. CASE MarkStale(t)
  <2>1. PICK c \in Conn : c = call[t].row
    BY <1>2, <1>13 DEF MarkStale
  <2> DEFINE x == [rows[c] EXCEPT !.status = "stale"]
  <2>2. /\ x \in Row /\ x.live = rows[c].live /\ x.creds = rows[c].creds
        /\ x.status = "stale"
    BY <1>1 DEF Row, Status
  <2>3. /\ rows' = [rows EXCEPT ![c] = x] /\ call[t].pc = "stale"
        /\ UNCHANGED <<key, idp, grant, me, spoiled>>
    BY <1>1, <1>13, <2>1 DEF MarkStale
  <2> HIDE DEF x
  <2>4. OnlyCall(t) /\ call'[t].creds = None /\ call'[t].row = None
    BY <1>1, <1>13, EndMoves DEF MarkStale
  <2>5. \A f \in Fam : x.creds # None /\ x.creds.fam = f => Holds(c, f)
    BY <2>2 DEF Holds
  <2>6. ASSUME Live(c), c \notin spoiled
        PROVE  x.creds \in Tokens /\ x.creds.key = key /\ Dead(x.creds)
    <3>1. Healthy(c)
      BY <1>1, <2>6 DEF StaleInv
    <3>2. QED
      BY <2>1, <2>2, <2>3, <3>1 DEF Healthy, Follows
  <2>7. QED
    BY <1>11, <2>1, <2>2, <2>3, <2>4, <2>5, <2>6
<1>14. QED
  BY <1>5, <1>6, <1>7, <1>8, <1>9, <1>10, <1>12, <1>13 DEF CallNext

-----------------------------------------------------------------------------
(* The other steps. *)

(* Live rows outside S that a step without calls leaves alone. *)
LEMMA OthersHealthy ==
    ASSUME StaleState, NEW S \in SUBSET Conn, key' = key, call' = call,
           \A d \in Conn \ S : rows'[d] = rows[d],
           \A d \in Conn \ S : d \in spoiled => d \in spoiled',
           \A d \in Conn \ S, f \in Fam : Holds(d, f) =>
                /\ idp'[f].alive => idp[f].alive
                /\ idp'[f].gen = idp[f].gen
    PROVE  \A d \in Conn \ S : Live(d)' /\ d \notin spoiled' => Healthy(d)'
<1> SUFFICES ASSUME NEW d \in Conn \ S, Live(d)', d \notin spoiled'
             PROVE  Healthy(d)'
  OBVIOUS
<1>1. Live(d) /\ d \notin spoiled
  BY DEF Live
<1>2. Healthy(d)
  BY <1>1 DEF StaleState, StaleInv
<1>3. QED
  BY <1>2, StillHealthy

(* The clock, the page and the grant that fails. *)
LEMMA NothingStale ==
    ASSUME StaleState, UNCHANGED <<rows, key, idp, call, spoiled>>,
           grant' \in {grant, NoGrant} \/ ReceiveGrant,
           me' = me \/ me' = NoPage
             \/ me'.gone = {c \in Conn : rows[c].status # "absent" /\ ~Live(c)}
    PROVE  FamInv' /\ BusyInv' /\ StaleInv' /\ PageInv'
<1>1. NoGrant.pc = "idle" /\ NoPage.gone = {}
  BY DEF NoGrant, NoPage
<1>2. \A c \in Conn, f \in Fam : Holds(c, f)' => Holds(c, f)
  BY DEF Holds
<1>3. FamInv'
  <2>1. CASE ReceiveGrant
    <3>1. grant.pc = "answered" /\ grant'.creds = Received(grant)
      BY <2>1 DEF ReceiveGrant
    <3>2. grant.creds \in Tokens
      BY <3>1 DEF StaleState, TokenInv, GrantOK
    <3>3. /\ grant'.creds.fam = grant.creds.fam
          /\ grant'.creds.gen = grant.creds.gen
          /\ grant'.creds.key = grant.creds.key
      BY <3>1, <3>2 DEF Received, Tokens
    <3>4. QED
      BY <1>2, <3>1, <3>3, FamStays DEF StaleState
  <2>2. CASE grant' = grant \/ grant' = NoGrant
    BY <1>1, <1>2, <2>2, FamStays DEF StaleState
  <2>3. QED
    BY <2>1, <2>2
<1>4. BusyInv'
  BY DEF StaleState, BusyInv
<1>5. StaleInv'
  BY OthersHealthy DEF StaleInv
<1>6. PageInv'
  BY <1>1 DEF StaleState, PageInv, Live
<1>7. QED
  BY <1>3, <1>4, <1>5, <1>6

LEMMA IssueStale ==
    ASSUME StaleState, NEW m \in Mailbox, IdpIssues(m)
    PROVE  FamInv' /\ BusyInv' /\ StaleInv' /\ PageInv'
<1>1. /\ FamInv /\ BusyInv /\ PageInv /\ idp \in [Fam -> Family]
      /\ UNCHANGED <<rows, key, call, me, spoiled>>
  BY DEF StaleState, TokenInv, TypeInv, IdpIssues
<1>2. PICK h \in Fam, l \in Lifetime, r \in BOOLEAN, b \in BOOLEAN :
        /\ ~idp[h].used
        /\ idp' = [idp EXCEPT ![h] = [used |-> TRUE, alive |-> TRUE,
                                      gen |-> 0]]
        /\ grant' = [pc |-> "answered", ext |-> m,
              life |-> Believed(l, b), issued |-> clock,
              creds |-> [fam |-> h, gen |-> 0, refresh |-> r, key |-> key,
                         real |-> clock + l, until |-> clock, timely |-> b]]
  BY DEF IdpIssues
<1>3. /\ idp'[h].used /\ idp'[h].gen = 0 /\ grant'.creds.fam = h
      /\ grant'.creds.gen = 0 /\ grant'.creds.key = key
      /\ \A f \in Fam : f # h => idp'[f] = idp[f]
  BY <1>1, <1>2
<1>4. \A c \in Conn, f \in Fam : Holds(c, f)' <=> Holds(c, f)
  BY <1>1 DEF Holds
<1>5. \A c \in Conn : ~Holds(c, h)
  BY <1>1, <1>2 DEF FamInv
<1>6. FamInv'
  <2>1. \A c, d \in Conn, f \in Fam : Holds(c, f)' /\ Holds(d, f)' => c = d
    BY <1>1, <1>4 DEF FamInv
  <2>2. \A c \in Conn, f \in Fam : Holds(c, f)' => idp'[f].used
    BY <1>1, <1>3, <1>4 DEF FamInv
  <2>3. \A c \in Conn : ~Holds(c, h)'
    BY <1>4, <1>5
  <2>4. QED
    BY <1>1, <1>3, <2>1, <2>2, <2>3 DEF FamInv
<1>7. \A d \in Conn, f \in Fam : Holds(d, f) => idp'[f] = idp[f]
  BY <1>3, <1>5
<1>8. StaleInv'
  BY <1>1, <1>7, OthersHealthy DEF StaleInv
<1>9. BusyInv' /\ PageInv'
  BY <1>1 DEF BusyInv, PageInv, Live
<1>10. QED
  BY <1>6, <1>8, <1>9

LEMMA InsertStale ==
    ASSUME StaleState, Insert
    PROVE  FamInv' /\ BusyInv' /\ StaleInv' /\ PageInv'
<1>1. /\ TokenInv /\ FamInv /\ BusyInv /\ PageInv /\ rows \in [Conn -> Row]
      /\ UNCHANGED <<key, idp, call, me, spoiled>> /\ grant' = NoGrant
      /\ grant.pc = "received" /\ me.gone \subseteq Conn
  BY DEF StaleState, TokenInv, TypeInv, Insert
<1>2. PICK c \in Conn :
          /\ rows[c].status = "absent"
          /\ rows' = [rows EXCEPT ![c] =
                [status |-> "connected", live |-> TRUE, ext |-> grant.ext,
                 creds |-> grant.creds]]
  BY DEF Insert
<1>3. PICK k : k = grant.creds
  OBVIOUS
<1>4. /\ k \in Tokens /\ k # None /\ k.fam = grant.creds.fam
      /\ k.gen = grant.creds.gen /\ k.key = grant.creds.key
  BY <1>1, <1>3, NoneAssumption DEF TokenInv, GrantOK
<1>5. /\ rows'[c].creds = k /\ rows'[c].status = "connected"
      /\ \A d \in Conn : d # c => rows'[d] = rows[d]
  BY <1>1, <1>2, <1>3
<1>6. \A t \in Reader : call[t].row # c
  BY <1>1, <1>2 DEF BusyInv
<1>7. \A d \in Conn, f \in Fam :
         Holds(d, f)' => Holds(d, f) \/ (d = c /\ f = k.fam)
  BY <1>1, <1>4, <1>5, <1>6 DEF Holds
<1>8. \A d \in Conn : ~Holds(d, k.fam)
  BY <1>1, <1>4 DEF FamInv
<1>9. FamInv'
  <2>1. \A d, e \in Conn, f \in Fam : Holds(d, f)' /\ Holds(e, f)' => d = e
    BY <1>1, <1>7, <1>8 DEF FamInv
  <2>2. \A d \in Conn, f \in Fam : Holds(d, f)' => idp'[f].used
    BY <1>1, <1>4, <1>7 DEF FamInv
  <2>3. QED
    BY <1>1, <2>1, <2>2 DEF FamInv, NoGrant
<1>10. BusyInv'
  BY <1>1, <1>5, <1>6 DEF BusyInv
<1>11. Healthy(c)'
  <2>1. k.key = key /\ idp[k.fam].gen = k.gen
    BY <1>1, <1>4 DEF FamInv
  <2>2. QED
    BY <1>1, <1>4, <1>5, <1>6, <2>1 DEF Healthy, Dead
<1>12. StaleInv'
  <2>1. \A d \in Conn \ {c} : Live(d)' /\ d \notin spoiled' => Healthy(d)'
    BY <1>1, <1>5, OthersHealthy
  <2>2. QED
    BY <1>11, <2>1 DEF StaleInv
<1>13. PageInv'
  BY <1>1, <1>2, <1>5 DEF PageInv, Live
<1>14. QED
  BY <1>9, <1>10, <1>12, <1>13

(* A live row's end; its credentials are kept or wiped. *)
LEMMA EndStale ==
    ASSUME StaleState, NEW c \in Conn, NEW x \in Row,
           rows' = [rows EXCEPT ![c] = x], rows[c].status # "absent",
           x.status = "disconnected", ~x.live,
           x.creds \in {rows[c].creds, None}, spoiled' = spoiled \ {c},
           UNCHANGED <<key, idp, call, grant, me>>
    PROVE  FamInv' /\ BusyInv' /\ StaleInv' /\ PageInv'
<1>1. /\ TokenInv /\ FamInv /\ BusyInv /\ PageInv /\ rows \in [Conn -> Row]
      /\ me.gone \subseteq Conn
  BY DEF StaleState, TokenInv, TypeInv
<1>2. rows'[c] = x /\ \A d \in Conn : d # c => rows'[d] = rows[d]
  BY <1>1
<1>3. \A d \in Conn, f \in Fam : Holds(d, f)' => Holds(d, f)
  BY <1>2 DEF Holds
<1>4. FamInv'
  BY <1>1, <1>3, FamStays
<1>5. BusyInv'
  BY <1>1, <1>2 DEF BusyInv
<1>6. StaleInv'
  <2>1. \A d \in Conn \ {c} : Live(d)' /\ d \notin spoiled' => Healthy(d)'
    BY <1>2, OthersHealthy
  <2>2. ~Live(c)'
    BY <1>2 DEF Live
  <2>3. QED
    BY <2>1, <2>2 DEF StaleInv
<1>7. PageInv'
  BY <1>1, <1>2 DEF PageInv, Live
<1>8. QED
  BY <1>4, <1>5, <1>6, <1>7

LEMMA WithdrawStale ==
    ASSUME StaleState, NEW h \in Fam, IdpWithdraws(h)
    PROVE  FamInv' /\ BusyInv' /\ StaleInv' /\ PageInv'
<1>1. /\ TokenInv /\ FamInv /\ BusyInv /\ PageInv
      /\ idp \in [Fam -> Family]
      /\ UNCHANGED <<rows, key, call, grant, me, spoiled>>
  BY DEF StaleState, TokenInv, TypeInv, IdpWithdraws
<1>2. \A f \in Fam : /\ idp'[f].gen = idp[f].gen
                     /\ idp'[f].used = idp[f].used
                     /\ idp'[f].alive => idp[f].alive
  BY <1>1 DEF IdpWithdraws, Family
<1>3. \A d \in Conn, f \in Fam : Holds(d, f)' => Holds(d, f)
  BY <1>1 DEF Holds
<1>4. grant.pc # "idle" => grant.creds.fam \in Fam
  BY <1>1 DEF TokenInv, GrantOK, Tokens
<1>5. FamInv'
  BY <1>1, <1>2, <1>3, <1>4, FamStays
<1>6. StaleInv'
  BY <1>1, <1>2, OthersHealthy DEF StaleInv
<1>7. BusyInv' /\ PageInv'
  BY <1>1 DEF BusyInv, PageInv, Live
<1>8. QED
  BY <1>5, <1>6, <1>7

LEMMA RestartStale ==
    ASSUME StaleState, Restart
    PROVE  FamInv' /\ BusyInv' /\ StaleInv' /\ PageInv'
<1>1. /\ TokenInv /\ FamInv /\ key \in Nat /\ UNCHANGED <<rows, idp>>
      /\ call' = [t \in Reader |-> NoCall] /\ grant' = NoGrant /\ me' = NoPage
  BY DEF StaleState, TokenInv, TypeInv, Restart
<1>2. /\ NoGrant.pc = "idle" /\ NoPage.gone = {}
      /\ \A t \in Reader : /\ call'[t].pc = "idle" /\ call'[t].row = None
                           /\ call'[t].creds = None
  BY <1>1 DEF NoGrant, NoPage, NoCall
<1>3. \A d \in Conn, f \in Fam : Holds(d, f)' => Holds(d, f)
  BY <1>1, <1>2 DEF Holds
<1>4. FamInv'
  BY <1>1, <1>2, <1>3, FamStays
<1>5. BusyInv' /\ PageInv'
  BY <1>1, <1>2, NoneAssumption DEF BusyInv, PageInv
<1>6. CASE key' = key /\ Spoil({c \in Conn : Working(c) # {}})
  <2>1. ASSUME NEW d \in Conn, Live(d)', d \notin spoiled'
        PROVE  Healthy(d)'
    <3>1. Live(d) /\ d \notin spoiled /\ Working(d) = {}
      BY <1>1, <1>6, <2>1, SpoilMarks DEF Live, MarksStay
    <3>2. \A t \in Reader : call[t].row # d /\ call'[t].row # d
      BY <1>2, <3>1, NoneAssumption DEF Working
    <3>3. Healthy(d)
      BY <3>1 DEF StaleState, StaleInv
    <3>4. QED
      BY <1>1, <1>6, <3>2, <3>3, StillHealthy
  <2>2. QED
    BY <1>4, <1>5, <2>1 DEF StaleInv
<1>7. CASE key' = key + 1 /\ Spoil(Conn)
  BY <1>1, <1>4, <1>5, <1>7, SpoilMarks DEF StaleInv, Live
<1>8. QED
  BY <1>1, <1>6, <1>7 DEF Restart

LEMMA NextStale ==
    ASSUME StaleState, [Next]_vars
    PROVE  StaleState'
<1>1. TokenInv' /\ TokenInv /\ rows \in [Conn -> Row]
  BY NextTokenInv DEF StaleState, TokenInv, TypeInv
<1> SUFFICES FamInv' /\ BusyInv' /\ StaleInv' /\ PageInv'
  BY <1>1 DEF StaleState
<1>2. CASE \/ Tick \/ GrantFails \/ RefuseDuplicate \/ ReceiveGrant
          \/ OpenMe \/ ListConnections \/ UNCHANGED vars
  <2>1. /\ UNCHANGED <<rows, key, idp, call, spoiled>>
        /\ grant' \in {grant, NoGrant} \/ ReceiveGrant
        /\ \/ me' = me \/ me' = NoPage
           \/ me'.gone = {c \in Conn : rows[c].status # "absent" /\ ~Live(c)}
    BY <1>2 DEF Tick, GrantFails, RefuseDuplicate, ReceiveGrant, OpenMe,
       ListConnections, vars
  <2>2. QED
    BY <2>1, NothingStale
<1>3. CASE \E m \in Mailbox : IdpIssues(m)
  BY <1>3, IssueStale
<1>4. CASE Insert
  BY <1>4, InsertStale
<1>5. CASE \E t \in Reader : CallNext(t)
  BY <1>5, CallNextStale
<1>6. ASSUME NEW c \in Conn, RevokeRow(c) \/ WipeRow(c)
      PROVE  FamInv' /\ BusyInv' /\ StaleInv' /\ PageInv'
  <2>1. /\ rows[c].status # "absent" /\ spoiled' = spoiled \ {c}
        /\ UNCHANGED <<key, idp, call, grant, me>>
    BY <1>1, <1>6 DEF TokenInv, RowsOK, RevokeRow, WipeRow
  <2> DEFINE x == [rows[c] EXCEPT !.status = "disconnected", !.live = FALSE]
             y == [x EXCEPT !.creds = None]
  <2>2. /\ x \in Row /\ x.status = "disconnected" /\ x.live = FALSE
        /\ x.creds = rows[c].creds
        /\ y \in Row /\ y.status = "disconnected" /\ y.live = FALSE
        /\ y.creds = None
    BY <1>1 DEF Row, Status
  <2>3. rows' = [rows EXCEPT ![c] = x] \/ rows' = [rows EXCEPT ![c] = y]
    BY <1>1, <1>6 DEF RevokeRow, WipeRow
  <2> HIDE DEF x, y
  <2>4. QED
    BY <2>1, <2>2, <2>3, EndStale
<1>7. CASE \E f \in Fam : IdpWithdraws(f)
  BY <1>7, WithdrawStale
<1>8. CASE Restart
  BY <1>8, RestartStale
<1>9. QED
  BY <1>2, <1>3, <1>4, <1>5, <1>6, <1>7, <1>8 DEF Next

LEMMA StaleStateHolds == Spec => []StaleState
BY InitStale, NextStale, PTL DEF Spec

(* A connection nothing went wrong with is given up as stale only when the *)
(* source system has ended the consent, or never gave a refresh token: no  *)
(* order of refreshes, rotations, marks, revocations and restarts makes    *)
(* get_valid_access_token mark a row that could still be refreshed, the    *)
(* causes StaleMeansDead lists apart.                                      *)
THEOREM StaleAlwaysMeansDead == Spec => []StaleMeansDead
<1>1. StaleState => StaleMeansDead
  BY DEF StaleState, StaleInv, Healthy, Dead, StaleMeansDead
<1>2. QED
  BY <1>1, StaleStateHolds, PTL

(* GET /me lists no connection that was revoked before the page was asked  *)
(* for, whatever _mark_stale wrote into its status in between.             *)
THEOREM PageAlwaysShowsHeld == Spec => []MeShowsHeld
<1>1. StaleState => MeShowsHeld
  BY DEF StaleState, PageInv, MeShowsHeld, Listed
<1>2. QED
  BY <1>1, StaleStateHolds, PTL

=============================================================================
