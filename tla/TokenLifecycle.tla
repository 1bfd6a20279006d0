--------------------------- MODULE TokenLifecycle ---------------------------
(***************************************************************************)
(* The OAuth tokens of one user's connections to one instance: their       *)
(* exchange in complete_grant, get_valid_access_token with its single      *)
(* refresh and its persist-or-mark-stale, the revocations that may land    *)
(* between any two of its awaits, and the page (GET /me) that shows the    *)
(* outcome.  Time is a clock that ticks; no answer need come within any    *)
(* number of ticks.  Everything else about grants and cascades is module   *)
(* Hub's.                                                                  *)
(***************************************************************************)
EXTENDS Integers, FiniteSets

CONSTANTS
    Conn,       \* connection ids (user:inst:seq)
    Mailbox,    \* external_subject values
    Fam,        \* consents the source system holds: one per code exchange
    Reader,     \* get_valid_access_token calls that may be under way
    None,
    Skew,       \* clock_skew_seconds
    Lifetime,   \* how long the source system's access tokens may live
    DefaultLife, \* the expires_in of an answer that states none: 3600
    MaxClock, MaxGen, MaxFaults   \* bounds

ASSUME SkewAssumption == Skew \in Nat
ASSUME LifetimeAssumption == Lifetime \subseteq Nat /\ DefaultLife \in Nat
ASSUME BoundsAssumption ==
    MaxClock \in Nat /\ MaxGen \in Nat /\ MaxFaults \in Nat

(* A decrypted token blob.  gen is the refresh token's number in its       *)
(* family, until is the stored expires_at; real, the moment the source     *)
(* system stops honouring the access token, is known to it alone.  timely  *)
(* is history: the answer stated expires_in, and where expires_at counts   *)
(* from its arrival, it arrived within clock_skew_seconds.                 *)
Tokens == [fam : Fam, gen : Nat, refresh : BOOLEAN, key : Nat,
           real : Int, until : Int, timely : BOOLEAN]

ASSUME NoneAssumption == None \notin Tokens \cup Conn \cup Mailbox

VARIABLES
    clock,
    rows,      \* IntegrationConnection by id
    key,       \* the master key the running process was started with
    idp,       \* what the source system knows of each family
    call,      \* the get_valid_access_token calls
    grant,     \* the user's complete_grant, from the exchange on
    me,        \* the user's GET /me
    faults,
    spoiled,   \* history: rows some cause listed at StaleMeansDead happened to
    clean      \* history: rows wiped while no call was refreshing them

vars == <<clock, rows, key, idp, call, grant, me, faults,
          spoiled, clean>>

Status == {"absent", "connected", "stale", "disconnected"}
Row == [status : Status, live : BOOLEAN, ext : Mailbox \cup {None},
        creds : Tokens \cup {None}]
NoRow == [status |-> "absent", live |-> FALSE, ext |-> None, creds |-> None]

(* now: the clock a call read, until it is used.  life: the expires_in the *)
(* Hub takes from the answer, issued when it was.  gone: what was          *)
(* disconnected when the page was asked for.                               *)
Call == [pc : {"idle", "instance", "refresh", "persist", "stale"},
         row : Conn \cup {None}, creds : Tokens \cup {None}, now : Nat]
Grant == [pc : {"idle", "answered", "received"}, ext : Mailbox \cup {None},
          creds : Tokens \cup {None}, life : Nat, issued : Nat]
Family == [used : BOOLEAN, alive : BOOLEAN, gen : Nat]

NoCall == [pc |-> "idle", row |-> None, creds |-> None, now |-> 0]
GiveUp(t) == call' = [call EXCEPT ![t] =
                [NoCall EXCEPT !.pc = "stale", !.row = call[t].row]]
NoGrant == [pc |-> "idle", ext |-> None, creds |-> None,
            life |-> 0, issued |-> 0]
NoPage == [pc |-> "idle", gone |-> {}]

TypeInv ==
    /\ clock \in Nat
    /\ rows \in [Conn -> Row]
    /\ key \in Nat
    /\ idp \in [Fam -> Family]
    /\ call \in [Reader -> Call]
    /\ grant \in Grant
    /\ me \in [pc : {"idle", "connections"}, gone : SUBSET Conn]
    /\ faults \in Nat
    /\ spoiled \subseteq Conn
    /\ clean \subseteq Conn

Init ==
    /\ clock = 0
    /\ rows = [c \in Conn |-> NoRow]
    /\ key = 0
    /\ idp = [f \in Fam |-> [used |-> FALSE, alive |-> FALSE, gen |-> 0]]
    /\ call = [t \in Reader |-> NoCall]
    /\ grant = NoGrant
    /\ me = NoPage
    /\ faults = 0
    /\ spoiled = {} /\ clean = {}

Tick ==
    /\ clock < MaxClock
    /\ clock' = clock + 1
    /\ UNCHANGED <<rows, key, idp, call, grant, me,
                   faults, spoiled, clean>>

Live(c) == rows[c].live
Working(c) == {t \in Reader : call[t].row = c}   \* calls that read row c
Spoil(S) == spoiled' = spoiled \cup {c \in S : Live(c)}
Failure == faults < MaxFaults /\ faults' = faults + 1

-----------------------------------------------------------------------------
(* complete_grant behind its gates: exchange, identity, insert. *)

(* What _post_token_endpoint takes a token's lifetime for: an answer need  *)
(* not state expires_in.                                                   *)
Believed(l, stated) == IF stated THEN l ELSE DefaultLife

(* The gates passed, the source system redeems the code of an account m,   *)
(* with or without a refresh token.                                        *)
IdpIssues(m) ==
    /\ grant.pc = "idle"
    /\ \E c \in Conn : rows[c].status = "absent"
    /\ \E f \in Fam, l \in Lifetime, r \in BOOLEAN, stated \in BOOLEAN :
          /\ ~idp[f].used
          /\ idp' = [idp EXCEPT ![f] = [used |-> TRUE, alive |-> TRUE,
                                        gen |-> 0]]
          /\ grant' = [pc |-> "answered", ext |-> m,
                life |-> Believed(l, stated), issued |-> clock,
                creds |-> [fam |-> f, gen |-> 0, refresh |-> r, key |-> key,
                           real |-> clock + l, until |-> clock,
                           timely |-> stated]]
    /\ UNCHANGED <<clock, rows, key, call, me, faults, spoiled,
                   clean>>

(* _post_token_endpoint reads the clock when the answer is in: exchange    *)
(* passes it no "now".                                                     *)
Received(g) == [g.creds EXCEPT !.until = clock + g.life,
                               !.timely = @ /\ clock <= g.issued + Skew]

ReceiveGrant ==
    /\ grant.pc = "answered"
    /\ grant' = [pc |-> "received", ext |-> grant.ext, creds |-> Received(grant),
                 life |-> 0, issued |-> 0]
    /\ UNCHANGED <<clock, rows, key, idp, call, me, faults, spoiled, clean>>

(* Every way out before the insert: refusal, timeout, identity failure. *)
GrantFails ==
    /\ grant.pc # "idle"
    /\ grant' = NoGrant
    /\ UNCHANGED <<clock, rows, key, idp, call, me,
                   faults, spoiled, clean>>

HasDuplicate(m) == \E c \in Conn : Live(c) /\ rows[c].ext = m

(* The uniqueness check finds a live row, stale ones included. *)
RefuseDuplicate ==
    /\ grant.pc = "received"
    /\ HasDuplicate(grant.ext)
    /\ grant' = NoGrant
    /\ UNCHANGED <<clock, rows, key, idp, call, me, faults, spoiled, clean>>

(* Identity and health came in, the check found nothing, the row goes in:  *)
(* one step, because the user has one grant under way and nothing else     *)
(* makes a row live.                                                       *)
Insert ==
    /\ grant.pc = "received"
    /\ ~HasDuplicate(grant.ext)
    /\ \E c \in Conn :
          /\ rows[c].status = "absent"
          /\ rows' = [rows EXCEPT ![c] =
                [status |-> "connected", live |-> TRUE, ext |-> grant.ext,
                 creds |-> grant.creds]]
    /\ grant' = NoGrant
    /\ UNCHANGED <<clock, key, idp, call, me, faults, spoiled, clean>>

-----------------------------------------------------------------------------
(* get_valid_access_token. *)

(* Variant: the boundary second counts as fresh. *)
FreshOffByOne(k) == k.until - Skew >= clock

(* The stored access token may be handed out as it is. *)
Fresh(k) == k.until - Skew > clock

(* _fetch_connection_row, _decode_token_blob and the expiry test.  A call  *)
(* that returns at once, with a token or with None, changes nothing.       *)
Fetch(t, c) ==
    LET k == rows[c].creds
        Stale == call' = [call EXCEPT ![t] =
                    [NoCall EXCEPT !.pc = "stale", !.row = c]]
    IN  /\ call[t].pc = "idle"
        /\ rows[c].status = "connected"
        /\ k # None
        /\ \/ k.key # key /\ Stale /\ UNCHANGED spoiled
           \/ /\ k.key = key /\ ~Fresh(k)
              /\ IF k.refresh
                 THEN call' = [call EXCEPT ![t] =
                        [pc |-> "instance", row |-> c, creds |-> k,
                         now |-> clock]]
                 ELSE Stale
              /\ Spoil(IF Working(c) # {} THEN {c} ELSE {})
        /\ UNCHANGED <<clock, rows, key, idp, grant, me,
                       faults, clean>>

(* _fetch_instance and the adapter.  A disabled instance is refreshed too; *)
(* one that is gone, or whose configuration the adapter rejects, is not.   *)
LookUpInstance(t) ==
    /\ call[t].pc = "instance"
    /\ \/ call' = [call EXCEPT ![t].pc = "refresh"] /\ UNCHANGED spoiled
       \/ GiveUp(t) /\ Spoil({call[t].row})
    /\ UNCHANGED <<clock, rows, key, idp, grant, me, faults, clean>>

Honoured(k) == idp[k.fam].alive /\ idp[k.fam].gen = k.gen

(* What refresh_access_token returns: expires_at counts from the clock     *)
(* read before the row's refresh began, and the refresh token is the       *)
(* answer's, None if it has none.                                          *)
Refreshed(t, g, r, l, stated) ==
    [fam |-> call[t].creds.fam, gen |-> g, refresh |-> r, key |-> key,
     real |-> clock + l, until |-> call[t].now + Believed(l, stated),
     timely |-> stated]

(* The token endpoint answers.  Sources differ: a refresh token is         *)
(* replaced and the old one ends, kept, or left out of the answer.         *)
IdpRefreshes(t) ==
    LET k == call[t].creds
        Answer(g, r) ==
            /\ idp' = [idp EXCEPT ![k.fam].gen = g]
            /\ \E l \in Lifetime, stated \in BOOLEAN :
                  call' = [call EXCEPT
                             ![t].pc = "persist",
                             ![t].creds = Refreshed(t, g, r, l, stated),
                             ![t].now = 0]
    IN  /\ call[t].pc = "refresh"
        /\ Honoured(k)
        /\ \/ k.gen < MaxGen /\ Answer(k.gen + 1, TRUE) /\ UNCHANGED spoiled
           \/ Answer(k.gen, TRUE) /\ UNCHANGED spoiled
           \/ Answer(k.gen, FALSE) /\ Spoil({call[t].row})
        /\ UNCHANGED <<clock, rows, key, grant, me,
                       faults, clean>>

IdpRefuses(t) ==
    /\ call[t].pc = "refresh"
    /\ ~Honoured(call[t].creds)
    /\ GiveUp(t)
    /\ UNCHANGED <<clock, rows, key, idp, grant, me,
                   faults, spoiled, clean>>

(* No usable answer: unreachable, timeout, non-200, not JSON.  The source  *)
(* may have rotated the refresh token all the same.                        *)
AnswerLost(t) ==
    /\ call[t].pc \in {"refresh", "persist"}
    /\ Failure
    /\ GiveUp(t)
    /\ Spoil({call[t].row})
    /\ UNCHANGED <<clock, rows, key, idp, grant, me, clean>>

(* Variant: the answer's refresh token is not stored. *)
PersistAccessOnly(t) ==
    /\ call[t].pc = "persist"
    /\ rows' = [rows EXCEPT
          ![call[t].row].creds = [call[t].creds EXCEPT
                !.gen = IF rows[call[t].row].creds = None THEN 0
                        ELSE rows[call[t].row].creds.gen]]
    /\ call' = [call EXCEPT ![t] = NoCall]
    /\ UNCHANGED <<clock, key, idp, grant, me, faults,
                   spoiled, clean>>

(* Variant: a refreshed connection is set back to connected. *)
PersistConnected(t) ==
    /\ call[t].pc = "persist"
    /\ rows' = [rows EXCEPT ![call[t].row].creds = call[t].creds,
                            ![call[t].row].status = "connected"]
    /\ call' = [call EXCEPT ![t] = NoCall]
    /\ UNCHANGED <<clock, key, idp, grant, me, faults,
                   spoiled, clean>>

(* _persist_tokens: UPDATE ... WHERE id, whatever became of the row. *)
Persist(t) ==
    /\ call[t].pc = "persist"
    /\ rows' = [rows EXCEPT ![call[t].row].creds = call[t].creds]
    /\ call' = [call EXCEPT ![t] = NoCall]
    /\ UNCHANGED <<clock, key, idp, grant, me, faults,
                   spoiled, clean>>

(* Variant: the status has a name of its own for a failed refresh. *)
MarkExpired(t) ==
    /\ call[t].pc = "stale"
    /\ rows' = [rows EXCEPT ![call[t].row].status = "expired"]
    /\ call' = [call EXCEPT ![t] = NoCall]
    /\ UNCHANGED <<clock, key, idp, grant, me, faults, spoiled, clean>>

(* _mark_stale, likewise. *)
MarkStale(t) ==
    /\ call[t].pc = "stale"
    /\ rows' = [rows EXCEPT ![call[t].row].status = "stale"]
    /\ call' = [call EXCEPT ![t] = NoCall]
    /\ UNCHANGED <<clock, key, idp, grant, me, faults,
                   spoiled, clean>>

-----------------------------------------------------------------------------
(* Revocations, row by row and at any time: revoke keeps the credentials,  *)
(* the admin cascades wipe them.                                           *)

RevokeRow(c) ==
    /\ Live(c)
    /\ rows' = [rows EXCEPT ![c].status = "disconnected", ![c].live = FALSE]
    /\ spoiled' = spoiled \ {c}
    /\ UNCHANGED <<clock, key, idp, call, grant, me, faults, clean>>

(* Variant: the cascade's UPDATE leaves the credentials, as revoke's does. *)
KeepRow(c) ==
    /\ Live(c)
    /\ rows' = [rows EXCEPT ![c].status = "disconnected", ![c].live = FALSE]
    /\ clean' = IF Working(c) = {} THEN clean \cup {c} ELSE clean
    /\ spoiled' = spoiled \ {c}
    /\ UNCHANGED <<clock, key, idp, call, grant, me, faults>>

WipeRow(c) ==
    /\ Live(c)
    /\ rows' = [rows EXCEPT ![c].status = "disconnected", ![c].live = FALSE,
                            ![c].creds = None]
    /\ clean' = IF Working(c) = {} THEN clean \cup {c} ELSE clean
    /\ spoiled' = spoiled \ {c}
    /\ UNCHANGED <<clock, key, idp, call, grant, me, faults>>

(* The user, or the source's administrator, withdraws a consent there. *)
IdpWithdraws(f) ==
    /\ idp[f].alive
    /\ idp' = [idp EXCEPT ![f].alive = FALSE]
    /\ UNCHANGED <<clock, rows, key, call, grant, me,
                   faults, spoiled, clean>>

-----------------------------------------------------------------------------
(* GET /me: mapping and instances are read first; they decide whether the  *)
(* instance is on the page, here by any choice.                            *)

OpenMe ==
    /\ me.pc = "idle"
    /\ me' = [pc |-> "connections",
              gone |-> {c \in Conn : rows[c].status # "absent" /\ ~Live(c)}]
    /\ UNCHANGED <<clock, rows, key, idp, call, grant, faults,
                   spoiled, clean>>

(* Variant: the list drops disconnected rows by their status. *)
ListedByStatus == {c \in Conn : rows[c].status \in {"connected", "stale"}}

(* list_for_user: disconnected_at IS NULL. *)
Listed == {c \in Conn : Live(c)}

(* The page takes a row of the list per instance; then the LoginEvent is   *)
(* written, and the answer sent.                                           *)
ListConnections ==
    /\ me.pc = "connections"
    /\ me' = NoPage
    /\ UNCHANGED <<clock, rows, key, idp, call, grant, faults, spoiled, clean>>

-----------------------------------------------------------------------------
(* A call to ArcadeDB raises: get_valid_access_token ends where it is. *)
CallRaises(t) ==
    /\ call[t].pc # "idle"
    /\ Failure
    /\ call' = [call EXCEPT ![t] = NoCall]
    /\ Spoil({call[t].row})
    /\ UNCHANGED <<clock, rows, key, idp, grant, me, clean>>

(* The Hub restarts, perhaps with another master key. *)
Restart ==
    /\ Failure
    /\ \E k \in {key, key + 1} :
          /\ key' = k
          /\ Spoil(IF k = key THEN {c \in Conn : Working(c) # {}} ELSE Conn)
    /\ call' = [t \in Reader |-> NoCall]
    /\ grant' = NoGrant
    /\ me' = NoPage
    /\ UNCHANGED <<clock, rows, idp, clean>>

CallNext(t) ==
    \/ \E c \in Conn : Fetch(t, c)
    \/ LookUpInstance(t) \/ IdpRefreshes(t) \/ IdpRefuses(t)
    \/ Persist(t) \/ MarkStale(t)
    \/ AnswerLost(t) \/ CallRaises(t)

Next ==
    \/ Tick
    \/ \E m \in Mailbox : IdpIssues(m)
    \/ ReceiveGrant \/ RefuseDuplicate \/ Insert \/ GrantFails
    \/ \E t \in Reader : CallNext(t)
    \/ \E c \in Conn : RevokeRow(c) \/ WipeRow(c)
    \/ \E f \in Fam : IdpWithdraws(f)
    \/ OpenMe \/ ListConnections
    \/ Restart

Spec == Init /\ [][Next]_vars

-----------------------------------------------------------------------------
(* An access token get_valid_access_token would hand out without a refresh *)
(* is one the source system still honours, when its lifetime was stated    *)
(* and the code exchange's answer took no longer than clock_skew_seconds   *)
(* to arrive: the skew makes up for an expires_at that counts from then,   *)
(* and a refresh, however long it takes, counts from before it asks.       *)
ServableIsValid ==
    \A c \in Conn :
        LET k == rows[c].creds
        IN  k # None /\ k.timely /\ Fresh(k) => clock < k.real

(* The row of a connection that was revoked, by its user or by a cascade,  *)
(* serves no later call: no refresh or stale mark that lands afterwards    *)
(* makes it "connected".  (A call already under way may still return the   *)
(* token it refreshed.)                                                    *)
DisconnectedIsFinal ==
    \A c \in Conn : ~Live(c) => rows[c].status # "connected"

(* Credentials a cascade wiped stay wiped unless a get_valid_access_token  *)
(* that had read the row was under way: only _persist_tokens of such a     *)
(* call puts tokens into a disconnected row.                               *)
WipedStaysWiped == \A c \in clean : rows[c].creds = None

(* The Hub gives a connection up as stale only when it cannot be           *)
(* refreshed any more - the consent was withdrawn, or there never was a    *)
(* refresh token - except for these causes: two calls                      *)
(* refreshing one row, a lost or failed call, a missing or misconfigured   *)
(* instance, an answer without a refresh token, another master key.        *)
StaleMeansDead ==
    \A c \in Conn \ spoiled :
        Live(c) /\ rows[c].status = "stale" =>
            LET k == rows[c].creds IN ~k.refresh \/ ~idp[k.fam].alive

(* GET /me shows no connection that was revoked before the page was asked  *)
(* for, not even one a late _mark_stale gave another status.               *)
MeShowsHeld == me.pc = "connections" => Listed \cap me.gone = {}

=============================================================================
