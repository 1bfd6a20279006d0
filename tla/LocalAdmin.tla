----------------------------- MODULE LocalAdmin -----------------------------
(***************************************************************************)
(* LocalAdminService: the break-glass login with its rate limit and        *)
(* lockout, and the create-admin command that (re)creates an account.      *)
(***************************************************************************)
EXTENDS HubClock, Sequences

CONSTANTS
    Ip,        \* client addresses
    Name,      \* usernames that logins and create-admin name
    Bootstrap, \* _BOOTSTRAP_USERNAME, create-admin's default
    Login,     \* login requests that may be under way
    Window,    \* 60 seconds
    Limit,     \* rate_limit_per_minute
    Threshold, \* failed_attempts_threshold
    Lockout    \* lockout_duration_seconds

ASSUME LimitAssumption ==
    /\ Window \in Nat /\ Limit \in Nat
    /\ Threshold \in Nat \ {0} /\ Lockout \in Nat \ {0}

ASSUME NamesAssumption == Bootstrap \in Name /\ None \notin Name /\ Ip \cap Name = {}

VARIABLES
    account,  \* the LocalAdmin rows, there is FALSE without one
    hits,     \* the rate limiter: the times of the hits on each key
    login,    \* the login requests
    cli,      \* the create-admin command: a process of its own
    admitted, \* history: which hits on a username passed both limits
    fails,    \* history: failed passwords since the last success or create-admin
    mixed,    \* history: since then, another request or command overlapped one
    reset     \* history: create-admin wrote the bootstrap account since the Hub
              \* started or saw it disabled

localVars == <<account, hits, login, cli, admitted, fails, mixed, reset>>

Key == Ip \cup Name   \* "ip:..." and "user:..."

(* locked is 0 for no locked_until; password is the number of create-admin *)
(* runs the password comes from.                                           *)
Account == [there : BOOLEAN, enabled : BOOLEAN, password : Nat,
            attempts : Nat, locked : Nat]

NoAccount == [there |-> FALSE, enabled |-> FALSE, password |-> 0,
              attempts |-> 0, locked |-> 0]

(* What create-admin writes. *)
Created(p) == [there |-> TRUE, enabled |-> TRUE, password |-> p,
               attempts |-> 0, locked |-> 0]

(* attempts and locked are what a failed login is about to write. *)
LoginTask == [pc : {"idle", "fetch", "fail", "ok", "event", "ok_event"},
              name : Name \cup {None}, password : Int,
              attempts : Nat, locked : Nat]

NoLogin == [pc |-> "idle", name |-> None, password |-> -1,
            attempts |-> 0, locked |-> 0]

Cli == [pc : {"idle", "write", "event"}, name : Name \cup {None}]
NoCli == [pc |-> "idle", name |-> None]

LocalTypeOK ==
    /\ account \in [Name -> Account]
    /\ hits \in [Key -> Seq(Nat)]
    /\ login \in [Login -> LoginTask]
    /\ cli \in Cli
    /\ admitted \in [Name -> SUBSET Nat]
    /\ fails \in [Name -> Nat]
    /\ mixed \in [Name -> BOOLEAN] /\ reset \in BOOLEAN

NoHits == <<>>

LocalInit ==
    /\ account \in [Name -> {NoAccount, Created(0)}]
    /\ hits = [k \in Key |-> NoHits]
    /\ login = [s \in Login |-> NoLogin]
    /\ cli = NoCli
    /\ admitted = [u \in Name |-> {}]
    /\ fails = [u \in Name |-> 0]
    /\ mixed = [u \in Name |-> FALSE] /\ reset = FALSE

-----------------------------------------------------------------------------
(* What hit_and_check keeps of a bucket; no later hit counts the others.   *)
Recent(h) == {n \in DOMAIN h : h[n] >= clock - Window}

(* hit_and_check: the hit that is being made is one of at most Limit in    *)
(* the window; hits that were refused count too.                           *)
UnderLimit(h) == Cardinality(Recent(h)) < Limit

Hit(h) == Append(h, clock)

(* Variant: only the address is limited. *)
AdmitsByAddress(ip, u) == UnderLimit(hits[ip])

Admits(ip, u) == UnderLimit(hits[ip]) /\ UnderLimit(hits[u])

(* The logins under way for username u. *)
Busy(u) == {s \in Login : login[s].name = u}

(* Login s goes on to pc. *)
Then(s, pc) == [NoLogin EXCEPT !.pc = pc, !.name = login[s].name]

(* login, up to its first await: the address's limit, then the user's, who *)
(* is hit only when the address was not refused.                           *)
LoginArrives(s, ip, u, p) ==
    /\ login[s].pc = "idle"
    /\ LET hit == IF UnderLimit(hits[ip]) THEN {ip, u} ELSE {ip}
           ok == Admits(ip, u)
       IN  /\ hits' = [k \in Key |-> IF k \in hit THEN Hit(hits[k])
                                                ELSE hits[k]]
           /\ login' = [login EXCEPT ![s] =
                 [NoLogin EXCEPT !.pc = IF ok THEN "fetch" ELSE "event",
                                 !.name = u,
                                 !.password = IF ok THEN p ELSE -1]]
           /\ admitted' = [admitted EXCEPT ![u] =
                 IF ok THEN @ \cup {Len(hits[u]) + 1} ELSE @]
    /\ mixed' = [mixed EXCEPT ![u] = @ \/ Busy(u) # {} \/ cli.name = u]
    /\ Happens
    /\ UNCHANGED <<account, cli, fails, reset>>

(* Variant: the lockout begins one failure late. *)
AfterFailureLate(a) ==
    [attempts |-> a.attempts + 1,
     locked |-> IF a.attempts >= Threshold THEN clock + Lockout ELSE 0]

(* Variant: failed_attempts counts down to the lockout. *)
AfterFailureDown(a) ==
    [attempts |-> a.attempts - 1,
     locked |-> IF a.attempts - 1 <= -Threshold THEN clock + Lockout ELSE 0]

(* _record_failed_attempt: from the row as this login read it. *)
AfterFailure(a) ==
    [attempts |-> a.attempts + 1,
     locked |-> IF a.attempts + 1 >= Threshold THEN clock + Lockout ELSE 0]

(* The row, and every decision login takes from it. *)
LoginFetch(s) ==
    /\ login[s].pc = "fetch"
    /\ LET u == login[s].name
           row == account[u]
           open == row.there /\ row.enabled /\ row.locked <= clock
           right == login[s].password = row.password
       IN  /\ login' = [login EXCEPT ![s] =
                 IF ~open THEN Then(s, "event")
                 ELSE IF right THEN Then(s, "ok")
                 ELSE [Then(s, "fail") EXCEPT
                          !.attempts = AfterFailure(row).attempts,
                          !.locked = AfterFailure(row).locked]]
           /\ fails' = [fails EXCEPT ![u] = IF open /\ ~right THEN @ + 1 ELSE @]
    /\ Quietly
    /\ UNCHANGED <<account, hits, cli, admitted, mixed, reset>>

(* UPDATE ... SET failed_attempts, locked_until. *)
RecordFailure(s) ==
    /\ login[s].pc = "fail"
    /\ account' = [account EXCEPT ![login[s].name].attempts = login[s].attempts,
                                  ![login[s].name].locked = login[s].locked]
    /\ login' = [login EXCEPT ![s] = Then(s, "event")]
    /\ Quietly
    /\ UNCHANGED <<hits, cli, admitted, fails, mixed, reset>>

(* UPDATE ... SET failed_attempts = 0, locked_until = null; then the token *)
(* is signed.  It stays valid for its time to live whatever becomes of the *)
(* account.                                                                *)
RecordSuccess(s) ==
    /\ login[s].pc = "ok"
    /\ LET u == login[s].name
       IN  /\ account' = [account EXCEPT ![u].attempts = 0, ![u].locked = 0]
           /\ fails' = [fails EXCEPT ![u] = 0]
           /\ mixed' = [mixed EXCEPT ![u] = Busy(u) # {s} \/ cli.name = u]
    /\ login' = [login EXCEPT ![s] = Then(s, "ok_event")]
    /\ Quietly
    /\ UNCHANGED <<hits, cli, admitted, reset>>

(* The LocalAdminLoginEvent, and the reply. *)
LoginEvent(s) ==
    /\ login[s].pc \in {"event", "ok_event"}
    /\ login' = [login EXCEPT ![s] = NoLogin]
    /\ Quietly
    /\ UNCHANGED <<account, hits, cli, admitted, fails, mixed, reset>>

(* A call to ArcadeDB raises in the middle of a login. *)
LoginRaises(s) ==
    /\ login[s].pc # "idle"
    /\ login' = [login EXCEPT ![s] = NoLogin]
    /\ mixed' = [mixed EXCEPT ![login[s].name] = TRUE]
    /\ Happens
    /\ UNCHANGED <<account, hits, cli, admitted, fails, reset>>

-----------------------------------------------------------------------------
(* create-admin: look, write the whole row, leave a trace.  One operator.  *)
CliStarts(u) ==
    /\ cli = NoCli
    /\ cli' = [pc |-> "write", name |-> u]
    /\ mixed' = [mixed EXCEPT ![u] = @ \/ Busy(u) # {}]
    /\ Happens
    /\ UNCHANGED <<account, hits, login, admitted, fails, reset>>

CliWrites ==
    /\ cli.pc = "write"
    /\ LET u == cli.name
       IN  /\ account' = [account EXCEPT ![u] = Created(@.password + 1)]
           /\ fails' = [fails EXCEPT ![u] = 0]
           /\ mixed' = [mixed EXCEPT ![u] = Busy(u) # {}]
           /\ reset' = (reset \/ u = Bootstrap)
    /\ cli' = [cli EXCEPT !.pc = "event"]
    /\ Quietly
    /\ UNCHANGED <<hits, login, admitted>>

CliEnds ==
    /\ cli.pc = "event"
    /\ cli' = NoCli
    /\ Quietly
    /\ UNCHANGED <<account, hits, login, admitted, fails, mixed, reset>>

(* The current password, or one that is not; the current one may be        *)
(* replaced before the login compares it.                                  *)
Passwords(u) == {account[u].password, -1}

LoginNext(s) ==
    \/ \E ip \in Ip, u \in Name : \E p \in Passwords(u) :
          LoginArrives(s, ip, u, p)
    \/ LoginFetch(s) \/ RecordFailure(s) \/ RecordSuccess(s)
    \/ LoginEvent(s) \/ LoginRaises(s)

LocalNext ==
    \/ \E s \in Login : LoginNext(s)
    \/ \E u \in Name : CliStarts(u)
    \/ CliWrites \/ CliEnds

-----------------------------------------------------------------------------
(* However logins interleave and from whichever addresses they come, no    *)
(* minute, both ends included, admits more than rate_limit_per_minute of   *)
(* them for one username, until a restart empties the windows.             *)
AdmissionsBounded ==
    \A u \in Name, t \in 0..MaxClock :
        Cardinality({n \in admitted[u] : hits[u][n] \in t..(t + Window)})
            <= Limit

(* As long as logins to an account come one after the other, its stored    *)
(* count is that of the failed passwords since the last success or         *)
(* create-admin, and it is locked exactly when they reached the threshold. *)
LockoutCounts ==
    \A u \in Name : ~mixed[u] /\ Busy(u) = {} =>
        /\ account[u].attempts = fails[u]
        /\ account[u].locked > 0 <=> fails[u] >= Threshold

=============================================================================
