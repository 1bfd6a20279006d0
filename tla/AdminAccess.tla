---------------------------- MODULE AdminAccess ----------------------------
(***************************************************************************)
(* Who gets at the admin surface: the SIAM token's verification            *)
(* (JwksCache), require_admin with its auto-disable hook, and the local    *)
(* account the hook disables (LocalAdmin), in one Hub process that may be  *)
(* restarted.  A request with a local token only has its signature, expiry *)
(* and scope checked, changes nothing and is not a step.                   *)
(***************************************************************************)
EXTENDS JwksCache, LocalAdmin

VARIABLE flag   \* app.state.local_admin_disable_state

vars == <<clockVars, jwksVars, localVars, flag>>

TypeInv ==
    /\ clock \in Nat /\ events \in Nat
    /\ JwksTypeOK /\ LocalTypeOK
    /\ flag \in {"pending", "settled"}

Init == ClockInit /\ JwksInit /\ LocalInit /\ flag = "pending"

-----------------------------------------------------------------------------
(* require_admin, and the hook on the first SIAM administrator it sees.    *)

At(t, pc) == req[t].pc = pc
Goto(t, pc) == Become(t, [req[t] EXCEPT !.pc = pc])
InRequest == UNCHANGED <<clockVars, jwks, holder, published, removedAt>>
KeepLocal == UNCHANGED <<account, hits, login, cli, admitted, fails, mixed>>

(* Variant: the flag is set before the account is looked at. *)
GateFlagsFirst(t) ==
    /\ At(t, "verified")
    /\ \/ Refuse(t, req[t], "role") /\ UNCHANGED flag
       \/ flag = "settled" /\ Goto(t, "served") /\ UNCHANGED flag
       \/ flag = "pending" /\ Goto(t, "disable") /\ flag' = "settled"
    /\ InRequest /\ KeepLocal /\ UNCHANGED reset

(* Whether the token's roles include the provider's admin role is the      *)
(* token's business.                                                       *)
Gate(t) ==
    /\ At(t, "verified")
    /\ \/ Refuse(t, req[t], "role")
       \/ flag = "settled" /\ Goto(t, "served")
       \/ flag = "pending" /\ Goto(t, "disable")
    /\ InRequest /\ KeepLocal /\ UNCHANGED <<reset, flag>>

(* disable_on_siam_admin_login looks at the bootstrap account, ... *)
DisableFetch(t) ==
    /\ At(t, "disable")
    /\ \/ /\ account[Bootstrap].enabled
          /\ Goto(t, "disable_write") /\ UNCHANGED <<reset, flag>>
       \/ /\ ~account[Bootstrap].enabled
          /\ Goto(t, "served") /\ reset' = FALSE /\ flag' = "settled"
    /\ InRequest /\ KeepLocal

(* ... disables it as it is by then, ... *)
DisableWrite(t) ==
    /\ At(t, "disable_write")
    /\ account' = [account EXCEPT ![Bootstrap].enabled = FALSE]
    /\ Goto(t, "disable_event")
    /\ reset' = FALSE
    /\ InRequest
    /\ UNCHANGED <<hits, login, cli, admitted, fails, mixed, flag>>

(* ... and records it.  Only now does the process stop asking. *)
DisableEvent(t) ==
    /\ At(t, "disable_event")
    /\ Goto(t, "served")
    /\ flag' = "settled"
    /\ InRequest /\ KeepLocal /\ UNCHANGED reset

(* A call to ArcadeDB raises: the request fails, the flag stays. *)
DisableRaises(t) ==
    /\ req[t].pc \in {"disable", "disable_write", "disable_event"}
    /\ Refuse(t, req[t], "error")
    /\ Happens
    /\ UNCHANGED <<jwks, holder, published, removedAt>>
    /\ KeepLocal /\ UNCHANGED <<reset, flag>>

Reply(t) ==
    /\ req[t].pc \in {"served", "refused"}
    /\ Become(t, NoReq)
    /\ InRequest /\ KeepLocal /\ UNCHANGED <<reset, flag>>

GateNext(t) ==
    \/ Gate(t) \/ DisableFetch(t) \/ DisableWrite(t) \/ DisableEvent(t)
    \/ DisableRaises(t) \/ Reply(t)

(* The Hub stops and starts: requests, lock, cache, windows and flag are   *)
(* gone; the accounts and a create-admin under way are not.                *)
Restart ==
    /\ jwks' \in Warm
    /\ holder' = None
    /\ req' = [t \in Request |-> NoReq]
    /\ login' = [s \in Login |-> NoLogin]
    /\ hits' = [k \in Key |-> NoHits]
    /\ admitted' = [u \in Name |-> {}]
    /\ mixed' = [u \in Name |-> TRUE]
    /\ flag' = "pending" /\ reset' = FALSE
    /\ Happens
    /\ UNCHANGED <<published, removedAt, account, cli, fails>>

Tick ==
    /\ clock < MaxClock
    /\ clock' = clock + 1
    /\ UNCHANGED <<events, jwksVars, localVars, flag>>

Next ==
    \/ JwksNext /\ UNCHANGED <<localVars, flag>>
    \/ LocalNext /\ UNCHANGED <<jwksVars, flag>>
    \/ \E t \in Request : GateNext(t)
    \/ Restart
    \/ Tick

Spec == Init /\ [][Next]_vars

-----------------------------------------------------------------------------
(* Once a process has let a SIAM administrator onto the admin surface, the *)
(* bootstrap account is gone or disabled, unless create-admin has written  *)
(* it since the process started or last saw it so: no failed call,         *)
(* overtaken request or login under way leaves it open with the process    *)
(* believing it shut. A later create-admin is an exception, because the    *)
(* process takes no notice of it until it restarts, whatever docs/admin-   *)
(* bootstrap.md says of the next SIAM sign-in.                             *)
SiamAdminDisablesLocal ==
    flag = "settled" \/ (\E t \in Request : At(t, "served")) =>
        ~account[Bootstrap].enabled \/ reset

=============================================================================
