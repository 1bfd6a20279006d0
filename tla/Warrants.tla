------------------------------ MODULE Warrants ------------------------------
(***************************************************************************)
(* What the Hub keeps to however its requests overlap and wherever they    *)
(* are cut short: a connection is opened, closed and entered in the log of *)
(* ConsentEvents only by a request that has earned it, step by step.       *)
(***************************************************************************)
CONSTANTS User, Role, RolesOf, Instance, Ext, Request

VARIABLES open,   \* instances that can be fetched as enabled
          saved,  \* the mappings a read of SIAMMapping may return
          live,   \* the live connections
          log,    \* ConsentEvents
          holds   \* what each request has earned so far

warrantVars == <<open, saved, live, log, holds>>

Nothing == [kind |-> "nothing"]

Earns(r, what) == holds' = [holds EXCEPT ![r] = what]

EntriesOf(x, action) ==
    {[action |-> action, user |-> x.user, inst |-> x.inst, seq |-> x.seq,
      ext |-> x.ext]}

WarrantsInit ==
    /\ open \subseteq Instance
    /\ saved # {} /\ saved \subseteq [Role -> SUBSET Instance]
    /\ live = {}
    /\ log = {}
    /\ holds = [r \in Request |-> Nothing]

-----------------------------------------------------------------------------
(* A connection: gate 1, then gate 2, then the duplicate query.  Each was  *)
(* passed by this very request, but any of them may have closed since.     *)

Admit(r, u, i) ==
    /\ holds[r] = Nothing
    /\ i \in open
    /\ Earns(r, [kind |-> "admitted", user |-> u, inst |-> i])
    /\ UNCHANGED <<open, saved, live, log>>

Permit(r) ==
    /\ holds[r].kind = "admitted"
    /\ \E m \in saved, ro \in RolesOf[holds[r].user] :
          holds[r].inst \in m[ro]
    /\ Earns(r, [kind |-> "permitted", user |-> holds[r].user,
                 inst |-> holds[r].inst])
    /\ UNCHANGED <<open, saved, live, log>>

Clear(r, e) ==
    /\ holds[r].kind = "permitted"
    /\ \A x \in live : ~ /\ x.user = holds[r].user
                         /\ x.inst = holds[r].inst
                         /\ x.ext = e
    /\ Earns(r, [kind |-> "clear", user |-> holds[r].user,
                 inst |-> holds[r].inst, ext |-> e])
    /\ UNCHANGED <<open, saved, live, log>>

Connect(r) ==
    /\ holds[r].kind = "clear"
    /\ \E x \in live' : /\ x.user = holds[r].user
                        /\ x.inst = holds[r].inst
                        /\ x.ext = holds[r].ext
                        /\ live' = live \cup {x}
                        /\ Earns(r, [kind |-> "connected", key |-> x])
    /\ UNCHANGED <<open, saved, log>>

LogConnect(r) ==
    /\ holds[r].kind = "connected"
    /\ log' = log \cup EntriesOf(holds[r].key, "granted")
    /\ Earns(r, Nothing)
    /\ UNCHANGED <<open, saved, live>>

-----------------------------------------------------------------------------
(* A warrant: an administrator has written enabled=false, asked for the    *)
(* delete, or read back a mapping without a role for the instances.  It is *)
(* for all connections on them that are live when the query runs, and so   *)
(* is a user's own revoke.                                                 *)

Order(r, action, insts) ==
    /\ holds[r] = Nothing
    /\ Earns(r, [kind |-> "order", action |-> action, insts |-> insts])
    /\ UNCHANGED <<live, log>>

OrderDisable(r, i) ==
    /\ Order(r, "revoked-by-admin-disable", {i})
    /\ open' = open \ {i}
    /\ UNCHANGED saved

OrderDelete(r, i) ==
    /\ Order(r, "revoked-by-admin-delete", {i})
    /\ UNCHANGED <<open, saved>>

OrderUnmapped(r, insts) ==
    /\ Order(r, "revoked-by-siam-change", insts)
    /\ \E m \in saved : \A i \in insts, ro \in Role : i \notin m[ro]
    /\ UNCHANGED <<open, saved>>

Sentence(r, action, keys) ==
    /\ keys # {}
    /\ Earns(r, [kind |-> "sentence", action |-> action, keys |-> keys])
    /\ UNCHANGED <<open, saved, live, log>>

SentenceOwn(r, u, i) ==
    /\ holds[r] = Nothing
    /\ Sentence(r, "revoked", {x \in live : x.user = u /\ x.inst = i})

SentenceOrdered(r) ==
    /\ holds[r].kind = "order"
    /\ Sentence(r, holds[r].action, {x \in live : x.inst \in holds[r].insts})

(* Two rows of one key, or of one id, may meet in one sentence. *)
Close(r) ==
    /\ holds[r].kind = "sentence"
    /\ \E x \in holds[r].keys :
          /\ live' = {y \in live : ~ /\ y.user = x.user
                                     /\ y.inst = x.inst
                                     /\ y.seq = x.seq}
          /\ \E rest \in {holds[r].keys, holds[r].keys \ {x}} :
                Earns(r, [kind |-> "closed", action |-> holds[r].action,
                          keys |-> rest, key |-> x])
    /\ UNCHANGED <<open, saved, log>>

LogClose(r) ==
    /\ holds[r].kind = "closed"
    /\ log' = log \cup EntriesOf(holds[r].key, holds[r].action)
    /\ \/ Earns(r, Nothing)
       \/ Earns(r, [kind |-> "sentence", action |-> holds[r].action,
                    keys |-> holds[r].keys])
    /\ UNCHANGED <<open, saved, live>>

-----------------------------------------------------------------------------
(* A request ends, or is cut short. *)
End(r) == Earns(r, Nothing) /\ UNCHANGED <<open, saved, live, log>>

(* Administrators move the gates. *)
MoveGates ==
    /\ \/ /\ \E i \in Instance : open' = open \cup {i} \/ open' = open \ {i}
          /\ UNCHANGED saved
       \/ /\ \E m \in [Role -> SUBSET Instance] :
                saved' = {m} \/ saved' = saved \cup {m}
          /\ UNCHANGED open
    /\ UNCHANGED <<live, log, holds>>

WarrantsNext ==
    \/ \E r \in Request :
          \/ \E u \in User, i \in Instance : Admit(r, u, i)
                                             \/ SentenceOwn(r, u, i)
          \/ \E e \in Ext : Clear(r, e)
          \/ Permit(r) \/ Connect(r) \/ LogConnect(r)
          \/ \E i \in Instance : OrderDisable(r, i) \/ OrderDelete(r, i)
          \/ \E insts \in SUBSET Instance : OrderUnmapped(r, insts)
          \/ SentenceOrdered(r) \/ Close(r) \/ LogClose(r)
          \/ End(r)
    \/ MoveGates

WarrantsSpec == WarrantsInit /\ [][WarrantsNext]_warrantVars

=============================================================================
