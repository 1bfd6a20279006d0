------------------------------- MODULE Ledger -------------------------------
(***************************************************************************)
(* What the Hub promises about connections, without requests, awaits or    *)
(* rows: two gates, and the set of active connections.  Closing a gate     *)
(* disconnects in the same step every connection it shuts out.             *)
(***************************************************************************)
CONSTANTS User, Role, RolesOf, Instance, Ext

VARIABLES enabled,  \* instances that exist and are enabled
          mapping,  \* the SIAM mapping
          active    \* active connections

Pair == [user : User, inst : Instance, ext : Ext]

LedgerInit ==
    /\ enabled \subseteq Instance
    /\ mapping \in [Role -> SUBSET Instance]
    /\ active = {}

Connect(u, i, e) ==
    /\ i \in enabled
    /\ \E ro \in RolesOf[u] : i \in mapping[ro]
    /\ [user |-> u, inst |-> i, ext |-> e] \notin active
    /\ active' = active \cup {[user |-> u, inst |-> i, ext |-> e]}
    /\ UNCHANGED <<enabled, mapping>>

DisconnectUser(u, i) ==
    /\ active' = {p \in active : ~(p.user = u /\ p.inst = i)}
    /\ active' # active
    /\ UNCHANGED <<enabled, mapping>>

Open(i) ==
    /\ enabled' = enabled \cup {i}
    /\ UNCHANGED <<mapping, active>>

Close(i) ==
    /\ enabled' = enabled \ {i}
    /\ active' = {p \in active : p.inst # i}
    /\ UNCHANGED mapping

(* Only an instance no role maps any more loses its connections. *)
Remap(m) ==
    /\ mapping' = m
    /\ active' = {p \in active : \E ro \in Role : p.inst \in m[ro]}
    /\ UNCHANGED enabled

LedgerNext ==
    \/ \E u \in User, i \in Instance :
          DisconnectUser(u, i) \/ \E e \in Ext : Connect(u, i, e)
    \/ \E i \in Instance : Open(i) \/ Close(i)
    \/ \E m \in [Role -> SUBSET Instance] : Remap(m)

LedgerSpec ==
    LedgerInit /\ [][LedgerNext]_<<enabled, mapping, active>>

=============================================================================
