------------------------------- MODULE HubDb -------------------------------
(***************************************************************************)
(* The Hub's ArcadeDB documents and the requests that work on them.        *)
(*                                                                         *)
(* Every request handler of the Hub is a coroutine that awaits one HTTP    *)
(* call to ArcadeDB (or to an identity provider) at a time and keeps the   *)
(* rest of its state in local variables.  One await is one atomic step of  *)
(* the model; between two steps any other request may run.  No handler     *)
(* opens a transaction and the schema has document types only, no unique   *)
(* index (storage/bootstrap.py), so nothing in the database orders them.   *)
(***************************************************************************)
EXTENDS Naturals, Sequences, FiniteSets

CONSTANTS
    User,        \* user_sub values
    Role,        \* realm roles
    RolesOf,     \* the roles in each user's token
    Instance,    \* IntegrationInstance ids
    Mailbox,     \* accounts a user can sign in to at the source system
    Flow,        \* OAuth flows, each named by the nonce in its state
    UserSlot,    \* user requests that may be in progress at a time
    AdminSlot,   \* admin requests that may be in progress at a time
    Serves,      \* the users whose requests a user slot carries
    None,        \* Python's None, and the empty external_subject
    Seeded,      \* instances created and enabled before the behaviour starts
    SeedMapping, \* the SIAM mapping saved before the behaviour starts
    MaxRows,     \* bound: IntegrationConnection rows
    MaxFaults    \* bound: requests cut short by a crash or a failed call

Slot == UserSlot \cup AdminSlot

(* The SIAM mapping: role -> instances its holders may connect to. *)
Mapping == [Role -> SUBSET Instance]
NoMapping == [ro \in Role |-> {}]

ASSUME RolesAssumption == RolesOf \in [User -> SUBSET Role]
ASSUME ServesAssumption == Serves \in [UserSlot -> SUBSET User]
ASSUME SeedAssumption == Seeded \subseteq Instance /\ SeedMapping \in Mapping
ASSUME BoundAssumption == MaxRows \in Nat /\ MaxFaults \in Nat

Ext == Mailbox \cup {None}

(* An authorization code: the flow whose PKCE challenge it is bound to and  *)
(* the account that signed in.                                             *)
Code == [flow : Flow, mailbox : Mailbox]

ASSUME NoneAssumption ==
    None \notin User \cup Instance \cup Mailbox \cup Flow \cup Code
               \cup [user : User, inst : Instance]

VARIABLES
    instances,  \* the enabled flags of the rows an instance id has
    siam,       \* the mappings of the rows SIAMMapping has
    conns,      \* IntegrationConnection rows in insertion order
    consents,   \* ConsentEvent rows
    trail,      \* what the latest AdminAuditEvent says of each target
    flows,      \* what each issued state decrypts to
    codes,      \* authorization codes the IdP issued and has not redeemed
    task,       \* the local variables of the request in each slot
    faults,     \* requests cut short so far
    disabledAt, \* history: rows that existed when the instance was disabled
    orphanedAt, \* history: ... when its last role mapping was removed
    racing,     \* history: grants that met between duplicate query and INSERT
    raced       \* history: the rows such grants inserted

dbVars == <<instances, siam, conns, consents, trail>>
idpVars == <<flows, codes>>
historyVars == <<disabledAt, orphanedAt, racing, raced>>
vars == <<instances, siam, conns, consents, trail, flows, codes, task, faults,
          disabledAt, orphanedAt, racing, raced>>

Status == {"stub-connected", "connected", "disconnected"}

(* live is "disconnected_at IS NULL".  creds is the code the stored tokens *)
(* were exchanged for.  A row's id is user:inst:seq and is not stored.     *)
Connection == [user : User, inst : Instance, seq : Nat, ext : Ext,
               status : Status, live : BOOLEAN, creds : Code \cup {None}]

Revocations == {"revoked", "revoked-by-admin-disable",
                "revoked-by-admin-delete", "revoked-by-siam-change"}

ConsentEvent == [action : {"granted"} \cup Revocations, user : User,
                 inst : Instance, seq : Nat, ext : Ext]

Trail == [flag : [Instance -> SUBSET BOOLEAN], siam : Mapping]

GrantPc == {"grant_siam", "complete_siam", "exchange", "dup", "seq",
            "insert", "granted"}

Pc == {"idle"} \cup GrantPc
      \cup {"mint", "revoke", "revoked"}
      \cup {"update", "update_audit", "cascade", "wipe", "wiped",
            "delete", "delete_audit", "create", "create_audit"}
      \cup {"siam_check", "siam_write", "siam_readback", "siam_audit",
            "siam_cascade", "siam_wipe", "siam_wiped"}

Task == [pc : Pc, user : User \cup {None}, inst : Instance \cup {None},
         ext : Ext, flow : Flow \cup {None}, code : Code \cup {None},
         seq : Nat,
         todo : SUBSET Nat,   \* rows a revoke loop has still to visit
         cur : Nat,           \* the row the loop is at
         why : Revocations,
         was : BOOLEAN, will : BOOLEAN,     \* enabled before and after
         prev : Mapping, next : Mapping]    \* mapping before and after

Idle == [pc |-> "idle", user |-> None, inst |-> None, ext |-> None,
         flow |-> None, code |-> None, seq |-> 0, todo |-> {}, cur |-> 0,
         why |-> "revoked", was |-> FALSE, will |-> FALSE,
         prev |-> NoMapping, next |-> NoMapping]

TypeOK ==
    /\ instances \in [Instance -> SUBSET BOOLEAN]
    /\ siam \subseteq Mapping
    /\ conns \in Seq(Connection)
    /\ consents \subseteq ConsentEvent
    /\ trail \in Trail
    /\ flows \in [Flow -> [user : User, inst : Instance] \cup {None}]
    /\ codes \subseteq Code
    /\ task \in [Slot -> Task]
    /\ faults \in Nat
    /\ disabledAt \in [Instance -> Nat]
    /\ orphanedAt \in [Instance -> Nat]
    /\ racing \subseteq Slot
    /\ raced \subseteq Nat

(* The database after an administrator has created the seeded instances    *)
(* and saved the seeded mapping; a deployment nobody configured yet is     *)
(* Seeded = {} and SeedMapping = NoMapping.                                *)
DbInit ==
    /\ instances = [i \in Instance |-> IF i \in Seeded THEN {TRUE} ELSE {}]
    /\ siam = IF SeedMapping = NoMapping THEN {} ELSE {SeedMapping}
    /\ conns = <<>>
    /\ consents = {}
    /\ trail = [flag |-> instances, siam |-> SeedMapping]
    /\ flows = [f \in Flow |-> None]
    /\ codes = {}
    /\ task = [t \in Slot |-> Idle]
    /\ faults = 0
    /\ disabledAt = [i \in Instance |-> 0]
    /\ orphanedAt = [i \in Instance |-> 0]
    /\ racing = {}
    /\ raced = {}

-----------------------------------------------------------------------------
(* Queries.  Where more than one row matches, the code takes rows[0] of an *)
(* unordered result: any of them.                                          *)

Rows == DOMAIN conns
LiveRows == {r \in Rows : conns[r].live}
LiveOn(i) == {r \in LiveRows : conns[r].inst = i}
LiveOf(u, i) == {r \in LiveOn(i) : conns[r].user = u}

SameId(r, q) ==
    /\ conns[r].user = conns[q].user
    /\ conns[r].inst = conns[q].inst
    /\ conns[r].seq = conns[q].seq

(* SIAMService.get: the saved mapping, empty if none was saved. *)
SiamResult == IF siam = {} THEN {NoMapping} ELSE siam

(* Variant: any mapped role will do, whoever holds it. *)
AuthorizesAnyone(m, u, i) == \E ro \in Role : i \in m[ro]

Authorizes(m, u, i) == \E ro \in RolesOf[u] : i \in m[ro]
Orphan(m, i) == \A ro \in Role : i \notin m[ro]

(* UPDATE ... SET status = 'disconnected', disconnected_at = ... WHERE id, *)
(* which reaches every row that has the id.                                *)
Disconnect(r, wipe) ==
    [q \in Rows |->
        IF SameId(r, q)
        THEN [conns[q] EXCEPT !.status = "disconnected", !.live = FALSE,
                              !.creds = IF wipe THEN None ELSE @]
        ELSE conns[q]]

EventFor(r, action) ==
    [action |-> action, user |-> conns[r].user, inst |-> conns[r].inst,
     seq |-> conns[r].seq, ext |-> conns[r].ext]

-----------------------------------------------------------------------------
(* Moving a request from one await to the next. *)

At(t, pc) == task[t].pc = pc
Goto(t, pc) == task' = [task EXCEPT ![t].pc = pc]
Finish(t) == task' = [task EXCEPT ![t] = Idle]

(* Variant: a loop that never drops the row it visited. *)
VisitRowForEver(t, wipe, pc) ==
    \E r \in task[t].todo :
        /\ conns' = Disconnect(r, wipe)
        /\ task' = [task EXCEPT ![t].pc = pc, ![t].cur = r]

(* One turn of a revoke loop, first half: the row's UPDATE. *)
VisitRow(t, wipe, pc) ==
    \E r \in task[t].todo :
        /\ conns' = Disconnect(r, wipe)
        /\ task' = [task EXCEPT ![t].pc = pc, ![t].cur = r,
                                ![t].todo = @ \ {r}]

(* Second half: its ConsentEvent; then the next row or the loop's end. *)
RecordRevocation(t) ==
    consents' = consents \cup {EventFor(task[t].cur, task[t].why)}

=============================================================================
