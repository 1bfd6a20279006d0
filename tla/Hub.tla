-------------------------------- MODULE Hub --------------------------------
(***************************************************************************)
(* The Hub's connection ledger: user requests (Connections) and admin      *)
(* requests (AdminCascades) interleaving at every await, the identity      *)
(* provider, and requests cut short.                                       *)
(***************************************************************************)
EXTENDS Connections, AdminCascades

(* A request dies between two awaits: the process stops or is restarted, or *)
(* a call to ArcadeDB raises and the exception leaves the handler.  What it *)
(* has written stays; nothing resumes it.  Bound MaxFaults.                *)
CutShort(t) ==
    /\ ~At(t, "idle")
    /\ faults < MaxFaults
    /\ faults' = faults + 1
    /\ Finish(t)
    /\ UNCHANGED <<dbVars, idpVars, historyVars>>

Continues(t) == UserContinues(t) \/ AdminContinues(t)

Init == DbInit

Next ==
    \/ \E t \in Slot : \/ UserStarts(t)
                       \/ AdminStarts(t)
                       \/ Continues(t)
                       \/ CutShort(t)
    \/ \E f \in Flow, m \in Mailbox : IdpAuthorize(f, m)

Spec == Init /\ [][Next]_vars

(* The event loop resumes every coroutine and every HTTP call returns or   *)
(* times out, so a request under way takes its next step.  Nothing makes a *)
(* user, an administrator or the identity provider act.                    *)
FairSpec == Spec /\ \A t \in Slot : WF_vars(Continues(t))

-----------------------------------------------------------------------------
(* What a request's local variables hold at each await; the type of the    *)
(* tables depends on it.                                                   *)
LoopPc == {"revoked", "wiped", "siam_wiped"}
GrantPath == GrantPc \cup {"mint", "revoke", "revoked"}
AdminPath == {"update", "update_audit", "cascade", "wipe", "wiped", "delete",
              "delete_audit", "create", "create_audit"}

LocalOK(x, rows) ==
    /\ x.todo \subseteq rows
    /\ x.pc \in LoopPc => x.cur \in rows
    /\ x.pc \in GrantPath => x.user \in User
    /\ x.pc \in GrantPath \cup AdminPath => x.inst \in Instance
    /\ x.pc \in {"complete_siam", "exchange"}
          => x.code \in Code /\ x.flow \in Flow

LocalsOK == \A t \in Slot : LocalOK(task[t], Rows)

TypeInv == TypeOK /\ LocalsOK

-----------------------------------------------------------------------------
(* Safety under every interleaving. *)

(* Every IntegrationConnection row has its "granted" ConsentEvent, or the  *)
(* request that inserted it is about to write it, as long as no request    *)
(* was cut short (grant and complete_grant insert the row first).          *)
ConsentCoversConnection ==
    faults = 0 =>
        \A r \in Rows :
            \/ EventFor(r, "granted") \in consents
            \/ \E t \in Slot : /\ At(t, "granted")
                              /\ task[t].user = conns[r].user
                              /\ task[t].inst = conns[r].inst
                              /\ task[t].seq = conns[r].seq
                              /\ task[t].ext = conns[r].ext

SameEventId(e, r) ==
    e.user = conns[r].user /\ e.inst = conns[r].inst /\ e.seq = conns[r].seq

(* Every disconnected row has a ConsentEvent saying who revoked it, or the *)
(* loop that disconnected it (revoke, revoke_all_for_instance,             *)
(* revoke_for_users_no_longer_authorized) is about to write it, as long as *)
(* no request was cut short.                                               *)
RevocationLeavesTrace ==
    faults = 0 =>
        \A r \in Rows : ~conns[r].live =>
            \/ \E e \in consents : e.action \in Revocations /\ SameEventId(e, r)
            \/ \E t \in Slot : task[t].pc \in LoopPc
                              /\ SameId(task[t].cur, r)

(* The tokens stored in a row came from the flow its own user started for  *)
(* its own instance, and belong to the account the row names, whichever    *)
(* states and codes users post to complete_grant.                          *)
CredentialsBelongToFlow ==
    \A r \in Rows :
        LET c == conns[r].creds
        IN  c # None => /\ flows[c.flow] = [user |-> conns[r].user,
                                            inst |-> conns[r].inst]
                        /\ conns[r].ext = c.mailbox

(* A request that will still disconnect row r because its instance was     *)
(* disabled.                                                               *)
DisablePending(r) ==
    \E t \in AdminSlot :
        /\ task[t].inst = conns[r].inst
        /\ \/ At(t, "update_audit") /\ Cascades(t)
           \/ At(t, "cascade")
           \/ task[t].pc \in {"wipe", "wiped"} /\ r \in task[t].todo

(* With one administrator at work and no request cut short, disabling an   *)
(* instance disconnects every connection that existed when the flag was    *)
(* written: one still live is about to be reached by the cascade of        *)
(* IntegrationsService.update.  Grants that were past their gate check may *)
(* still land later.                                                       *)
DisableSweepsAll ==
    faults = 0 =>
        \A r \in LiveRows :
            r <= disabledAt[conns[r].inst] => DisablePending(r)

OrphanPending(r) ==
    \E t \in AdminSlot :
        \/ /\ task[t].pc \in {"siam_readback", "siam_audit", "siam_cascade"}
           /\ r \in NoLongerAuthorized(task[t].prev, task[t].next)
        \/ task[t].pc \in {"siam_wipe", "siam_wiped"} /\ r \in task[t].todo

(* The same for a SIAM mapping that leaves an instance without any role,   *)
(* while it does: SIAMService.replace reaches every connection that        *)
(* existed when that mapping was written.                                  *)
OrphaningSweepsAll ==
    faults = 0 =>
        \A r \in LiveRows :
            /\ r <= orphanedAt[conns[r].inst]
            /\ \A m \in SiamResult : Orphan(m, conns[r].inst)
            => OrphanPending(r)

(* With one administrator at work and no request cut short, the latest     *)
(* AdminAuditEvent of an instance, and of the SIAM mapping, tells the      *)
(* state the database is in whenever no admin request is in progress.      *)
TrailTellsState ==
    faults = 0 /\ (\A t \in AdminSlot : At(t, "idle")) =>
        /\ trail.flag = instances
        /\ trail.siam \in SiamResult

SameAccount(r, q) ==
    /\ conns[r].user = conns[q].user
    /\ conns[r].inst = conns[q].inst
    /\ conns[r].ext = conns[q].ext

(* Two live rows of one (user_sub, integration_instance_id,                *)
(* external_subject) were both inserted by grants that overlapped between  *)
(* the uniqueness query and the INSERT: nothing else, of grants that       *)
(* overlap elsewhere, revokes and cascades between their awaits or         *)
(* requests cut short, gets past the check that grant and complete_grant   *)
(* make.                                                                   *)
UniqueActive ==
    \A r, q \in LiveRows :
        SameAccount(r, q) => r = q \/ {r, q} \subseteq raced

(* The same for two rows, live or not, with one id user:inst:seq.  The     *)
(* UPDATEs of every revoke address rows by id.                             *)
UniqueIds ==
    \A r, q \in Rows : SameId(r, q) => r = q \/ {r, q} \subseteq raced

(* What the module's docstring makes of the check: one active row per      *)
(* user, instance and account, whatever requests overlap.                  *)
NoSecondActive == \A r, q \in LiveRows : SameAccount(r, q) => r = q

-----------------------------------------------------------------------------
(* Statements about a Hub at rest. *)

AtRest == \A t \in Slot : At(t, "idle")

(* No live connection on a disabled or deleted instance: every disable and *)
(* delete revokes the active connections.                                  *)
NoLiveOnDisabled ==
    AtRest => \A r \in LiveRows : TRUE \in instances[conns[r].inst]

(* A disable request that ends without a cascade had nothing to revoke, so *)
(* repeating one that was cut short finishes its work.                     *)
DisableRetryRevokes ==
    [][\A t \in AdminSlot :
          /\ At(t, "update_audit")
          /\ ~task[t].will
          /\ task'[t].pc = "idle"
          /\ faults' = faults
          => LiveOn(task[t].inst) = {}]_vars

(* No live connection whose user the saved mapping no longer authorizes.   *)
LiveIsAuthorized ==
    AtRest => \A r \in LiveRows : \E m \in SiamResult :
                  Authorizes(m, conns[r].user, conns[r].inst)

-----------------------------------------------------------------------------
(* The ledger a Hub that serves one request at a time implements.  A       *)
(* connection counts as closed from the moment its revocation is decided:  *)
(* the query of a revoke, the write of a disable or of a mapping, the      *)
(* arrival of a delete.                                                    *)

Deletes(t, i) ==
    /\ task[t].inst = i
    /\ task[t].why = "revoked-by-admin-delete"
    /\ task[t].pc \in {"cascade", "wipe", "wiped", "delete"}

Doomed(r) == r \in UNION {task[t].todo : t \in Slot}
             \/ DisablePending(r) \/ OrphanPending(r)

OpenInstances == {i \in Instance : /\ TRUE \in instances[i]
                                   /\ ~\E t \in Slot : Deletes(t, i)}

SavedMapping == IF siam = {} THEN NoMapping ELSE CHOOSE m \in siam : TRUE

AsPair(r) ==
    [user |-> conns[r].user, inst |-> conns[r].inst, ext |-> conns[r].ext]

ActivePairs == {AsPair(r) : r \in {q \in LiveRows : ~Doomed(q)}}

Promised == INSTANCE Ledger WITH enabled <- OpenInstances,
                                 mapping <- SavedMapping,
                                 active <- ActivePairs

(* With one request at a time and none cut short, grants, revokes,         *)
(* disables, deletes and mapping changes have exactly the effects of the   *)
(* atomic ledger, cascades included.                                       *)
ImplementsLedger == Promised!LedgerSpec

-----------------------------------------------------------------------------
(* What every interleaving keeps to: the awaits of a request as the steps  *)
(* by which it earns what it does.                                         *)

KeyOf(r) == [user |-> conns[r].user, inst |-> conns[r].inst,
             seq |-> conns[r].seq, ext |-> conns[r].ext]

KeysOf(rows) == {KeyOf(r) : r \in rows}

Unmapped(prev, next) ==
    {i \in Instance : Orphan(next, i) /\ ~Orphan(prev, i)}

Earned(x) ==
    CASE x.pc \in {"grant_siam", "complete_siam"} ->
            [kind |-> "admitted", user |-> x.user, inst |-> x.inst]
      [] x.pc \in {"exchange", "dup"} ->
            [kind |-> "permitted", user |-> x.user, inst |-> x.inst]
      [] x.pc \in {"seq", "insert"} ->
            [kind |-> "clear", user |-> x.user, inst |-> x.inst,
             ext |-> x.ext]
      [] x.pc = "granted" ->
            [kind |-> "connected",
             key |-> [user |-> x.user, inst |-> x.inst, seq |-> x.seq,
                      ext |-> x.ext]]
      [] x.pc = "update_audit" /\ x.was /\ ~x.will ->
            [kind |-> "order", action |-> "revoked-by-admin-disable",
             insts |-> {x.inst}]
      [] x.pc = "cascade" ->
            [kind |-> "order", action |-> x.why, insts |-> {x.inst}]
      [] x.pc = "siam_audit" ->
            [kind |-> "order", action |-> "revoked-by-siam-change",
             insts |-> Unmapped(x.prev, x.next)]
      [] x.pc = "siam_cascade" ->
            [kind |-> "order", action |-> x.why,
             insts |-> Unmapped(x.prev, x.next)]
      [] x.pc \in {"revoke", "wipe", "siam_wipe"} ->
            [kind |-> "sentence", action |-> x.why, keys |-> KeysOf(x.todo)]
      [] x.pc \in LoopPc ->
            [kind |-> "closed", action |-> x.why, keys |-> KeysOf(x.todo),
             key |-> KeyOf(x.cur)]
      [] OTHER -> [kind |-> "nothing"]

Fetchable == {i \in Instance : TRUE \in instances[i]}
LiveKeys == KeysOf(LiveRows)
Holdings == [t \in Slot |-> Earned(task[t])]

Warranted == INSTANCE Warrants WITH Request <- Slot,
                                    open <- Fetchable,
                                    saved <- SiamResult,
                                    live <- LiveKeys,
                                    log <- consents,
                                    holds <- Holdings

(* With any number of administrators and users at work, and requests cut   *)
(* short anywhere: a row is inserted only by a request that found the      *)
(* instance enabled, then the user authorized, then no duplicate; a row is *)
(* disconnected only by its user's revoke or by a cascade that a disable,  *)
(* a delete or a mapping gave cause to; and every ConsentEvent is written  *)
(* by the request that did what it says, for the reason it says.           *)
ImplementsWarrants == Warranted!WarrantsSpec

-----------------------------------------------------------------------------
(* Progress, when no request is cut short. *)

(* Every request ends: no revoke loop revisits rows for ever. *)
RequestsEnd == \A t \in Slot : ~At(t, "idle") ~> At(t, "idle")

(* A connection that existed when its instance was disabled is eventually  *)
(* disconnected, whatever users go on doing.                               *)
DisableTakesEffect ==
    \A r \in 1..MaxRows :
        (r \in Rows /\ r <= disabledAt[conns[r].inst])
            ~> (r \in Rows /\ ~conns[r].live)

=============================================================================
