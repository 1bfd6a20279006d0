--------------------------- MODULE AdminCascades ---------------------------
(***************************************************************************)
(* IntegrationsService and SIAMService: what an administrator does to the  *)
(* two gates, and the revoke cascades that main.py wires to them.          *)
(***************************************************************************)
EXTENDS HubDb

AdminArrives(t) == t \in AdminSlot /\ At(t, "idle")

-----------------------------------------------------------------------------
(* create: the id must be free; the row is inserted some awaits later. *)

CreateCheck(t, i, enabled) ==
    /\ AdminArrives(t)
    /\ instances[i] = {}
    /\ task' = [task EXCEPT ![t] = [Idle EXCEPT !.pc = "create", !.inst = i,
                                                !.will = enabled]]
    /\ UNCHANGED <<dbVars, idpVars, faults, historyVars>>

CreateInsert(t) ==
    /\ At(t, "create")
    /\ instances' = [instances EXCEPT ![task[t].inst] = @ \cup {task[t].will}]
    /\ Goto(t, "create_audit")
    /\ UNCHANGED <<siam, conns, consents, trail, idpVars, faults, historyVars>>

CreateAudit(t) ==
    /\ At(t, "create_audit")
    /\ trail' = [trail EXCEPT !.flag[task[t].inst] = {task[t].will}]
    /\ Finish(t)
    /\ UNCHANGED <<instances, siam, conns, consents, idpVars, faults,
                   historyVars>>

-----------------------------------------------------------------------------
(* update: the whole document read first is written back with the fields   *)
(* of the request; a request that does not name enabled writes back the    *)
(* flag it read.                                                           *)

UpdateRead(t, i, wanted) ==
    /\ AdminArrives(t)
    /\ \E enabled \in instances[i] :
          task' = [task EXCEPT ![t] =
                      [Idle EXCEPT !.pc = "update", !.inst = i,
                                   !.was = enabled,
                                   !.will = IF wanted = None THEN enabled
                                                             ELSE wanted]]
    /\ UNCHANGED <<dbVars, idpVars, faults, historyVars>>

(* The write closes gate 1 when the instance could be fetched as enabled. *)
Disables(t) == TRUE \in instances[task[t].inst] /\ ~task[t].will

UpdateWrite(t) ==
    /\ At(t, "update")
    /\ instances' = [instances EXCEPT ![task[t].inst] =
                        IF @ = {} THEN {} ELSE {task[t].will}]
    /\ disabledAt' = [disabledAt EXCEPT ![task[t].inst] =
                         IF Disables(t) THEN Len(conns) ELSE @]
    /\ Goto(t, "update_audit")
    /\ UNCHANGED <<siam, conns, consents, trail, idpVars, faults,
                   orphanedAt, racing, raced>>

(* Variant: the test of the transition has its operands swapped. *)
CascadesWhenEnabled(t) == ~task[t].was /\ task[t].will

Cascades(t) == task[t].was /\ ~task[t].will

UpdateAudit(t) ==
    /\ At(t, "update_audit")
    /\ trail' = [trail EXCEPT !.flag[task[t].inst] = {task[t].will}]
    /\ \/ /\ Cascades(t)
          /\ task' = [task EXCEPT ![t].pc = "cascade",
                                  ![t].why = "revoked-by-admin-disable"]
       \/ ~Cascades(t) /\ Finish(t)
    /\ UNCHANGED <<instances, siam, conns, consents, idpVars, faults,
                   historyVars>>

-----------------------------------------------------------------------------
(* delete: cascade first, then remove the instance row, then audit. *)

(* Variant: delete without its cascade. *)
DeleteReadOnly(t, i) ==
    /\ AdminArrives(t)
    /\ instances[i] # {}
    /\ task' = [task EXCEPT ![t] = [Idle EXCEPT !.pc = "delete", !.inst = i]]
    /\ UNCHANGED <<dbVars, idpVars, faults, historyVars>>

DeleteRead(t, i) ==
    /\ AdminArrives(t)
    /\ instances[i] # {}
    /\ task' = [task EXCEPT ![t] = [Idle EXCEPT
                    !.pc = "cascade", !.inst = i,
                    !.why = "revoked-by-admin-delete"]]
    /\ UNCHANGED <<dbVars, idpVars, faults, historyVars>>

DeleteRow(t) ==
    /\ At(t, "delete")
    /\ instances' = [instances EXCEPT ![task[t].inst] = {}]
    /\ Goto(t, "delete_audit")
    /\ UNCHANGED <<siam, conns, consents, trail, idpVars, faults, historyVars>>

(* Variant: delete without its audit event. *)
DeleteUnaudited(t) ==
    /\ At(t, "delete_audit")
    /\ Finish(t)
    /\ UNCHANGED <<dbVars, idpVars, faults, historyVars>>

DeleteAudit(t) ==
    /\ At(t, "delete_audit")
    /\ trail' = [trail EXCEPT !.flag[task[t].inst] = {}]
    /\ Finish(t)
    /\ UNCHANGED <<instances, siam, conns, consents, idpVars, faults,
                   historyVars>>

-----------------------------------------------------------------------------
(* revoke_all_for_instance, called by update and by delete. *)

AfterCascade(t) ==
    \/ task[t].why = "revoked-by-admin-delete" /\ Goto(t, "delete")
    \/ task[t].why # "revoked-by-admin-delete" /\ Finish(t)

(* Variant: the query looks for rows that hold tokens. *)
CascadeQueryTokens(t) ==
    /\ At(t, "cascade")
    /\ LET active == {r \in LiveOn(task[t].inst) : conns[r].creds # None}
       IN  \/ /\ active # {}
              /\ task' = [task EXCEPT ![t].pc = "wipe", ![t].todo = active]
           \/ active = {} /\ AfterCascade(t)
    /\ UNCHANGED <<dbVars, idpVars, faults, historyVars>>

CascadeQuery(t) ==
    /\ At(t, "cascade")
    /\ LET active == LiveOn(task[t].inst)
       IN  \/ /\ active # {}
              /\ task' = [task EXCEPT ![t].pc = "wipe", ![t].todo = active]
           \/ active = {} /\ AfterCascade(t)
    /\ UNCHANGED <<dbVars, idpVars, faults, historyVars>>

CascadeRow(t) ==
    /\ At(t, "wipe")
    /\ VisitRow(t, TRUE, "wiped")
    /\ UNCHANGED <<instances, siam, consents, trail, idpVars, faults,
                   historyVars>>

(* Variant: the last row's ConsentEvent is forgotten. *)
CascadeEventLossy(t) ==
    /\ At(t, "wiped")
    /\ \/ task[t].todo # {} /\ RecordRevocation(t) /\ Goto(t, "wipe")
       \/ task[t].todo = {} /\ AfterCascade(t) /\ UNCHANGED consents
    /\ UNCHANGED <<instances, siam, conns, trail, idpVars, faults,
                   historyVars>>

(* Variant: the loop returns after its first row. *)
CascadeEventOnce(t) ==
    /\ At(t, "wiped")
    /\ RecordRevocation(t)
    /\ AfterCascade(t)
    /\ UNCHANGED <<instances, siam, conns, trail, idpVars, faults,
                   historyVars>>

CascadeEvent(t) ==
    /\ At(t, "wiped")
    /\ RecordRevocation(t)
    /\ \/ task[t].todo # {} /\ Goto(t, "wipe")
       \/ task[t].todo = {} /\ AfterCascade(t)
    /\ UNCHANGED <<instances, siam, conns, trail, idpVars, faults,
                   historyVars>>

-----------------------------------------------------------------------------
(* SIAMService.replace. *)

SiamRead(t, m) ==
    /\ AdminArrives(t)
    /\ \E before \in SiamResult :
          task' = [task EXCEPT ![t] = [Idle EXCEPT !.pc = "siam_check",
                                                   !.prev = before,
                                                   !.next = m]]
    /\ UNCHANGED <<dbVars, idpVars, faults, historyVars>>

SiamCheck(t) ==
    /\ At(t, "siam_check")
    /\ task' = [task EXCEPT ![t].pc = "siam_write", ![t].was = (siam # {})]
    /\ UNCHANGED <<dbVars, idpVars, faults, historyVars>>

(* The write leaves instance i without a role that is mapped to it. *)
Orphans(t, i) ==
    Orphan(task[t].next, i) /\ \E m \in siam : ~Orphan(m, i)

SiamWrite(t) ==
    /\ At(t, "siam_write")
    /\ siam' = IF task[t].was THEN {task[t].next}
                              ELSE siam \cup {task[t].next}
    /\ orphanedAt' = [i \in Instance |-> IF Orphans(t, i) THEN Len(conns)
                                                          ELSE orphanedAt[i]]
    /\ Goto(t, "siam_readback")
    /\ UNCHANGED <<instances, conns, consents, trail, idpVars, faults,
                   disabledAt, racing, raced>>

(* What is audited and cascaded is read back from the database. *)
SiamReadBack(t) ==
    /\ At(t, "siam_readback")
    /\ \E after \in SiamResult :
          task' = [task EXCEPT ![t].pc = "siam_audit", ![t].next = after]
    /\ UNCHANGED <<dbVars, idpVars, faults, historyVars>>

SiamAudit(t) ==
    /\ At(t, "siam_audit")
    /\ trail' = [trail EXCEPT !.siam = task[t].next]
    /\ \/ /\ task[t].prev # task[t].next
          /\ task' = [task EXCEPT ![t].pc = "siam_cascade",
                                  ![t].why = "revoked-by-siam-change"]
       \/ task[t].prev = task[t].next /\ Finish(t)
    /\ UNCHANGED <<instances, siam, conns, consents, idpVars, faults,
                   historyVars>>

(* Variant: the two mappings are swapped. *)
NewlyAuthorized(prev, next) ==
    {r \in LiveRows : ~Orphan(next, conns[r].inst)
                      /\ Orphan(prev, conns[r].inst)}

(* revoke_for_users_no_longer_authorized: a row goes when some role was    *)
(* mapped to its instance and no role is any more.                         *)
NoLongerAuthorized(prev, next) ==
    {r \in LiveRows : Orphan(next, conns[r].inst)
                      /\ ~Orphan(prev, conns[r].inst)}

SiamQuery(t) ==
    /\ At(t, "siam_cascade")
    /\ LET doomed == NoLongerAuthorized(task[t].prev, task[t].next)
       IN  \/ /\ doomed # {}
              /\ task' = [task EXCEPT ![t].pc = "siam_wipe",
                                      ![t].todo = doomed]
           \/ doomed = {} /\ Finish(t)
    /\ UNCHANGED <<dbVars, idpVars, faults, historyVars>>

SiamRow(t) ==
    /\ At(t, "siam_wipe")
    /\ VisitRow(t, TRUE, "siam_wiped")
    /\ UNCHANGED <<instances, siam, consents, trail, idpVars, faults,
                   historyVars>>

SiamEvent(t) ==
    /\ At(t, "siam_wiped")
    /\ RecordRevocation(t)
    /\ \/ task[t].todo # {} /\ Goto(t, "siam_wipe")
       \/ task[t].todo = {} /\ Finish(t)
    /\ UNCHANGED <<instances, siam, conns, trail, idpVars, faults,
                   historyVars>>

-----------------------------------------------------------------------------
AdminStarts(t) ==
    \/ \E i \in Instance :
          \/ \E enabled \in BOOLEAN : CreateCheck(t, i, enabled)
          \/ \E wanted \in BOOLEAN \cup {None} : UpdateRead(t, i, wanted)
          \/ DeleteRead(t, i)
    \/ \E m \in Mapping : SiamRead(t, m)

AdminContinues(t) ==
    \/ CreateInsert(t)
    \/ CreateAudit(t)
    \/ UpdateWrite(t)
    \/ UpdateAudit(t)
    \/ DeleteRow(t)
    \/ DeleteAudit(t)
    \/ CascadeQuery(t)
    \/ CascadeRow(t)
    \/ CascadeEvent(t)
    \/ SiamCheck(t)
    \/ SiamWrite(t)
    \/ SiamReadBack(t)
    \/ SiamAudit(t)
    \/ SiamQuery(t)
    \/ SiamRow(t)
    \/ SiamEvent(t)

=============================================================================
