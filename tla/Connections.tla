---------------------------- MODULE Connections ----------------------------
(***************************************************************************)
(* UserConnectionsService: the requests a user makes about a connection.   *)
(* A request the handler rejects at its first await has changed nothing    *)
(* and is not a step of the model.                                         *)
(***************************************************************************)
EXTENDS HubDb

(* A user's request may start: the slot is free and carries that user. *)
Arrives(t, u) == t \in UserSlot /\ u \in Serves[t] /\ At(t, "idle")

(* Bound MaxRows: every grant under way may still insert a row. *)
RoomForRow ==
    Len(conns) + Cardinality({t \in UserSlot : task[t].pc \in GrantPc})
        < MaxRows

-----------------------------------------------------------------------------
(* grant: the one-step connect.  POST /me/connections/{id} gives it no     *)
(* external_subject.                                                       *)

(* Variant: the fetch accepts an instance whatever its enabled flag. *)
GrantFetchAnyFlag(t, u, i) ==
    /\ Arrives(t, u)
    /\ RoomForRow
    /\ instances[i] # {}
    /\ task' = [task EXCEPT ![t] = [Idle EXCEPT !.pc = "grant_siam",
                                                !.user = u, !.inst = i]]
    /\ UNCHANGED <<dbVars, idpVars, faults, historyVars>>

GrantFetch(t, u, i) ==
    /\ Arrives(t, u)
    /\ RoomForRow
    /\ TRUE \in instances[i]
    /\ task' = [task EXCEPT ![t] = [Idle EXCEPT !.pc = "grant_siam",
                                                !.user = u, !.inst = i]]
    /\ UNCHANGED <<dbVars, idpVars, faults, historyVars>>

GrantGate(t) ==
    /\ At(t, "grant_siam")
    /\ \E m \in SiamResult :
          \/ /\ Authorizes(m, task[t].user, task[t].inst)
             /\ Goto(t, "dup")
          \/ /\ ~Authorizes(m, task[t].user, task[t].inst)
             /\ Finish(t)
    /\ UNCHANGED <<dbVars, idpVars, faults, historyVars>>

(* Variant: the uniqueness query overlooks stub connections. *)
HasConnectedDuplicate(t) ==
    \E r \in LiveOf(task[t].user, task[t].inst) :
        conns[r].ext = task[t].ext /\ conns[r].status = "connected"

(* The rest is common to grant and complete_grant. *)
HasDuplicate(t) ==
    \E r \in LiveOf(task[t].user, task[t].inst) :
        conns[r].ext = task[t].ext

(* The other grants of the same user for the same instance that are past  *)
(* their own query and have not inserted their row yet.                    *)
Rivals(t) ==
    {s \in UserSlot \ {t} : /\ task[s].pc \in {"seq", "insert"}
                            /\ task[s].user = task[t].user
                            /\ task[s].inst = task[t].inst}

CheckDuplicate(t) ==
    /\ At(t, "dup")
    /\ \/ /\ ~HasDuplicate(t)
          /\ Goto(t, "seq")
          /\ racing' = IF Rivals(t) = {} THEN racing \ {t}
                                        ELSE racing \cup {t} \cup Rivals(t)
       \/ HasDuplicate(t) /\ Finish(t) /\ UNCHANGED racing
    /\ UNCHANGED <<dbVars, idpVars, faults, disabledAt, orphanedAt, raced>>

(* Variant: the maximum is taken over live rows only. *)
IsNextLiveSeq(n, u, i) ==
    LET S == {conns[r].seq : r \in LiveOf(u, i)}
    IN  \/ S = {} /\ n = 0
        \/ \E m \in S : (\A s \in S : s <= m) /\ n = m + 1

(* n is 1 + max(connection_seq) over every row of (u, i), 0 without rows. *)
IsNextSeq(n, u, i) ==
    LET S == {conns[r].seq : r \in {q \in Rows : conns[q].user = u
                                                  /\ conns[q].inst = i}}
    IN  \/ S = {} /\ n = 0
        \/ \E m \in S : (\A s \in S : s <= m) /\ n = m + 1

ReadNextSeq(t) ==
    /\ At(t, "seq")
    /\ \E n \in 0..Len(conns) :
          /\ IsNextSeq(n, task[t].user, task[t].inst)
          /\ task' = [task EXCEPT ![t].pc = "insert", ![t].seq = n]
    /\ UNCHANGED <<dbVars, idpVars, faults, historyVars>>

(* Variant: a status the schema does not know. *)
NewRowPending(t) ==
    [user |-> task[t].user, inst |-> task[t].inst, seq |-> task[t].seq,
     ext |-> task[t].ext, live |-> TRUE, creds |-> task[t].code,
     status |-> "pending"]

NewRow(t) ==
    [user |-> task[t].user, inst |-> task[t].inst, seq |-> task[t].seq,
     ext |-> task[t].ext, live |-> TRUE, creds |-> task[t].code,
     status |-> IF task[t].code = None THEN "stub-connected"
                                       ELSE "connected"]

InsertRow(t) ==
    /\ At(t, "insert")
    /\ conns' = Append(conns, NewRow(t))
    /\ raced' = IF t \in racing THEN raced \cup {Len(conns) + 1} ELSE raced
    /\ Goto(t, "granted")
    /\ UNCHANGED <<instances, siam, consents, trail, idpVars, faults,
                   disabledAt, orphanedAt, racing>>

(* Variant: the event carries seq 0 whatever the row's seq is. *)
RecordGrantedSeqZero(t) ==
    /\ At(t, "granted")
    /\ consents' = consents \cup
          {[action |-> "granted", user |-> task[t].user,
            inst |-> task[t].inst, seq |-> 0, ext |-> task[t].ext]}
    /\ Finish(t)
    /\ UNCHANGED <<instances, siam, conns, trail, idpVars, faults,
                   historyVars>>

RecordGranted(t) ==
    /\ At(t, "granted")
    /\ consents' = consents \cup
          {[action |-> "granted", user |-> task[t].user,
            inst |-> task[t].inst, seq |-> task[t].seq, ext |-> task[t].ext]}
    /\ Finish(t)
    /\ UNCHANGED <<instances, siam, conns, trail, idpVars, faults,
                   historyVars>>

-----------------------------------------------------------------------------
(* initiate_grant mints a state bound to the caller and the instance. *)

UnusedFlows == {f \in Flow : flows[f] = None}

InitiateFetch(t, u, i) ==
    /\ Arrives(t, u)
    /\ Cardinality(UnusedFlows) >
          Cardinality({s \in UserSlot : At(s, "mint")})
    /\ TRUE \in instances[i]
    /\ task' = [task EXCEPT ![t] = [Idle EXCEPT !.pc = "mint",
                                                !.user = u, !.inst = i]]
    /\ UNCHANGED <<dbVars, idpVars, faults, historyVars>>

MintState(t) ==
    /\ At(t, "mint")
    /\ \E m \in SiamResult :
          \/ /\ Authorizes(m, task[t].user, task[t].inst)
             /\ \E f \in UnusedFlows :
                   flows' = [flows EXCEPT ![f] = [user |-> task[t].user,
                                                  inst |-> task[t].inst]]
          \/ /\ ~Authorizes(m, task[t].user, task[t].inst)
             /\ UNCHANGED flows
    /\ Finish(t)
    /\ UNCHANGED <<dbVars, codes, faults, historyVars>>

(* The identity provider: someone opens the authorization URL of flow f    *)
(* and signs in to account m.  The URL can be opened again.                *)
IdpAuthorize(f, m) ==
    /\ flows[f] # None
    /\ [flow |-> f, mailbox |-> m] \notin codes
    /\ codes' = codes \cup {[flow |-> f, mailbox |-> m]}
    /\ UNCHANGED <<dbVars, flows, task, faults, historyVars>>

-----------------------------------------------------------------------------
(* complete_grant: user u posts state f and code c to instance i's path. *)

(* Variant: complete_grant does not compare the state's user_sub. *)
StateMatchesAnyUser(f, u, i) == flows[f] # None /\ flows[f].inst = i

StateMatches(f, u, i) ==
    /\ flows[f] # None
    /\ flows[f].user = u
    /\ flows[f].inst = i

CompleteFetch(t, u, i, f, c) ==
    /\ Arrives(t, u)
    /\ RoomForRow
    /\ StateMatches(f, u, i)
    /\ TRUE \in instances[i]
    /\ task' = [task EXCEPT ![t] = [Idle EXCEPT !.pc = "complete_siam",
                                                !.user = u, !.inst = i,
                                                !.flow = f, !.code = c]]
    /\ UNCHANGED <<dbVars, idpVars, faults, historyVars>>

CompleteGate(t) ==
    /\ At(t, "complete_siam")
    /\ \E m \in SiamResult :
          \/ /\ Authorizes(m, task[t].user, task[t].inst)
             /\ Goto(t, "exchange")
          \/ /\ ~Authorizes(m, task[t].user, task[t].inst)
             /\ Finish(t)
    /\ UNCHANGED <<dbVars, idpVars, faults, historyVars>>

(* The token endpoint redeems a code once, and only with the code_verifier *)
(* of the flow the code was issued to.                                     *)
Redeemable(c, f) == c \in codes /\ c.flow = f

(* Code exchange, identity and health call.  They touch nothing of the     *)
(* Hub's, so they are one step; any of them may fail.                      *)
Exchange(t) ==
    /\ At(t, "exchange")
    /\ \/ /\ Redeemable(task[t].code, task[t].flow)
          /\ codes' = codes \ {task[t].code}
          /\ \/ task' = [task EXCEPT ![t].pc = "dup",
                                     ![t].ext = task[t].code.mailbox]
             \/ Finish(t)
       \/ Finish(t) /\ UNCHANGED codes
    /\ UNCHANGED <<dbVars, flows, faults, historyVars>>

-----------------------------------------------------------------------------
(* revoke: DELETE /me/connections/{id} disconnects all the user's live     *)
(* rows on the instance.  It leaves encrypted_credentials in place.        *)

RevokeQuery(t, u, i) ==
    /\ Arrives(t, u)
    /\ LiveOf(u, i) # {}
    /\ task' = [task EXCEPT ![t] = [Idle EXCEPT !.pc = "revoke", !.user = u,
                                                !.inst = i,
                                                !.todo = LiveOf(u, i)]]
    /\ UNCHANGED <<dbVars, idpVars, faults, historyVars>>

RevokeRow(t) ==
    /\ At(t, "revoke")
    /\ VisitRow(t, FALSE, "revoked")
    /\ UNCHANGED <<instances, siam, consents, trail, idpVars, faults,
                   historyVars>>

RevokeEvent(t) ==
    /\ At(t, "revoked")
    /\ RecordRevocation(t)
    /\ \/ task[t].todo # {} /\ Goto(t, "revoke")
       \/ task[t].todo = {} /\ Finish(t)
    /\ UNCHANGED <<instances, siam, conns, trail, idpVars, faults,
                   historyVars>>

-----------------------------------------------------------------------------
UserStarts(t) ==
    \E u \in User, i \in Instance :
        \/ GrantFetch(t, u, i)
        \/ InitiateFetch(t, u, i)
        \/ \E f \in Flow, c \in Code : CompleteFetch(t, u, i, f, c)
        \/ RevokeQuery(t, u, i)

UserContinues(t) ==
    \/ GrantGate(t)
    \/ CheckDuplicate(t)
    \/ ReadNextSeq(t)
    \/ InsertRow(t)
    \/ RecordGranted(t)
    \/ MintState(t)
    \/ CompleteGate(t)
    \/ Exchange(t)
    \/ RevokeRow(t)
    \/ RevokeEvent(t)

=============================================================================
