--------------------------- MODULE HubTrailProofs ---------------------------
(* The consent trail is complete under every interleaving, for any number  *)
(* of users, instances and requests in progress.                           *)
EXTENDS HubProofs

(* The awaits a request leaves only by writing a ConsentEvent. *)
OwesEvent == LoopPc \cup {"granted"}

(* What a step can do to the connections and to the consent trail.         *)

Quiet ==
    /\ UNCHANGED <<conns, consents, faults>>
    /\ \A s \in Slot : task'[s] = task[s] \/ task[s].pc \notin OwesEvent

OnlyMoves(t) == \A s \in Slot \ {t} : task'[s] = task[s]

Visits(t) ==
    /\ UNCHANGED <<consents, faults>>
    /\ OnlyMoves(t)
    /\ task[t].pc \notin OwesEvent
    /\ \E w \in BOOLEAN, pc \in LoopPc, r \in Rows :
          /\ conns' = Disconnect(r, w)
          /\ task'[t].pc = pc
          /\ task'[t].cur = r

Traces(t) ==
    /\ UNCHANGED <<conns, faults>>
    /\ OnlyMoves(t)
    /\ task[t].pc \in LoopPc
    /\ RecordRevocation(t)

(* A VisitRow from an await that owes no event is a Visits step. *)
LEMMA VisitIsVisits ==
    ASSUME TypeInv, NEW t \in Slot, NEW w \in BOOLEAN, NEW pc \in LoopPc,
           VisitRow(t, w, pc), task[t].pc \notin OwesEvent,
           UNCHANGED <<consents, faults>>
    PROVE  Visits(t)
<1>1. PICK r \in task[t].todo :
          /\ conns' = Disconnect(r, w)
          /\ task' = [task EXCEPT ![t].pc = pc, ![t].cur = r,
                                  ![t].todo = @ \ {r}]
  BY DEF VisitRow
<1>2. task[t] \in Task /\ r \in Rows
  BY DEF TypeInv, TypeOK, LocalsOK, LocalOK
<1>3. task'[t].pc = pc /\ task'[t].cur = r
  BY <1>1, <1>2 DEF Task, TypeInv, TypeOK
<1>4. OnlyMoves(t)
  BY <1>1 DEF OnlyMoves, TypeInv, TypeOK
<1>5. QED
  BY <1>1, <1>2, <1>3, <1>4 DEF Visits

(* Every step of the Hub that cuts no request short is of one of the five  *)
(* kinds.                                                                  *)
LEMMA UserStepKinds ==
    ASSUME TypeInv, NEW t \in Slot, UserStarts(t) \/ UserContinues(t)
    PROVE  \/ Quiet
           \/ InsertRow(t) \/ RecordGranted(t) \/ Visits(t) \/ Traces(t)
<1> USE DEF TypeInv, TypeOK
<1>1. CASE UserStarts(t)
  <2>1. PICK u \in User, i \in Instance :
            \/ GrantFetch(t, u, i)
            \/ InitiateFetch(t, u, i)
            \/ \E f \in Flow, c \in Code : CompleteFetch(t, u, i, f, c)
            \/ RevokeQuery(t, u, i)
    BY <1>1 DEF UserStarts
  <2>2. UNCHANGED <<dbVars, faults>> /\ task[t].pc = "idle"
    BY <2>1 DEF GrantFetch, InitiateFetch, CompleteFetch, RevokeQuery,
       Arrives, At
  <2>3. \A s \in Slot \ {t} : task'[s] = task[s]
    <3>1. CASE GrantFetch(t, u, i)
      BY <3>1 DEF GrantFetch
    <3>2. CASE InitiateFetch(t, u, i)
      BY <3>2 DEF InitiateFetch
    <3>3. CASE \E f \in Flow, c \in Code : CompleteFetch(t, u, i, f, c)
      BY <3>3 DEF CompleteFetch
    <3>4. CASE RevokeQuery(t, u, i)
      BY <3>4 DEF RevokeQuery
    <3>5. QED
      BY <2>1, <3>1, <3>2, <3>3, <3>4
  <2>4. QED
    BY <2>2, <2>3 DEF Quiet, OwesEvent, LoopPc, dbVars
<1>2. CASE GrantGate(t) \/ CheckDuplicate(t) \/ ReadNextSeq(t)
           \/ MintState(t) \/ CompleteGate(t)
  BY <1>2 DEF GrantGate, CheckDuplicate, ReadNextSeq, MintState,
     CompleteGate, Goto, Finish, At, Quiet, OwesEvent, LoopPc, dbVars
<1>3. CASE Exchange(t)
  BY <1>3 DEF Exchange, Finish, At, Quiet, OwesEvent, LoopPc, dbVars
<1>4. CASE RevokeRow(t)
  BY <1>4, VisitIsVisits DEF RevokeRow, At, OwesEvent, LoopPc
<1>5. CASE RevokeEvent(t)
  BY <1>5 DEF RevokeEvent, Goto, Finish, At, Traces, OnlyMoves, LoopPc
<1>6. QED
  BY <1>1, <1>2, <1>3, <1>4, <1>5 DEF UserContinues

LEMMA AdminStepKinds ==
    ASSUME TypeInv, NEW t \in Slot, AdminStarts(t) \/ AdminContinues(t)
    PROVE  Quiet \/ Visits(t) \/ Traces(t)
<1> USE DEF TypeInv, TypeOK
<1>1. CASE AdminStarts(t)
  BY <1>1 DEF AdminStarts, CreateCheck, UpdateRead, DeleteRead, SiamRead,
     AdminArrives, At, Quiet, OwesEvent, LoopPc, dbVars
<1>2. CASE CreateInsert(t) \/ CreateAudit(t) \/ UpdateWrite(t)
           \/ DeleteRow(t) \/ DeleteAudit(t)
  BY <1>2 DEF CreateInsert, CreateAudit, UpdateWrite, DeleteRow,
     DeleteAudit, Goto, Finish, At, Quiet, OwesEvent, LoopPc
<1>3. CASE UpdateAudit(t)
  BY <1>3 DEF UpdateAudit, Finish, At, Quiet, OwesEvent, LoopPc
<1>4. CASE CascadeQuery(t)
  BY <1>4 DEF CascadeQuery, AfterCascade, Goto, Finish, At, Quiet,
     OwesEvent, LoopPc, dbVars
<1>5. CASE CascadeRow(t)
  BY <1>5, VisitIsVisits DEF CascadeRow, At, OwesEvent, LoopPc
<1>6. CASE CascadeEvent(t)
  BY <1>6 DEF CascadeEvent, AfterCascade, Goto, Finish, At, Traces,
     OnlyMoves, LoopPc
<1>7. CASE SiamCheck(t) \/ SiamReadBack(t) \/ SiamQuery(t)
  BY <1>7 DEF SiamCheck, SiamReadBack, SiamQuery, Finish, At, Quiet,
     OwesEvent, LoopPc, dbVars
<1>8. CASE SiamWrite(t) \/ SiamAudit(t)
  BY <1>8 DEF SiamWrite, SiamAudit, Goto, Finish, At, Quiet, OwesEvent,
     LoopPc
<1>9. CASE SiamRow(t)
  BY <1>9, VisitIsVisits DEF SiamRow, At, OwesEvent, LoopPc
<1>10. CASE SiamEvent(t)
  BY <1>10 DEF SiamEvent, Goto, Finish, At, Traces, OnlyMoves, LoopPc
<1>11. QED
  BY <1>1, <1>2, <1>3, <1>4, <1>5, <1>6, <1>7, <1>8, <1>9, <1>10
     DEF AdminContinues

LEMMA StepKinds ==
    ASSUME TypeInv, [Next]_vars
    PROVE  \/ Quiet
           \/ faults' # 0
           \/ \E t \in Slot : InsertRow(t) \/ RecordGranted(t)
                              \/ Visits(t) \/ Traces(t)
<1>1. ASSUME NEW t \in Slot, CutShort(t) PROVE faults' # 0
  BY <1>1 DEF CutShort, TypeInv, TypeOK
<1>2. ASSUME NEW f \in Flow, NEW m \in Mailbox, IdpAuthorize(f, m)
      PROVE  Quiet
  BY <1>2 DEF IdpAuthorize, Quiet, dbVars
<1>3. CASE UNCHANGED vars
  BY <1>3 DEF vars, Quiet
<1>4. QED
  BY <1>1, <1>2, <1>3, UserStepKinds, AdminStepKinds DEF Next, Continues

-----------------------------------------------------------------------------
(* UPDATEs of a revoke leave alone what an event says of a row.            *)
LEMMA DisconnectKeeps ==
    ASSUME TypeInv, NEW r \in Rows, NEW w \in BOOLEAN,
           conns' = Disconnect(r, w)
    PROVE  /\ Rows' = Rows
           /\ \A q \in Rows : /\ conns'[q].user = conns[q].user
                              /\ conns'[q].inst = conns[q].inst
                              /\ conns'[q].seq = conns[q].seq
                              /\ conns'[q].ext = conns[q].ext
                              /\ ~SameId(r, q) => conns'[q] = conns[q]
<1>1. Rows' = Rows
  BY DisconnectType DEF Rows, TypeInv, TypeOK
<1>2. ASSUME NEW q \in Rows
      PROVE  /\ conns'[q].user = conns[q].user
             /\ conns'[q].inst = conns[q].inst
             /\ conns'[q].seq = conns[q].seq
             /\ conns'[q].ext = conns[q].ext
             /\ ~SameId(r, q) => conns'[q] = conns[q]
  <2>1. conns[q] \in Connection
    BY DEF Rows, TypeInv, TypeOK
  <2>2. conns'[q] = IF SameId(r, q)
                    THEN [conns[q] EXCEPT !.status = "disconnected",
                              !.live = FALSE,
                              !.creds = IF w THEN None ELSE @]
                    ELSE conns[q]
    BY DEF Disconnect
  <2>3. QED
    BY <2>1, <2>2 DEF Connection
<1>3. QED
  BY <1>1, <1>2

(* An INSERT appends the row the request's locals describe. *)
LEMMA InsertAppends ==
    ASSUME TypeInv, NEW t \in Slot, InsertRow(t)
    PROVE  /\ Rows' = Rows \cup {Len(conns) + 1}
           /\ \A q \in Rows : conns'[q] = conns[q]
           /\ conns'[Len(conns) + 1] = NewRow(t)
           /\ Len(conns) + 1 \notin Rows
<1>1. conns \in Seq(Connection) /\ conns' = Append(conns, NewRow(t))
  BY DEF InsertRow, TypeInv, TypeOK
<1>2. Len(conns) \in Nat /\ Rows = 1..Len(conns)
  BY <1>1 DEF Rows
<1>3. NewRow(t) \in Connection
  <2>1. task[t] \in Task /\ task[t].pc = "insert"
        /\ task[t].user \in User /\ task[t].inst \in Instance
    BY DEF TypeInv, TypeOK, LocalsOK, LocalOK, InsertRow, At, GrantPath, GrantPc
  <2>2. QED
    BY <2>1 DEF NewRow, Connection, Status, Task
<1>4. /\ conns' \in Seq(Connection)
      /\ Len(conns') = Len(conns) + 1
      /\ \A q \in 1..Len(conns) : conns'[q] = conns[q]
      /\ conns'[Len(conns) + 1] = NewRow(t)
  BY <1>1, <1>3
<1>5. Rows' = 1..(Len(conns) + 1)
  BY <1>4 DEF Rows
<1>6. QED
  BY <1>2, <1>4, <1>5

-----------------------------------------------------------------------------
(* Every row has its "granted" event, or the request that inserted it is   *)
(* at the statement that writes it, at every moment of every interleaving  *)
(* of requests of which none is cut short.                                 *)
(* Row r has its event, or request s is about to write it. *)
Covered(r) ==
    \/ EventFor(r, "granted") \in consents
    \/ \E s \in Slot : /\ At(s, "granted")
                       /\ task[s].user = conns[r].user
                       /\ task[s].inst = conns[r].inst
                       /\ task[s].seq = conns[r].seq
                       /\ task[s].ext = conns[r].ext

LEMMA NextConsentCovers ==
    TypeInv /\ ConsentCoversConnection /\ [Next]_vars
        => ConsentCoversConnection'
<1> SUFFICES ASSUME TypeInv, ConsentCoversConnection, [Next]_vars,
                    faults' = 0, NEW r \in Rows'
             PROVE  Covered(r)'
  BY DEF ConsentCoversConnection, Covered
<1>1. CASE Quiet
  <2>1. Covered(r)
    BY <1>1 DEF Quiet, Rows, ConsentCoversConnection, Covered
  <2>2. ASSUME NEW s \in Slot, At(s, "granted") PROVE task'[s] = task[s]
    BY <1>1, <2>2 DEF Quiet, OwesEvent, At
  <2>3. QED
    BY <1>1, <2>1, <2>2 DEF Quiet, Covered, EventFor, At
<1>2. ASSUME NEW t \in Slot, InsertRow(t) PROVE Covered(r)'
  <2>1. /\ task[t] \in Task /\ task'[t] = [task[t] EXCEPT !.pc = "granted"]
        /\ \A s \in Slot \ {t} : task'[s] = task[s]
        /\ consents' = consents /\ faults = 0
        /\ task[t].pc = "insert"
    BY <1>2 DEF InsertRow, Goto, At, TypeInv, TypeOK
  <2>2. CASE r = Len(conns) + 1
    <3>1. conns'[r] = NewRow(t)
      BY <1>2, <2>2, InsertAppends
    <3>2. QED
      BY <2>1, <3>1 DEF Covered, NewRow, At, Task
  <2>3. CASE r \in Rows
    <3>1. conns'[r] = conns[r]
      BY <1>2, <2>3, InsertAppends
    <3>2. Covered(r)
      BY <2>1, <2>3 DEF ConsentCoversConnection, Covered
    <3>3. QED
      BY <2>1, <3>1, <3>2 DEF Covered, EventFor, At
  <2>4. QED
    BY <1>2, <2>2, <2>3, InsertAppends
<1>3. ASSUME NEW t \in Slot, RecordGranted(t) PROVE Covered(r)'
  <2>1. /\ conns' = conns /\ faults = 0
        /\ \A s \in Slot \ {t} : task'[s] = task[s]
        /\ consents' = consents \cup
              {[action |-> "granted", user |-> task[t].user,
                inst |-> task[t].inst, seq |-> task[t].seq,
                ext |-> task[t].ext]}
    BY <1>3 DEF RecordGranted, Finish, TypeInv, TypeOK
  <2>2. Covered(r)
    BY <2>1 DEF Rows, ConsentCoversConnection, Covered
  <2>3. QED
    BY <2>1, <2>2 DEF Covered, EventFor, At
<1>4. ASSUME NEW t \in Slot, Visits(t) PROVE Covered(r)'
  <2>1. PICK w \in BOOLEAN, q \in Rows : conns' = Disconnect(q, w)
    BY <1>4 DEF Visits
  <2>2. /\ consents' = consents /\ faults = 0
        /\ \A s \in Slot : At(s, "granted") => task'[s] = task[s]
    BY <1>4 DEF Visits, OnlyMoves, OwesEvent, At
  <2>3. /\ r \in Rows
        /\ conns'[r].user = conns[r].user /\ conns'[r].inst = conns[r].inst
        /\ conns'[r].seq = conns[r].seq /\ conns'[r].ext = conns[r].ext
    BY <2>1, DisconnectKeeps
  <2>4. Covered(r)
    BY <2>2, <2>3 DEF ConsentCoversConnection, Covered
  <2>5. QED
    BY <2>2, <2>3, <2>4 DEF Covered, EventFor, At
<1>5. ASSUME NEW t \in Slot, Traces(t) PROVE Covered(r)'
  <2>1. /\ conns' = conns /\ faults = 0 /\ consents \subseteq consents'
        /\ \A s \in Slot : At(s, "granted") => task'[s] = task[s]
    BY <1>5 DEF Traces, OnlyMoves, LoopPc, At, RecordRevocation
  <2>2. Covered(r)
    BY <2>1 DEF Rows, ConsentCoversConnection, Covered
  <2>3. QED
    BY <2>1, <2>2 DEF Covered, EventFor, At
<1>6. QED
  BY <1>1, <1>2, <1>3, <1>4, <1>5, StepKinds

(* No statement grants a connection without its consent being recorded:    *)
(* grant and complete_grant always follow their INSERT with the event that *)
(* names the same row, whatever other requests do in between.              *)
THEOREM ConsentAlwaysCovers == Spec => []ConsentCoversConnection
<1>1. Init => ConsentCoversConnection
  BY DEF Init, DbInit, ConsentCoversConnection, Rows
<1>2. QED
  BY <1>1, NextConsentCovers, TypeCorrect, PTL DEF Spec

-----------------------------------------------------------------------------
(* Row r's revocation is on record, or a revoke loop is about to record    *)
(* it.                                                                     *)
Revoked(r) ==
    \/ \E e \in consents : e.action \in Revocations /\ SameEventId(e, r)
    \/ \E s \in Slot : task[s].pc \in LoopPc /\ SameId(task[s].cur, r)

LEMMA NextRevocationTraced ==
    TypeInv /\ RevocationLeavesTrace /\ [Next]_vars => RevocationLeavesTrace'
<1> SUFFICES ASSUME TypeInv, RevocationLeavesTrace, [Next]_vars,
                    faults' = 0, NEW r \in Rows', ~conns'[r].live
             PROVE  Revoked(r)'
  BY DEF RevocationLeavesTrace, Revoked
<1>0. ASSUME NEW s \in Slot, task[s].pc \in LoopPc
      PROVE  task[s].cur \in Rows
  BY <1>0 DEF TypeInv, LocalsOK, LocalOK
<1>1. CASE Quiet
  <2>1. Revoked(r)
    BY <1>1 DEF Quiet, Rows, RevocationLeavesTrace, Revoked
  <2>2. ASSUME NEW s \in Slot, task[s].pc \in LoopPc
        PROVE  task'[s] = task[s]
    BY <1>1, <2>2 DEF Quiet, OwesEvent
  <2>3. QED
    BY <1>1, <2>1, <2>2 DEF Quiet, Revoked, SameEventId, SameId
<1>2. ASSUME NEW t \in Slot, InsertRow(t) PROVE Revoked(r)'
  <2>1. /\ \A s \in Slot : task[s].pc \in LoopPc => task'[s] = task[s]
        /\ consents' = consents /\ faults = 0
    BY <1>2 DEF InsertRow, Goto, At, LoopPc, TypeInv, TypeOK
  <2>2. r \in Rows
    <3>1. NewRow(t).live
      BY DEF NewRow
    <3>2. conns'[r] # NewRow(t)
      BY <3>1
    <3>3. QED
      BY <1>2, <3>2, InsertAppends
  <2>3. \A q \in Rows : conns'[q] = conns[q]
    BY <1>2, InsertAppends
  <2>4. Revoked(r)
    BY <2>1, <2>2, <2>3 DEF RevocationLeavesTrace, Revoked
  <2>5. QED
    BY <1>0, <2>1, <2>2, <2>3, <2>4 DEF Revoked, SameEventId, SameId
<1>3. ASSUME NEW t \in Slot, RecordGranted(t) PROVE Revoked(r)'
  <2>1. /\ conns' = conns /\ faults = 0 /\ consents \subseteq consents'
        /\ \A s \in Slot : task[s].pc \in LoopPc => task'[s] = task[s]
    BY <1>3 DEF RecordGranted, Finish, At, LoopPc, TypeInv, TypeOK
  <2>2. Revoked(r)
    BY <2>1 DEF Rows, RevocationLeavesTrace, Revoked
  <2>3. QED
    BY <2>1, <2>2 DEF Revoked, SameEventId, SameId
<1>4. ASSUME NEW t \in Slot, Visits(t) PROVE Revoked(r)'
  <2>1. PICK w \in BOOLEAN, pc \in LoopPc, q \in Rows :
            /\ conns' = Disconnect(q, w)
            /\ task'[t].pc = pc
            /\ task'[t].cur = q
    BY <1>4 DEF Visits
  <2>2. /\ consents' = consents /\ faults = 0
        /\ \A s \in Slot : task[s].pc \in LoopPc => task'[s] = task[s]
    BY <1>4 DEF Visits, OnlyMoves, OwesEvent
  <2>3. /\ r \in Rows
        /\ \A p \in Rows : /\ conns'[p].user = conns[p].user
                           /\ conns'[p].inst = conns[p].inst
                           /\ conns'[p].seq = conns[p].seq
        /\ ~SameId(q, r) => conns'[r] = conns[r]
    BY <2>1, DisconnectKeeps
  <2>4. CASE SameId(q, r)
    <3>1. SameId(q, r)'
      BY <2>3, <2>4 DEF SameId
    <3>2. QED
      BY <2>1, <3>1 DEF Revoked, SameId
  <2>5. CASE ~SameId(q, r)
    <3>1. Revoked(r)
      BY <2>2, <2>3, <2>5 DEF RevocationLeavesTrace, Revoked
    <3>2. QED
      BY <1>0, <2>2, <2>3, <3>1 DEF Revoked, SameEventId, SameId
  <2>6. QED
    BY <2>4, <2>5
<1>5. ASSUME NEW t \in Slot, Traces(t) PROVE Revoked(r)'
  <2>1. /\ conns' = conns /\ faults = 0
        /\ consents' = consents \cup {EventFor(task[t].cur, task[t].why)}
        /\ \A s \in Slot \ {t} : task'[s] = task[s]
    BY <1>5 DEF Traces, OnlyMoves, RecordRevocation
  <2>2. Revoked(r)
    BY <2>1 DEF Rows, RevocationLeavesTrace, Revoked
  <2>3. task[t].why \in Revocations
    BY DEF TypeInv, TypeOK, Task
  <2>4. CASE SameId(task[t].cur, r)
    <3> DEFINE e == EventFor(task[t].cur, task[t].why)
    <3>1. /\ e.action = task[t].why
          /\ e.user = conns[task[t].cur].user
          /\ e.inst = conns[task[t].cur].inst
          /\ e.seq = conns[task[t].cur].seq
      BY DEF EventFor
    <3>2. e \in consents'
      BY <2>1
    <3> HIDE DEF e
    <3>3. /\ e.user = conns'[r].user /\ e.inst = conns'[r].inst
          /\ e.seq = conns'[r].seq
      BY <2>1, <2>4, <3>1 DEF SameId
    <3>4. QED
      BY <2>3, <3>1, <3>2, <3>3 DEF Revoked, SameEventId
  <2>5. CASE ~SameId(task[t].cur, r)
    BY <2>1, <2>2, <2>5 DEF Revoked, SameEventId, SameId
  <2>6. QED
    BY <2>4, <2>5
<1>6. QED
  BY <1>1, <1>2, <1>3, <1>4, <1>5, StepKinds

(* No connection is disconnected without a trace: revoke and both cascades *)
(* follow every UPDATE with the event that names the row, whichever loops  *)
(* run at the same time and even when two of them visit the same row.      *)
THEOREM RevocationAlwaysTraced == Spec => []RevocationLeavesTrace
<1>1. Init => RevocationLeavesTrace
  BY DEF Init, DbInit, RevocationLeavesTrace, Rows
<1>2. QED
  BY <1>1, NextRevocationTraced, TypeCorrect, PTL DEF Spec

=============================================================================
