--------------------------- MODULE HubAdminProofs ---------------------------
(* What the requests of a single administrator achieve, whatever users do  *)
(* at the same time: both cascades reach every connection they are meant   *)
(* for, and the admin trail tells the state of the database.               *)
EXTENDS HubGrantProofs

(* One administrator, who waits for each answer. *)
OneAdmin == \A s, t \in AdminSlot : s = t

-----------------------------------------------------------------------------
(* The inductive invariant.  What an admin request has read of the gates   *)
(* stays true until it ends, because nobody else writes them.              *)

SiamPath == {"siam_check", "siam_write", "siam_readback", "siam_audit",
             "siam_cascade", "siam_wipe", "siam_wiped"}

AdminPc == AdminPath \cup SiamPath

(* What the locals of the request in slot t have to do with the two gates. *)
Knows(t) ==
    LET i == task[t].inst
    IN  /\ task[t].pc \in AdminPc => t \in AdminSlot
        /\ task[t].pc \in {"create", "delete_audit"} => instances[i] = {}
        /\ At(t, "update") => instances[i] = {task[t].was}
        /\ task[t].pc \in {"create_audit", "update_audit"}
              => instances[i] = {task[t].will}
        /\ task[t].pc \in {"siam_check", "siam_write"}
              => SiamResult = {task[t].prev}
        /\ At(t, "siam_write") => task[t].was = (siam # {})
        /\ task[t].pc \in {"siam_readback", "siam_audit", "siam_cascade"}
              => siam = {task[t].next}

AdminKnows == \A t \in Slot : Knows(t)

(* No id has two rows, and SIAMMapping has at most one. *)
OneVersion ==
    /\ \A i \in Instance : \A x, y \in instances[i] : x = y
    /\ \A m, n \in siam : m = n

(* The rows a closed gate is to sweep existed when it was closed. *)
MarksArePast ==
    \A i \in Instance : /\ disabledAt[i] <= Len(conns)
                        /\ orphanedAt[i] <= Len(conns)

GatesInv == AdminKnows /\ OneVersion /\ MarksArePast

-----------------------------------------------------------------------------
(* What a step can do to the rows and to the gates.                        *)

(* Rows are only added, at the end, and a live row was live before. *)
RowsOnlyAge ==
    /\ Len(conns) <= Len(conns')
    /\ \A r \in LiveRows' :
          \/ r \in LiveRows /\ conns'[r].inst = conns[r].inst
          \/ r > Len(conns)

LEMMA NextRows ==
    ASSUME TypeInv, [Next]_vars
    PROVE  RowsOnlyAge
<1>0. Len(conns) \in Nat /\ Rows = 1..Len(conns)
  BY DEF TypeInv, TypeOK, Rows
<1>1. CASE UNCHANGED conns
  BY <1>0, <1>1 DEF RowsOnlyAge, LiveRows, Rows
<1>2. ASSUME NEW w \in BOOLEAN, NEW r \in Rows, conns' = Disconnect(r, w)
      PROVE  RowsOnlyAge
  <2>1. /\ Rows' = Rows /\ LiveRows' \subseteq LiveRows
        /\ \A q \in Rows : conns'[q].inst = conns[q].inst
    BY <1>2, DisconnectKeeps, DisconnectShrinks
  <2>2. conns' \in Seq(Connection)
    BY <1>2, DisconnectType DEF TypeInv, TypeOK
  <2>3. Len(conns') = Len(conns)
    BY <1>0, <2>1, <2>2 DEF Rows
  <2>4. QED
    BY <1>0, <2>1, <2>3 DEF RowsOnlyAge, LiveRows
<1>3. ASSUME NEW t \in Slot, InsertRow(t)
      PROVE  RowsOnlyAge
  <2>1. /\ Rows' = Rows \cup {Len(conns) + 1}
        /\ \A q \in Rows : conns'[q] = conns[q]
    BY <1>3, InsertAppends
  <2>2. conns' = Append(conns, NewRow(t))
    BY <1>3 DEF InsertRow
  <2>3. Len(conns') = Len(conns) + 1
    BY <2>2 DEF TypeInv, TypeOK
  <2>4. QED
    BY <1>0, <2>1, <2>3 DEF RowsOnlyAge, LiveRows
<1>4. QED
  BY <1>1, <1>2, <1>3, GrantSteps
     DEF Aside, Sweeps, Grants, CheckDuplicate, ReadNextSeq, dbVars

gates == <<instances, siam, trail, disabledAt, orphanedAt>>

(* A step that has nothing to do with any admin request. *)
Elsewhere ==
    /\ UNCHANGED gates
    /\ \A s \in Slot : \/ task'[s] = task[s]
                       \/ task[s].pc \notin AdminPc /\ task'[s].pc \notin AdminPc

LEMMA UserElsewhere ==
    ASSUME TypeInv, NEW t \in Slot, UserStarts(t) \/ UserContinues(t)
    PROVE  Elsewhere /\ UNCHANGED faults
<1> USE DEF TypeInv, TypeOK, gates, historyVars, dbVars
<1> USE DEF AdminPc, AdminPath, SiamPath
<1>1. CASE UserStarts(t)
  <2>1. PICK u \in User, i \in Instance :
            \/ GrantFetch(t, u, i)
            \/ InitiateFetch(t, u, i)
            \/ \E f \in Flow, c \in Code : CompleteFetch(t, u, i, f, c)
            \/ RevokeQuery(t, u, i)
    BY <1>1 DEF UserStarts
  <2>2. UNCHANGED <<dbVars, faults, historyVars>> /\ task[t].pc = "idle"
    BY <2>1 DEF GrantFetch, InitiateFetch, CompleteFetch, RevokeQuery,
       Arrives, At
  <2>3. /\ \A s \in Slot \ {t} : task'[s] = task[s]
        /\ task'[t].pc \in {"grant_siam", "mint", "complete_siam", "revoke"}
    <3>1. CASE GrantFetch(t, u, i)
      BY <3>1, IdleType DEF GrantFetch, Task
    <3>2. CASE InitiateFetch(t, u, i)
      BY <3>2, IdleType DEF InitiateFetch, Task
    <3>3. CASE \E f \in Flow, c \in Code : CompleteFetch(t, u, i, f, c)
      BY <3>3, IdleType DEF CompleteFetch, Task
    <3>4. CASE RevokeQuery(t, u, i)
      BY <3>4, IdleType DEF RevokeQuery, Task
    <3>5. QED
      BY <2>1, <3>1, <3>2, <3>3, <3>4
  <2>4. QED
    BY <2>2, <2>3 DEF Elsewhere
<1>2. CASE UserContinues(t)
  <2>1. /\ UNCHANGED <<instances, siam, trail, faults, disabledAt, orphanedAt>>
        /\ task[t].pc \in GrantPc \cup {"mint", "revoke", "revoked"}
    BY <1>2 DEF UserContinues, GrantGate, CheckDuplicate, ReadNextSeq,
       InsertRow, RecordGranted, MintState, CompleteGate, Exchange, RevokeRow,
       RevokeEvent, At, GrantPc
  <2>2. /\ \A s \in Slot \ {t} : task'[s] = task[s]
        /\ task'[t].pc \in GrantPc \cup {"idle", "revoke", "revoked"}
    <3>1. CASE GrantGate(t) \/ CheckDuplicate(t) \/ InsertRow(t)
               \/ RecordGranted(t) \/ MintState(t) \/ CompleteGate(t)
               \/ RevokeEvent(t)
      BY <3>1 DEF GrantGate, CheckDuplicate, InsertRow, RecordGranted,
         MintState, CompleteGate, RevokeEvent, Goto, Finish, Idle, Task, GrantPc
    <3>2. CASE ReadNextSeq(t) \/ Exchange(t)
      BY <3>2 DEF ReadNextSeq, Exchange, Finish, Idle, Task, GrantPc
    <3>3. CASE RevokeRow(t)
      BY <3>3 DEF RevokeRow, VisitRow, Task
    <3>4. QED
      BY <1>2, <3>1, <3>2, <3>3 DEF UserContinues
  <2>3. QED
    BY <2>1, <2>2 DEF Elsewhere, GrantPc
<1>3. QED
  BY <1>1, <1>2

LEMMA GateSteps ==
    ASSUME TypeInv, [Next]_vars
    PROVE  \/ Elsewhere /\ UNCHANGED faults
           \/ \E t \in Slot : CutShort(t) \/ AdminStarts(t) \/ AdminContinues(t)
<1>1. ASSUME NEW f \in Flow, NEW m \in Mailbox, IdpAuthorize(f, m)
      PROVE  Elsewhere /\ UNCHANGED faults
  BY <1>1 DEF IdpAuthorize, Elsewhere, gates, dbVars, historyVars
<1>2. CASE UNCHANGED vars
  BY <1>2 DEF vars, Elsewhere, gates
<1>3. QED
  BY <1>1, <1>2, UserElsewhere DEF Next, Continues

-----------------------------------------------------------------------------
(* The invariant is kept.                                                  *)

LEMMA OthersIdle ==
    ASSUME OneAdmin, AdminKnows, NEW t \in AdminSlot, NEW s \in Slot, s # t
    PROVE  task[s].pc \notin AdminPc
BY DEF OneAdmin, AdminKnows, Knows

(* Only the locals of the administrator's own request are at stake. *)
LEMMA OneAdminStep ==
    ASSUME OneAdmin, AdminKnows, NEW t \in AdminSlot, OnlyMoves(t), Knows(t)'
    PROVE  AdminKnows'
<1>1. ASSUME NEW s \in Slot, s # t
      PROVE  Knows(s)'
  <2>1. task'[s] = task[s] /\ task'[s].pc \notin AdminPc
    BY <1>1, OthersIdle DEF OnlyMoves
  <2>2. QED
    BY <2>1 DEF Knows, At, AdminPc, AdminPath, SiamPath
<1>2. QED
  BY <1>1 DEF AdminKnows

LEMMA InitGates == Init => GatesInv
<1> SUFFICES ASSUME Init PROVE GatesInv
  OBVIOUS
<1>1. \A t \in Slot : task[t].pc = "idle"
  BY DEF Init, DbInit, Idle
<1>2. AdminKnows
  BY <1>1 DEF AdminKnows, Knows, At, AdminPc, AdminPath, SiamPath
<1>3. OneVersion
  BY DEF Init, DbInit, OneVersion
<1>4. MarksArePast
  BY DEF Init, DbInit, MarksArePast
<1>5. QED
  BY <1>2, <1>3, <1>4 DEF GatesInv

LEMMA ElsewhereKnows ==
    ASSUME AdminKnows, Elsewhere
    PROVE  AdminKnows'
<1>1. ASSUME NEW s \in Slot
      PROVE  Knows(s)'
  <2>1. CASE task'[s] = task[s]
    BY <2>1 DEF AdminKnows, Knows, At, SiamResult, Elsewhere, gates
  <2>2. CASE task'[s].pc \notin AdminPc
    BY <2>2 DEF Knows, At, AdminPc, AdminPath, SiamPath
  <2>3. QED
    BY <2>1, <2>2 DEF Elsewhere
<1>2. QED
  BY <1>1 DEF AdminKnows

(* A request that ends knows nothing. *)
LEMMA FinishKnows ==
    ASSUME TypeInv, NEW t \in Slot, Finish(t)
    PROVE  OnlyMoves(t) /\ Knows(t)'
<1>1. OnlyMoves(t) /\ task'[t].pc = "idle"
  BY DEF Finish, OnlyMoves, Idle, TypeInv, TypeOK
<1>2. QED
  BY <1>1 DEF Knows, At, AdminPc, AdminPath, SiamPath

LEMMA CutShortKnows ==
    ASSUME TypeInv, AdminKnows, NEW t \in Slot, CutShort(t)
    PROVE  AdminKnows'
<1>1. UNCHANGED gates /\ OnlyMoves(t) /\ Knows(t)'
  BY FinishKnows DEF CutShort, gates, dbVars, historyVars
<1>2. QED
  BY <1>1 DEF AdminKnows, Knows, At, SiamResult, OnlyMoves, gates

LEMMA AdminStartsKnows ==
    ASSUME TypeInv, OneVersion, NEW t \in Slot, AdminStarts(t)
    PROVE  t \in AdminSlot /\ OnlyMoves(t) /\ Knows(t)'
<1> USE DEF TypeInv, TypeOK
<1>1. t \in AdminSlot /\ OnlyMoves(t) /\ UNCHANGED dbVars
  BY AdminStartsAway
     DEF AdminStarts, CreateCheck, UpdateRead, DeleteRead, SiamRead, AdminArrives
<1>2. ASSUME NEW i \in Instance, NEW e \in BOOLEAN, CreateCheck(t, i, e)
      PROVE  Knows(t)'
  <2>1. task'[t].pc = "create" /\ task'[t].inst = i /\ instances[i] = {}
    BY <1>2, IdleType DEF CreateCheck, Task
  <2>2. QED
    BY <1>1, <2>1 DEF Knows, At, dbVars
<1>3. ASSUME NEW i \in Instance, NEW e, UpdateRead(t, i, e)
      PROVE  Knows(t)'
  <2>1. PICK x \in instances[i] : task'[t].was = x
        /\ task'[t].pc = "update" /\ task'[t].inst = i
    BY <1>3, IdleType DEF UpdateRead, Task
  <2>2. instances[i] = {x}
    BY DEF OneVersion
  <2>3. QED
    BY <1>1, <2>1, <2>2 DEF Knows, At, dbVars
<1>4. ASSUME NEW i \in Instance, DeleteRead(t, i)
      PROVE  Knows(t)'
  <2>1. task'[t].pc = "cascade"
    BY <1>4, IdleType DEF DeleteRead, Task
  <2>2. QED
    BY <1>1, <2>1 DEF Knows, At
<1>5. ASSUME NEW m \in Mapping, SiamRead(t, m)
      PROVE  Knows(t)'
  <2>1. PICK before \in SiamResult :
            task'[t].pc = "siam_check" /\ task'[t].prev = before
    BY <1>5, IdleType DEF SiamRead, Task
  <2>2. SiamResult = {before}
    BY DEF OneVersion, SiamResult
  <2>3. QED
    BY <1>1, <2>1, <2>2 DEF Knows, At, SiamResult, dbVars
<1>6. QED
  BY <1>1, <1>2, <1>3, <1>4, <1>5 DEF AdminStarts

LEMMA VisitArrives ==
    ASSUME TypeInv, NEW t \in Slot, NEW w, NEW pc \in LoopPc,
           VisitRow(t, w, pc)
    PROVE  OnlyMoves(t) /\ task'[t].pc = pc
BY DEF VisitRow, OnlyMoves, TypeInv, TypeOK, Task

LEMMA AdminContinuesKnows ==
    ASSUME TypeInv, AdminKnows, NEW t \in Slot, AdminContinues(t)
    PROVE  t \in AdminSlot /\ OnlyMoves(t) /\ Knows(t)'
<1>1. /\ task \in [Slot -> Task] /\ task[t] \in Task /\ Knows(t)
      /\ task[t].pc \in AdminPath => task[t].inst \in Instance
      /\ instances \in [Instance -> SUBSET BOOLEAN]
  BY DEF AdminKnows, TypeInv, TypeOK, LocalsOK, LocalOK
<1>2. t \in AdminSlot
  BY <1>1 DEF Knows, AdminPc, AdminPath, SiamPath, AdminContinues, CreateInsert,
     CreateAudit, UpdateWrite, UpdateAudit, DeleteRow, DeleteAudit,
     CascadeQuery, CascadeRow, CascadeEvent, SiamCheck, SiamWrite,
     SiamReadBack, SiamAudit, SiamQuery, SiamRow, SiamEvent, At
<1> USE <1>1, <1>2
<1>3. CASE CreateInsert(t)
  <2>1. OnlyMoves(t) /\ task'[t] = [task[t] EXCEPT !.pc = "create_audit"]
    BY <1>3, GotoMoves DEF CreateInsert, Pc
  <2>2. instances'[task[t].inst] = {task[t].will}
    BY <1>3 DEF CreateInsert, Knows, At, AdminPath
  <2>3. QED
    BY <2>1, <2>2 DEF Knows, At, Task
<1>4. CASE CreateAudit(t) \/ DeleteAudit(t)
  BY <1>4, FinishKnows DEF CreateAudit, DeleteAudit
<1>5. CASE UpdateWrite(t)
  <2>1. OnlyMoves(t) /\ task'[t] = [task[t] EXCEPT !.pc = "update_audit"]
    BY <1>5, GotoMoves DEF UpdateWrite, Pc
  <2>2. instances'[task[t].inst] = {task[t].will}
    BY <1>5 DEF UpdateWrite, Knows, At, AdminPath
  <2>3. QED
    BY <2>1, <2>2 DEF Knows, At, Task
<1>6. CASE UpdateAudit(t)
  <2>1. CASE Cascades(t)
    BY <1>6, <2>1 DEF UpdateAudit, OnlyMoves, Knows, At, Task
  <2>2. CASE ~Cascades(t)
    BY <1>6, <2>2, FinishKnows DEF UpdateAudit
  <2>3. QED
    BY <2>1, <2>2
<1>7. CASE DeleteRow(t)
  <2>1. OnlyMoves(t) /\ task'[t] = [task[t] EXCEPT !.pc = "delete_audit"]
    BY <1>7, GotoMoves DEF DeleteRow, Pc
  <2>2. instances'[task[t].inst] = {}
    BY <1>7 DEF DeleteRow, At, AdminPath
  <2>3. QED
    BY <2>1, <2>2 DEF Knows, At, Task
<1>8. ASSUME NEW pc \in {"wipe", "delete", "siam_wipe"}, Goto(t, pc)
      PROVE  OnlyMoves(t) /\ Knows(t)'
  <2>1. OnlyMoves(t) /\ task'[t] = [task[t] EXCEPT !.pc = pc]
    BY <1>8, GotoMoves DEF Pc
  <2>2. QED
    BY <2>1 DEF Knows, At, Task
<1>9. CASE CascadeQuery(t)
  <2>1. CASE AfterCascade(t)
    BY <1>8, <2>1, FinishKnows DEF AfterCascade
  <2>2. CASE task' = [task EXCEPT ![t].pc = "wipe",
                                  ![t].todo = LiveOn(task[t].inst)]
    BY <2>2 DEF OnlyMoves, Knows, At, Task
  <2>3. QED
    BY <1>9, <2>1, <2>2 DEF CascadeQuery
<1>10. CASE CascadeRow(t) \/ SiamRow(t)
  <2>1. OnlyMoves(t) /\ task'[t].pc \in {"wiped", "siam_wiped"}
    BY <1>10, VisitArrives DEF CascadeRow, SiamRow, LoopPc
  <2>2. QED
    BY <2>1 DEF Knows, At
<1>11. CASE CascadeEvent(t)
  BY <1>8, <1>11, FinishKnows DEF CascadeEvent, AfterCascade
<1>12. CASE SiamCheck(t)
  BY <1>12 DEF SiamCheck, OnlyMoves, Knows, At, SiamResult, Task, dbVars
<1>13. CASE SiamWrite(t)
  <2>1. OnlyMoves(t) /\ task'[t] = [task[t] EXCEPT !.pc = "siam_readback"]
    BY <1>13, GotoMoves DEF SiamWrite, Pc
  <2>2. siam' = {task[t].next}
    BY <1>13 DEF SiamWrite, Knows, At
  <2>3. QED
    BY <2>1, <2>2 DEF Knows, At, Task
<1>14. CASE SiamReadBack(t)
  BY <1>14 DEF SiamReadBack, OnlyMoves, Knows, At, SiamResult, Task, dbVars
<1>15. CASE SiamAudit(t)
  <2>1. CASE task[t].prev # task[t].next
    BY <1>15, <2>1 DEF SiamAudit, OnlyMoves, Knows, At, Task
  <2>2. CASE task[t].prev = task[t].next
    BY <1>15, <2>2, FinishKnows DEF SiamAudit
  <2>3. QED
    BY <2>1, <2>2
<1>16. CASE SiamQuery(t)
  <2> DEFINE doomed == NoLongerAuthorized(task[t].prev, task[t].next)
  <2>1. CASE task' = [task EXCEPT ![t].pc = "siam_wipe", ![t].todo = doomed]
    BY <2>1 DEF OnlyMoves, Knows, At, Task
  <2>2. QED
    BY <1>16, <2>1, FinishKnows DEF SiamQuery
<1>17. CASE SiamEvent(t)
  BY <1>8, <1>17, FinishKnows DEF SiamEvent
<1>18. QED
  BY <1>3, <1>4, <1>5, <1>6, <1>7, <1>9, <1>10, <1>11, <1>12, <1>13,
     <1>14, <1>15, <1>16, <1>17 DEF AdminContinues

(* No id gets a second row: CreateInsert inserts where there is none. *)
LEMMA NextOneVersion ==
    ASSUME TypeInv, AdminKnows, OneVersion, [Next]_vars
    PROVE  OneVersion'
<1> USE DEF TypeInv, TypeOK, OneVersion
<1>1. CASE UNCHANGED <<instances, siam>>
  BY <1>1
<1>2. ASSUME NEW t \in Slot, AdminContinues(t)
      PROVE  OneVersion'
  <2>1. CASE CreateInsert(t)
    BY <2>1 DEF CreateInsert, AdminKnows, Knows, At
  <2>2. CASE UpdateWrite(t)
    BY <2>2 DEF UpdateWrite
  <2>3. CASE DeleteRow(t)
    BY <2>3 DEF DeleteRow
  <2>4. CASE SiamWrite(t)
    BY <2>4 DEF SiamWrite, AdminKnows, Knows, At
  <2>5. CASE UNCHANGED <<instances, siam>>
    BY <2>5
  <2>6. QED
    BY <1>2, <2>1, <2>2, <2>3, <2>4, <2>5
       DEF AdminContinues, CreateAudit, UpdateAudit, DeleteAudit, CascadeQuery,
       CascadeRow, CascadeEvent, SiamCheck, SiamReadBack, SiamAudit,
       SiamQuery, SiamRow, SiamEvent, dbVars
<1>3. ASSUME NEW t \in Slot, CutShort(t) \/ AdminStarts(t)
      PROVE  UNCHANGED <<instances, siam>>
  BY <1>3 DEF CutShort, AdminStarts, CreateCheck, UpdateRead, DeleteRead,
     SiamRead, dbVars
<1>4. QED
  BY <1>1, <1>2, <1>3, GateSteps DEF Elsewhere, gates

LEMMA NextMarks ==
    ASSUME TypeInv, MarksArePast, [Next]_vars
    PROVE  MarksArePast'
<1>1. /\ Len(conns) <= Len(conns') /\ Len(conns) \in Nat /\ Len(conns') \in Nat
      /\ disabledAt \in [Instance -> Nat] /\ orphanedAt \in [Instance -> Nat]
  BY NextRows, NextTypeInv DEF RowsOnlyAge, TypeInv, TypeOK
<1>2. SUFFICES ASSUME NEW i \in Instance
               PROVE  /\ disabledAt'[i] \in {disabledAt[i], Len(conns)}
                      /\ orphanedAt'[i] \in {orphanedAt[i], Len(conns)}
  BY <1>1 DEF MarksArePast
<1>3. ASSUME NEW t \in Slot, UpdateWrite(t)
      PROVE  /\ disabledAt'[i] \in {disabledAt[i], Len(conns)}
             /\ UNCHANGED orphanedAt
  BY <1>1, <1>3 DEF UpdateWrite
<1>4. ASSUME NEW t \in Slot, SiamWrite(t)
      PROVE  /\ orphanedAt'[i] \in {orphanedAt[i], Len(conns)}
             /\ UNCHANGED disabledAt
  BY <1>4 DEF SiamWrite
<1>5. ASSUME NEW t \in Slot, CutShort(t) \/ AdminStarts(t) \/ AdminContinues(t)
      PROVE  \/ UpdateWrite(t) \/ SiamWrite(t)
             \/ UNCHANGED <<disabledAt, orphanedAt>>
  BY <1>5
     DEF CutShort, AdminStarts, CreateCheck, UpdateRead, DeleteRead, SiamRead,
     AdminContinues, CreateInsert, CreateAudit, UpdateAudit, DeleteRow,
     DeleteAudit, CascadeQuery, CascadeRow, CascadeEvent, SiamCheck,
     SiamReadBack, SiamAudit, SiamQuery, SiamRow, SiamEvent, historyVars
<1>6. QED
  BY <1>3, <1>4, <1>5, GateSteps DEF Elsewhere, gates

LEMMA NextGates ==
    ASSUME OneAdmin
    PROVE  TypeInv /\ GatesInv /\ [Next]_vars => GatesInv'
<1> SUFFICES ASSUME TypeInv, GatesInv, [Next]_vars PROVE GatesInv'
  OBVIOUS
<1>1. AdminKnows'
  BY GateSteps, ElsewhereKnows, CutShortKnows, AdminStartsKnows,
     AdminContinuesKnows, OneAdminStep DEF GatesInv
<1>2. QED
  BY <1>1, NextOneVersion, NextMarks DEF GatesInv

-----------------------------------------------------------------------------
(* The admin trail. *)

FlagAudits == {"create_audit", "update_audit", "delete_audit"}
SiamAudits == {"siam_readback", "siam_audit"}

(* Where the trail and the database differ, the request that changed the   *)
(* database is about to write its event.                                   *)
TrailInv ==
    faults = 0 =>
        /\ \A i \in Instance :
              \/ trail.flag[i] = instances[i]
              \/ \E t \in AdminSlot :
                    task[t].inst = i /\ task[t].pc \in FlagAudits
        /\ \/ trail.siam \in SiamResult
           \/ \E t \in AdminSlot : task[t].pc \in SiamAudits

LEMMA AuditsAreAdmin == FlagAudits \cup SiamAudits \subseteq AdminPc
BY DEF FlagAudits, SiamAudits, AdminPc, AdminPath, SiamPath

LEMMA ElsewhereTrail ==
    ASSUME TrailInv, Elsewhere, UNCHANGED faults
    PROVE  TrailInv'
<1>1. \A s \in AdminSlot :
          task[s].pc \in FlagAudits \cup SiamAudits => task'[s] = task[s]
  BY AuditsAreAdmin DEF Elsewhere, Slot
<1>2. QED
  BY <1>1 DEF TrailInv, Elsewhere, gates, SiamResult

LEMMA AdminStartsTrail ==
    ASSUME OneAdmin, TrailInv, NEW t \in Slot, AdminStarts(t)
    PROVE  TrailInv'
<1>1. t \in AdminSlot /\ task[t].pc = "idle" /\ UNCHANGED <<dbVars, faults>>
  BY DEF AdminStarts, CreateCheck, UpdateRead, DeleteRead, SiamRead,
     AdminArrives, At
<1>2. \A s \in AdminSlot : task[s].pc \notin FlagAudits \cup SiamAudits
  BY <1>1 DEF OneAdmin, FlagAudits, SiamAudits
<1>3. QED
  BY <1>1, <1>2 DEF TrailInv, SiamResult, dbVars

LEMMA AdminContinuesTrail ==
    ASSUME OneAdmin, TypeInv, AdminKnows, TrailInv,
           NEW t \in Slot, AdminContinues(t), faults' = 0
    PROVE  TrailInv'
<1>1. /\ t \in AdminSlot /\ OnlyMoves(t) /\ Knows(t) /\ Knows(t)'
      /\ \A s \in AdminSlot : s = t
  BY AdminContinuesKnows DEF OneAdmin, AdminKnows
<1>2. /\ task \in [Slot -> Task] /\ task[t] \in Task
      /\ task[t].pc \in AdminPath => task[t].inst \in Instance
      /\ instances \in [Instance -> SUBSET BOOLEAN]
      /\ trail \in Trail
  BY DEF TypeInv, TypeOK, LocalsOK, LocalOK
<1>3. faults = 0
  BY DEF AdminContinues, CreateInsert,
     CreateAudit, UpdateWrite, UpdateAudit, DeleteRow, DeleteAudit,
     CascadeQuery, CascadeRow, CascadeEvent, SiamCheck, SiamWrite,
     SiamReadBack, SiamAudit, SiamQuery, SiamRow, SiamEvent
<1>4. /\ \A i \in Instance :
            \/ trail.flag[i] = instances[i]
            \/ task[t].inst = i /\ task[t].pc \in FlagAudits
      /\ trail.siam \in SiamResult \/ task[t].pc \in SiamAudits
  BY <1>1, <1>3 DEF TrailInv
<1> SUFFICES /\ \A i \in Instance :
                   \/ trail'.flag[i] = instances'[i]
                   \/ task'[t].inst = i /\ task'[t].pc \in FlagAudits
             /\ trail'.siam \in SiamResult' \/ task'[t].pc \in SiamAudits
  BY <1>1 DEF TrailInv
<1> USE <1>1, <1>2, <1>4
(* The writes: the request moves on to its audit. *)
<1>5. CASE CreateInsert(t) \/ UpdateWrite(t) \/ DeleteRow(t)
  <2>1. /\ task[t].pc \in {"create", "update", "delete"}
        /\ task'[t].inst = task[t].inst /\ task'[t].pc \in FlagAudits
        /\ UNCHANGED <<siam, trail>>
        /\ \A i \in Instance \ {task[t].inst} : instances'[i] = instances[i]
    BY <1>5 DEF CreateInsert, UpdateWrite, DeleteRow, At, Goto, FlagAudits, Task
  <2>2. QED
    BY <2>1 DEF SiamResult, FlagAudits, SiamAudits
<1>6. CASE SiamWrite(t) \/ SiamReadBack(t)
  <2>1. /\ task[t].pc \in {"siam_write", "siam_readback"}
        /\ task'[t].pc \in SiamAudits
        /\ UNCHANGED <<instances, trail>>
    BY <1>6 DEF SiamWrite, SiamReadBack, At, Goto, SiamAudits, Task, dbVars
  <2>2. QED
    BY <2>1 DEF FlagAudits
(* The audits: the event says what was written. *)
<1>7. CASE CreateAudit(t) \/ UpdateAudit(t) \/ DeleteAudit(t)
  <2>1. /\ task[t].pc \in FlagAudits
        /\ UNCHANGED <<instances, siam>> /\ trail'.siam = trail.siam
        /\ trail'.flag = [trail.flag EXCEPT
                             ![task[t].inst] = instances[task[t].inst]]
    BY <1>7 DEF CreateAudit, UpdateAudit, DeleteAudit, At, FlagAudits, Trail,
       Knows
  <2>2. trail.flag \in [Instance -> SUBSET BOOLEAN]
    BY DEF Trail
  <2>3. QED
    BY <2>1, <2>2 DEF SiamResult, FlagAudits, SiamAudits
<1>8. CASE SiamAudit(t)
  <2>1. /\ task[t].pc = "siam_audit" /\ UNCHANGED <<instances, siam>>
        /\ trail'.flag = trail.flag /\ trail'.siam = task[t].next
    BY <1>8 DEF SiamAudit, At, Trail
  <2>2. QED
    BY <2>1 DEF Knows, SiamResult, FlagAudits
(* The rest changes neither side, and is at no audit. *)
<1>9. CASE CascadeQuery(t) \/ CascadeRow(t) \/ CascadeEvent(t) \/ SiamCheck(t)
           \/ SiamQuery(t) \/ SiamRow(t) \/ SiamEvent(t)
  <2>1. /\ task[t].pc \notin FlagAudits \cup SiamAudits
        /\ UNCHANGED <<instances, siam, trail>>
    BY <1>9 DEF CascadeQuery, CascadeRow, CascadeEvent, SiamCheck, SiamQuery,
       SiamRow, SiamEvent, At, FlagAudits, SiamAudits, dbVars
  <2>2. QED
    BY <2>1 DEF SiamResult
<1>10. QED
  BY <1>5, <1>6, <1>7, <1>8, <1>9 DEF AdminContinues

LEMMA NextTrail ==
    ASSUME OneAdmin
    PROVE  TypeInv /\ GatesInv /\ TrailInv /\ [Next]_vars => TrailInv'
<1> SUFFICES ASSUME TypeInv, GatesInv, TrailInv, [Next]_vars, faults' = 0
             PROVE  TrailInv'
  BY DEF TrailInv
<1>1. ASSUME NEW t \in Slot, CutShort(t) PROVE FALSE
  BY <1>1 DEF CutShort, TypeInv, TypeOK
<1>2. QED
  BY <1>1, GateSteps, ElsewhereTrail, AdminStartsTrail, AdminContinuesTrail
     DEF GatesInv

(* With one administrator, and no request cut short, AdminAuditService's   *)
(* latest event of an instance and of the mapping is what the tables hold  *)
(* whenever no admin request is in progress: create, update, delete and    *)
(* replace audit after the write and audit what they wrote, and the users' *)
(* requests in between change nothing of it.                               *)
THEOREM TrailAlwaysTells == OneAdmin => (Spec => []TrailTellsState)
<1> SUFFICES ASSUME OneAdmin PROVE Spec => []TrailTellsState
  OBVIOUS
<1>1. TypeInv /\ GatesInv /\ [Next]_vars => GatesInv'
  BY NextGates
<1>2. TypeInv /\ GatesInv /\ TrailInv /\ [Next]_vars => TrailInv'
  BY NextTrail
<1>3. Init => TrailInv
  <2> SUFFICES ASSUME Init PROVE TrailInv
    OBVIOUS
  <2>1. trail.flag = instances /\ trail.siam = SeedMapping
    BY DEF Init, DbInit
  <2>2. SeedMapping \in SiamResult
    BY DEF Init, DbInit, SiamResult
  <2>3. QED
    BY <2>1, <2>2 DEF TrailInv
<1>4. TypeInv /\ TrailInv => TrailTellsState
  <2> SUFFICES ASSUME TypeInv, TrailInv, faults = 0,
                      \A t \in AdminSlot : At(t, "idle")
               PROVE  trail.flag = instances /\ trail.siam \in SiamResult
    BY DEF TrailTellsState
  <2>1. /\ \A i \in Instance : trail.flag[i] = instances[i]
        /\ trail.siam \in SiamResult
    BY DEF TrailInv, At, FlagAudits, SiamAudits
  <2>2. /\ trail.flag \in [Instance -> SUBSET BOOLEAN]
        /\ instances \in [Instance -> SUBSET BOOLEAN]
    BY DEF TypeInv, TypeOK, Trail
  <2>3. QED
    BY <2>1, <2>2
<1>5. QED
  BY <1>1, <1>2, <1>3, <1>4, InitGates, TypeCorrect, PTL DEF Spec

-----------------------------------------------------------------------------
(* The cascade of a disable.                                               *)

(* The row a loop visits is not live any more. *)
LEMMA VisitedIsDead ==
    ASSUME TypeInv, NEW q \in Rows, NEW w \in BOOLEAN,
           conns' = Disconnect(q, w)
    PROVE  ~conns'[q].live
<1>1. conns[q] \in Connection /\ SameId(q, q)
  BY DEF TypeInv, TypeOK, Rows, SameId
<1>2. conns'[q] = [conns[q] EXCEPT !.status = "disconnected", !.live = FALSE,
                       !.creds = IF w THEN None ELSE @]
  BY <1>1 DEF Disconnect
<1>3. QED
  BY <1>1, <1>2 DEF Connection

(* A live row below a mark that this step does not move was live and       *)
(* below it before.                                                        *)
LEMMA MarkedBefore ==
    ASSUME TypeInv, MarksArePast, [Next]_vars, NEW r \in LiveRows',
           NEW mark \in {disabledAt, orphanedAt},
           r <= mark[conns'[r].inst]
    PROVE  r \in LiveRows /\ conns'[r].inst = conns[r].inst
<1>1. conns' \in Seq(Connection) /\ r \in DOMAIN conns'
  BY NextTypeInv DEF TypeInv, TypeOK, LiveRows, Rows
<1>2. conns'[r] \in Connection /\ r \in Nat /\ Len(conns) \in Nat
  BY <1>1 DEF TypeInv, TypeOK
<1>3. mark[conns'[r].inst] \in Nat /\ mark[conns'[r].inst] <= Len(conns)
  BY <1>2 DEF Connection, TypeInv, TypeOK, MarksArePast
<1>4. ~(r > Len(conns))
  BY <1>2, <1>3
<1>5. QED
  BY <1>4, NextRows DEF RowsOnlyAge

(* The awaits at which a request may still owe a disable its cascade. *)
DisableAwaits == {"update_audit", "cascade", "wipe", "wiped"}

LEMMA ElsewhereDisable ==
    ASSUME Elsewhere, NEW r, conns'[r].inst = conns[r].inst,
           DisablePending(r)
    PROVE  DisablePending(r)'
<1>1. PICK s \in AdminSlot :
          /\ task[s].inst = conns[r].inst
          /\ \/ At(s, "update_audit") /\ Cascades(s)
             \/ At(s, "cascade")
             \/ task[s].pc \in {"wipe", "wiped"} /\ r \in task[s].todo
  BY DEF DisablePending
<1>2. task[s].pc \in AdminPc
  BY <1>1 DEF At, AdminPc, AdminPath
<1>3. task'[s] = task[s]
  BY <1>2 DEF Elsewhere, Slot
<1>4. QED
  BY <1>1, <1>3 DEF DisablePending, At, Cascades

LEMMA NextDisable ==
    ASSUME OneAdmin
    PROVE  TypeInv /\ GatesInv /\ DisableSweepsAll /\ [Next]_vars
              => DisableSweepsAll'
<1> SUFFICES ASSUME TypeInv, GatesInv, DisableSweepsAll, [Next]_vars,
                    faults' = 0, NEW r \in LiveRows',
                    r <= disabledAt'[conns'[r].inst]
             PROVE  DisablePending(r)'
  BY DEF DisableSweepsAll
<1> DEFINE i == conns'[r].inst
<1>1. ASSUME faults = 0, disabledAt'[i] = disabledAt[i]
      PROVE  r \in LiveRows /\ conns[r].inst = i /\ DisablePending(r)
  BY <1>1, MarkedBefore DEF GatesInv, DisableSweepsAll
<1>2. CASE Elsewhere /\ UNCHANGED faults
  BY <1>1, <1>2, ElsewhereDisable DEF Elsewhere, gates
<1>3. ASSUME NEW t \in Slot, CutShort(t) PROVE FALSE
  BY <1>3 DEF CutShort, TypeInv, TypeOK
<1>4. ASSUME NEW t \in Slot, AdminStarts(t) PROVE DisablePending(r)'
  <2>1. /\ t \in AdminSlot /\ task[t].pc = "idle"
        /\ UNCHANGED <<faults, disabledAt>>
    BY <1>4 DEF AdminStarts, CreateCheck, UpdateRead, DeleteRead, SiamRead,
       AdminArrives, At, historyVars
  <2>2. ~DisablePending(r)
    BY <2>1 DEF OneAdmin, DisablePending, At
  <2>3. QED
    BY <1>1, <2>1, <2>2
<1>5. ASSUME NEW t \in Slot, AdminContinues(t) PROVE DisablePending(r)'
  <2>1. /\ t \in AdminSlot /\ Knows(t) /\ \A s \in AdminSlot : s = t
        /\ task \in [Slot -> Task] /\ task[t] \in Task
        /\ task[t].pc \in AdminPath => task[t].inst \in Instance
    BY <1>5, AdminContinuesKnows
       DEF OneAdmin, GatesInv, AdminKnows, TypeInv, TypeOK, LocalsOK, LocalOK
  <2>2. faults = 0
    BY <1>5 DEF AdminContinues, CreateInsert,
       CreateAudit, UpdateWrite, UpdateAudit, DeleteRow, DeleteAudit,
       CascadeQuery, CascadeRow, CascadeEvent, SiamCheck, SiamWrite,
       SiamReadBack, SiamAudit, SiamQuery, SiamRow, SiamEvent
  <2>3. \/ task[t].pc \notin DisableAwaits /\ disabledAt' = disabledAt
        \/ UpdateWrite(t) \/ UpdateAudit(t)
        \/ CascadeQuery(t) \/ CascadeRow(t) \/ CascadeEvent(t)
    BY <1>5 DEF DisableAwaits, AdminContinues, CreateInsert,
       CreateAudit, DeleteRow, DeleteAudit, SiamCheck, SiamWrite,
       SiamReadBack, SiamAudit, SiamQuery, SiamRow, SiamEvent, At, historyVars
  <2>4. ASSUME disabledAt'[i] = disabledAt[i]
        PROVE  /\ r \in LiveRows /\ conns[r].inst = i /\ task[t].inst = i
               /\ \/ At(t, "update_audit") /\ Cascades(t)
                  \/ At(t, "cascade")
                  \/ task[t].pc \in {"wipe", "wiped"} /\ r \in task[t].todo
    BY <1>1, <2>1, <2>2, <2>4 DEF DisablePending
  <2>5. CASE task[t].pc \notin DisableAwaits /\ disabledAt' = disabledAt
    BY <2>4, <2>5 DEF DisableAwaits, At
  <2>6. CASE UpdateWrite(t)
    <3>1. /\ task[t].pc = "update" /\ task[t].inst \in Instance
          /\ disabledAt' = [disabledAt EXCEPT ![task[t].inst] =
                               IF Disables(t) THEN Len(conns) ELSE @]
          /\ task'[t] = [task[t] EXCEPT !.pc = "update_audit"]
      BY <2>1, <2>6 DEF UpdateWrite, At, Goto, AdminPath
    <3>2. disabledAt'[i] # disabledAt[i]
      BY <2>4, <3>1 DEF At
    <3>3. i = task[t].inst /\ Disables(t)
      BY <3>1, <3>2 DEF TypeInv, TypeOK
    <3>4. Cascades(t)
      BY <2>1, <3>1, <3>3 DEF Disables, Cascades, Knows, At
    <3>5. /\ task'[t].pc = "update_audit" /\ task'[t].inst = i
          /\ task'[t].was = task[t].was /\ task'[t].will = task[t].will
      BY <2>1, <3>1, <3>3 DEF Task
    <3>6. QED
      BY <2>1, <3>4, <3>5 DEF DisablePending, Cascades, At
  <2>7. CASE UpdateAudit(t)
    <3>1. At(t, "update_audit") /\ UNCHANGED <<conns, disabledAt>>
      BY <2>7 DEF UpdateAudit, historyVars
    <3>2. task[t].inst = i /\ Cascades(t)
      BY <2>4, <3>1 DEF At
    <3>3. task'[t].pc = "cascade" /\ task'[t].inst = i
      BY <2>1, <2>7, <3>2 DEF UpdateAudit, Task
    <3>4. QED
      BY <2>1, <3>3 DEF DisablePending, At
  <2>8. CASE CascadeQuery(t)
    <3>1. At(t, "cascade") /\ UNCHANGED <<conns, disabledAt>>
      BY <2>8 DEF CascadeQuery, historyVars, dbVars
    <3>2. task[t].inst = i /\ r \in LiveOn(task[t].inst)
      BY <2>4, <3>1 DEF LiveOn
    <3>3. task' = [task EXCEPT ![t].pc = "wipe",
                               ![t].todo = LiveOn(task[t].inst)]
      BY <2>8, <3>2 DEF CascadeQuery
    <3>4. /\ task'[t].pc = "wipe" /\ task'[t].inst = i
          /\ task'[t].todo = LiveOn(task[t].inst)
      BY <2>1, <3>2, <3>3 DEF Task
    <3>5. QED
      BY <2>1, <3>2, <3>4 DEF DisablePending
  <2>9. CASE CascadeRow(t)
    <3>1. task[t].pc = "wipe" /\ disabledAt' = disabledAt
      BY <2>9 DEF CascadeRow, At, historyVars
    <3>2. task[t].inst = i /\ r \in task[t].todo /\ r \in Rows
      BY <2>4, <3>1 DEF At, LiveRows
    <3>3. PICK q \in task[t].todo :
              /\ conns' = Disconnect(q, TRUE)
              /\ task' = [task EXCEPT ![t].pc = "wiped", ![t].cur = q,
                                      ![t].todo = @ \ {q}]
      BY <2>9 DEF CascadeRow, VisitRow
    <3>4. q # r
      BY <3>2, <3>3, VisitedIsDead DEF LiveRows
    <3>5. /\ task'[t].pc = "wiped" /\ task'[t].inst = i
          /\ task'[t].todo = task[t].todo \ {q}
      BY <2>1, <3>2, <3>3 DEF Task
    <3>6. QED
      BY <2>1, <3>2, <3>4, <3>5 DEF DisablePending
  <2>10. CASE CascadeEvent(t)
    <3>1. task[t].pc = "wiped" /\ disabledAt' = disabledAt
      BY <2>10 DEF CascadeEvent, At, historyVars
    <3>2. task[t].inst = i /\ r \in task[t].todo
      BY <2>4, <3>1 DEF At
    <3>3. Goto(t, "wipe")
      BY <2>10, <3>2 DEF CascadeEvent
    <3>4. /\ task'[t].pc = "wipe" /\ task'[t].inst = i
          /\ task'[t].todo = task[t].todo
      BY <2>1, <3>2, <3>3 DEF Goto, Task
    <3>5. QED
      BY <2>1, <3>2, <3>4 DEF DisablePending
  <2>11. QED
    BY <2>3, <2>5, <2>6, <2>7, <2>8, <2>9, <2>10
<1>6. QED
  BY <1>2, <1>3, <1>4, <1>5, GateSteps

(* With one administrator, and no request cut short, disabling an instance *)
(* leaves no connection behind that existed when the flag was written: the *)
(* cascade of IntegrationsService.update is still to come or has the row   *)
(* on its list, whatever users grant and revoke in between.                *)
THEOREM DisableAlwaysSweeps == OneAdmin => (Spec => []DisableSweepsAll)
<1> SUFFICES ASSUME OneAdmin PROVE Spec => []DisableSweepsAll
  OBVIOUS
<1>1. TypeInv /\ GatesInv /\ [Next]_vars => GatesInv'
  BY NextGates
<1>2. TypeInv /\ GatesInv /\ DisableSweepsAll /\ [Next]_vars
         => DisableSweepsAll'
  BY NextDisable
<1>3. Init => DisableSweepsAll
  BY DEF Init, DbInit, DisableSweepsAll, LiveRows, Rows
<1>4. QED
  BY <1>1, <1>2, <1>3, InitGates, TypeCorrect, PTL DEF Spec

-----------------------------------------------------------------------------
(* The cascade of a mapping change.                                        *)

(* The awaits at which a request may still owe a mapping its cascade. *)
OrphanAwaits == {"siam_readback", "siam_audit", "siam_cascade", "siam_wipe",
                 "siam_wiped"}

LEMMA ElsewhereOrphans ==
    ASSUME Elsewhere, NEW r \in LiveRows', conns'[r].inst = conns[r].inst,
           OrphanPending(r)
    PROVE  OrphanPending(r)'
<1>1. PICK s \in AdminSlot :
          \/ /\ task[s].pc \in {"siam_readback", "siam_audit", "siam_cascade"}
             /\ r \in NoLongerAuthorized(task[s].prev, task[s].next)
          \/ task[s].pc \in {"siam_wipe", "siam_wiped"} /\ r \in task[s].todo
  BY DEF OrphanPending
<1>2. task[s].pc \in AdminPc
  BY <1>1 DEF AdminPc, SiamPath
<1>3. task'[s] = task[s]
  BY <1>2 DEF Elsewhere, Slot
<1>4. QED
  BY <1>1, <1>3 DEF OrphanPending, NoLongerAuthorized

LEMMA NextOrphans ==
    ASSUME OneAdmin
    PROVE  TypeInv /\ GatesInv /\ OrphaningSweepsAll /\ [Next]_vars
              => OrphaningSweepsAll'
<1> SUFFICES ASSUME TypeInv, GatesInv, OrphaningSweepsAll, [Next]_vars,
                    faults' = 0, NEW r \in LiveRows',
                    r <= orphanedAt'[conns'[r].inst],
                    \A m \in SiamResult' : Orphan(m, conns'[r].inst)
             PROVE  OrphanPending(r)'
  BY DEF OrphaningSweepsAll, Orphan
<1> DEFINE i == conns'[r].inst
<1>1. ASSUME faults = 0, orphanedAt'[i] = orphanedAt[i],
             \A m \in SiamResult : Orphan(m, i)
      PROVE  r \in LiveRows /\ conns[r].inst = i /\ OrphanPending(r)
  BY <1>1, MarkedBefore DEF GatesInv, OrphaningSweepsAll
<1>2. CASE Elsewhere /\ UNCHANGED faults
  <2>1. faults = 0 /\ orphanedAt' = orphanedAt /\ SiamResult' = SiamResult
    BY <1>2 DEF Elsewhere, gates, SiamResult
  <2>2. QED
    BY <1>1, <1>2, <2>1, ElsewhereOrphans
<1>3. ASSUME NEW t \in Slot, CutShort(t) PROVE FALSE
  BY <1>3 DEF CutShort, TypeInv, TypeOK
<1>4. ASSUME NEW t \in Slot, AdminStarts(t) PROVE OrphanPending(r)'
  <2>1. /\ t \in AdminSlot /\ task[t].pc = "idle"
        /\ UNCHANGED <<faults, orphanedAt, siam>>
    BY <1>4 DEF AdminStarts, CreateCheck, UpdateRead, DeleteRead, SiamRead,
       AdminArrives, At, dbVars, historyVars
  <2>2. ~OrphanPending(r)
    BY <2>1 DEF OneAdmin, OrphanPending
  <2>3. QED
    BY <1>1, <2>1, <2>2 DEF SiamResult
<1>5. ASSUME NEW t \in Slot, AdminContinues(t) PROVE OrphanPending(r)'
  <2>1. /\ t \in AdminSlot /\ Knows(t) /\ \A s \in AdminSlot : s = t
        /\ task \in [Slot -> Task] /\ task[t] \in Task
    BY <1>5, AdminContinuesKnows
       DEF OneAdmin, GatesInv, AdminKnows, TypeInv, TypeOK
  <2>2. faults = 0
    BY <1>5 DEF AdminContinues, CreateInsert,
       CreateAudit, UpdateWrite, UpdateAudit, DeleteRow, DeleteAudit,
       CascadeQuery, CascadeRow, CascadeEvent, SiamCheck, SiamWrite,
       SiamReadBack, SiamAudit, SiamQuery, SiamRow, SiamEvent
  <2>3. \/ task[t].pc \notin OrphanAwaits /\ UNCHANGED <<orphanedAt, siam>>
        \/ SiamWrite(t) \/ SiamReadBack(t) \/ SiamAudit(t)
        \/ SiamQuery(t) \/ SiamRow(t) \/ SiamEvent(t)
    BY <1>5 DEF OrphanAwaits, AdminContinues, CreateInsert, CreateAudit,
       UpdateWrite, UpdateAudit, DeleteRow, DeleteAudit, CascadeQuery,
       CascadeRow, CascadeEvent, SiamCheck, At, historyVars, dbVars
  <2>4. ASSUME orphanedAt'[i] = orphanedAt[i],
               \A m \in SiamResult : Orphan(m, i)
        PROVE  /\ r \in LiveRows /\ conns[r].inst = i
               /\ \/ /\ task[t].pc \in {"siam_readback", "siam_audit",
                                        "siam_cascade"}
                     /\ r \in NoLongerAuthorized(task[t].prev, task[t].next)
                  \/ /\ task[t].pc \in {"siam_wipe", "siam_wiped"}
                     /\ r \in task[t].todo
    BY <1>1, <2>1, <2>2, <2>4 DEF OrphanPending
  <2>5. CASE task[t].pc \notin OrphanAwaits /\ UNCHANGED <<orphanedAt, siam>>
    BY <2>4, <2>5 DEF OrphanAwaits, SiamResult
  <2>6. CASE SiamWrite(t)
    <3>1. /\ task[t].pc = "siam_write" /\ UNCHANGED conns
          /\ orphanedAt' = [j \in Instance |-> IF Orphans(t, j)
                               THEN Len(conns) ELSE orphanedAt[j]]
          /\ task'[t] = [task[t] EXCEPT !.pc = "siam_readback"]
      BY <2>1, <2>6 DEF SiamWrite, At, Goto
    <3>2. r \in LiveRows /\ i \in Instance
      <4>1. r \in LiveRows /\ conns[r] \in Connection /\ i = conns[r].inst
        BY <3>1 DEF LiveRows, Rows, TypeInv, TypeOK
      <4>2. QED
        BY <4>1 DEF Connection
    <3>3. Orphans(t, i)
      <4>1. SUFFICES ASSUME ~Orphans(t, i) PROVE FALSE
        OBVIOUS
      <4>2. orphanedAt'[i] = orphanedAt[i]
        BY <3>1, <3>2, <4>1
      <4>3. siam' = {task[t].next}
        BY <2>1, <2>6, <3>1 DEF SiamWrite, Knows, At
      <4>4. Orphan(task[t].next, i)
        BY <4>3 DEF SiamResult
      <4>5. \A m \in SiamResult : Orphan(m, i)
        BY <4>1, <4>4 DEF Orphans, SiamResult, Orphan, NoMapping
      <4>6. QED
        BY <2>4, <3>1, <4>2, <4>5
    <3>4. task[t].prev \in siam
      BY <2>1, <3>1, <3>3 DEF Orphans, Knows, SiamResult
    <3>5. r \in NoLongerAuthorized(task[t].prev, task[t].next)'
      <4>1. \A m \in siam : m = task[t].prev
        BY <3>4 DEF GatesInv, OneVersion
      <4>2. Orphan(task[t].next, i) /\ ~Orphan(task[t].prev, i)
        BY <3>3, <4>1 DEF Orphans
      <4>3. /\ task'[t].prev = task[t].prev /\ task'[t].next = task[t].next
        BY <2>1, <3>1 DEF Task
      <4>4. QED
        BY <4>2, <4>3 DEF NoLongerAuthorized
    <3>6. task'[t].pc = "siam_readback"
      BY <2>1, <3>1 DEF Task
    <3>7. QED
      BY <2>1, <3>5, <3>6 DEF OrphanPending
  <2>7. CASE SiamReadBack(t) \/ SiamAudit(t)
    <3>1. /\ task[t].pc \in {"siam_readback", "siam_audit"}
          /\ UNCHANGED <<siam, conns, orphanedAt>>
      BY <2>7 DEF SiamReadBack, SiamAudit, At, dbVars, historyVars
    <3>2. r \in NoLongerAuthorized(task[t].prev, task[t].next)
      BY <2>4, <3>1 DEF SiamResult
    <3>3. task[t].prev # task[t].next
      BY <3>2 DEF NoLongerAuthorized
    <3>4. task'[t].pc \in {"siam_audit", "siam_cascade"}
      BY <2>1, <2>7, <3>3 DEF SiamReadBack, SiamAudit, Task
    <3>5. task'[t].prev = task[t].prev /\ task'[t].next = task[t].next
      <4>1. CASE SiamReadBack(t)
        BY <2>1, <4>1 DEF SiamReadBack, SiamResult, Knows, At, Task
      <4>2. CASE SiamAudit(t)
        BY <2>1, <3>3, <4>2 DEF SiamAudit, Task
      <4>3. QED
        BY <2>7, <4>1, <4>2
    <3>6. r \in NoLongerAuthorized(task[t].prev, task[t].next)'
      BY <3>1, <3>2, <3>5 DEF NoLongerAuthorized, LiveRows, Rows
    <3>7. QED
      BY <2>1, <3>4, <3>6 DEF OrphanPending
  <2>8. CASE SiamQuery(t)
    <3>1. /\ task[t].pc = "siam_cascade" /\ UNCHANGED <<siam, orphanedAt>>
      BY <2>8 DEF SiamQuery, At, dbVars, historyVars
    <3> DEFINE doomed == NoLongerAuthorized(task[t].prev, task[t].next)
    <3>2. r \in doomed
      BY <2>4, <3>1 DEF SiamResult
    <3>3. task' = [task EXCEPT ![t].pc = "siam_wipe", ![t].todo = doomed]
      BY <2>8, <3>2 DEF SiamQuery
    <3>4. task'[t].pc = "siam_wipe" /\ task'[t].todo = doomed
      BY <2>1, <3>3 DEF Task
    <3>5. QED
      BY <2>1, <3>2, <3>4 DEF OrphanPending
  <2>9. CASE SiamRow(t)
    <3>1. task[t].pc = "siam_wipe" /\ UNCHANGED <<siam, orphanedAt>>
      BY <2>9 DEF SiamRow, At, historyVars
    <3>2. r \in task[t].todo /\ r \in Rows
      BY <2>4, <3>1 DEF SiamResult, LiveRows
    <3>3. PICK q \in task[t].todo :
              /\ conns' = Disconnect(q, TRUE)
              /\ task' = [task EXCEPT ![t].pc = "siam_wiped", ![t].cur = q,
                                      ![t].todo = @ \ {q}]
      BY <2>9 DEF SiamRow, VisitRow
    <3>4. q # r
      BY <3>2, <3>3, VisitedIsDead DEF LiveRows
    <3>5. task'[t].pc = "siam_wiped" /\ task'[t].todo = task[t].todo \ {q}
      BY <2>1, <3>3 DEF Task
    <3>6. QED
      BY <2>1, <3>2, <3>4, <3>5 DEF OrphanPending
  <2>10. CASE SiamEvent(t)
    <3>1. task[t].pc = "siam_wiped" /\ UNCHANGED <<siam, orphanedAt>>
      BY <2>10 DEF SiamEvent, At, historyVars
    <3>2. r \in task[t].todo
      BY <2>4, <3>1 DEF SiamResult
    <3>3. Goto(t, "siam_wipe")
      BY <2>10, <3>2 DEF SiamEvent
    <3>4. task'[t].pc = "siam_wipe" /\ task'[t].todo = task[t].todo
      BY <2>1, <3>3 DEF Goto, Task
    <3>5. QED
      BY <2>1, <3>2, <3>4 DEF OrphanPending
  <2>11. QED
    BY <2>3, <2>5, <2>6, <2>7, <2>8, <2>9, <2>10
<1>6. QED
  BY <1>2, <1>3, <1>4, <1>5, GateSteps

(* With one administrator, and no request cut short, a mapping that leaves *)
(* an instance without roles disconnects every connection that existed     *)
(* when it was saved: what SIAMService.replace reads back and compares is  *)
(* what its own write replaced and wrote.                                  *)
THEOREM OrphaningAlwaysSweeps == OneAdmin => (Spec => []OrphaningSweepsAll)
<1> SUFFICES ASSUME OneAdmin PROVE Spec => []OrphaningSweepsAll
  OBVIOUS
<1>1. TypeInv /\ GatesInv /\ [Next]_vars => GatesInv'
  BY NextGates
<1>2. TypeInv /\ GatesInv /\ OrphaningSweepsAll /\ [Next]_vars
         => OrphaningSweepsAll'
  BY NextOrphans
<1>3. Init => OrphaningSweepsAll
  BY DEF Init, DbInit, OrphaningSweepsAll, LiveRows, Rows
<1>4. QED
  BY <1>1, <1>2, <1>3, InitGates, TypeCorrect, PTL DEF Spec

=============================================================================
