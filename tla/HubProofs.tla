----------------------------- MODULE HubProofs -----------------------------
(* Theorems about Hub, for any users, instances, slots and bounds.         *)
EXTENDS Hub, TLAPS

-----------------------------------------------------------------------------
(* How requests move between awaits. *)

(* A request that only moves to its next await keeps well-typed locals. *)
LEMMA MoveType ==
    ASSUME NEW x \in Task, NEW pc \in Pc
    PROVE  [x EXCEPT !.pc = pc] \in Task
BY DEF Task

LEMMA GotoType ==
    ASSUME task \in [Slot -> Task], NEW t \in Slot, NEW pc \in Pc, Goto(t, pc)
    PROVE  task' \in [Slot -> Task]
<1>1. [task[t] EXCEPT !.pc = pc] \in Task
  BY MoveType
<1>2. QED
  BY <1>1 DEF Goto

LEMMA IdleType == Idle \in Task
BY SeedAssumption DEF Idle, Task, Pc, Ext, Revocations, Mapping, NoMapping

LEMMA FinishType ==
    ASSUME task \in [Slot -> Task], NEW t \in Slot, Finish(t)
    PROVE  task' \in [Slot -> Task]
BY IdleType DEF Finish

LEMMA DisconnectType ==
    ASSUME conns \in Seq(Connection), NEW r, NEW w \in BOOLEAN
    PROVE  /\ Disconnect(r, w) \in Seq(Connection)
           /\ DOMAIN Disconnect(r, w) = Rows
<1>1. /\ Len(conns) \in Nat
      /\ Rows = 1..Len(conns)
      /\ \A q \in Rows : conns[q] \in Connection
  BY DEF Rows
<1>2. ASSUME NEW q \in Rows
      PROVE  [conns[q] EXCEPT !.status = "disconnected", !.live = FALSE,
                              !.creds = IF w THEN None ELSE @] \in Connection
  BY <1>1 DEF Connection, Status
<1>3. Disconnect(r, w) \in [1..Len(conns) -> Connection]
  BY <1>1, <1>2 DEF Disconnect
<1>4. QED
  BY <1>1, <1>3

(* A step that gives one slot new locals keeps every slot's locals right,  *)
(* provided no row disappears.                                             *)
LEMMA LocalsStep ==
    ASSUME task \in [Slot -> Task], LocalsOK, Rows \subseteq Rows',
           NEW t \in Slot, NEW x \in Task, LocalOK(x, Rows'),
           task' = [task EXCEPT ![t] = x]
    PROVE  task' \in [Slot -> Task] /\ LocalsOK'
<1>1. \A s \in Slot : LocalOK(task[s], Rows')
  BY DEF LocalsOK, LocalOK
<1>2. QED
  BY <1>1 DEF LocalsOK

LEMMA FinishStep ==
    ASSUME task \in [Slot -> Task], LocalsOK, Rows \subseteq Rows',
           NEW t \in Slot, Finish(t)
    PROVE  task' \in [Slot -> Task] /\ LocalsOK'
<1>1. LocalOK(Idle, Rows')
  BY DEF LocalOK, Idle, LoopPc, GrantPath, GrantPc, AdminPath
<1>2. QED
  BY <1>1, IdleType, LocalsStep DEF Finish

LEMMA GotoStep ==
    ASSUME task \in [Slot -> Task], LocalsOK, Rows \subseteq Rows',
           NEW t \in Slot, NEW pc \in Pc, Goto(t, pc),
           LocalOK([task[t] EXCEPT !.pc = pc], Rows')
    PROVE  task' \in [Slot -> Task] /\ LocalsOK'
<1>1. [task[t] EXCEPT !.pc = pc] \in Task
  BY MoveType
<1>2. task' = [task EXCEPT ![t] = [task[t] EXCEPT !.pc = pc]]
  BY DEF Goto
<1>3. QED
  BY <1>1, <1>2, LocalsStep

(* DbInit gives every table and every request's locals their types. *)
THEOREM InitTypeInv == Init => TypeInv
<1> SUFFICES ASSUME Init PROVE TypeInv
  OBVIOUS
<1>1. conns = <<>> /\ Rows = {}
  BY DEF Init, DbInit, Rows
<1>2. task \in [Slot -> Task] /\ LocalsOK
  BY <1>1, IdleType DEF Init, DbInit, LocalsOK, LocalOK, Idle, LoopPc,
     GrantPath, GrantPc, AdminPath
<1>3. QED
  BY <1>1, <1>2, SeedAssumption DEF Init, DbInit, TypeInv, TypeOK, Trail

-----------------------------------------------------------------------------
(* User requests keep the types. *)

LEMMA UserStartsType ==
    ASSUME TypeInv, NEW t \in Slot, UserStarts(t)
    PROVE  TypeInv'
<1> USE DEF TypeInv
<1>1. PICK u \in User, i \in Instance :
          \/ GrantFetch(t, u, i)
          \/ InitiateFetch(t, u, i)
          \/ \E f \in Flow, c \in Code : CompleteFetch(t, u, i, f, c)
          \/ RevokeQuery(t, u, i)
  BY DEF UserStarts
<1>2. UNCHANGED <<dbVars, idpVars, faults, historyVars>>
  BY <1>1 DEF GrantFetch, InitiateFetch, CompleteFetch, RevokeQuery
<1>3. Rows' = Rows
  BY <1>2 DEF Rows, dbVars
<1>4. CASE GrantFetch(t, u, i)
  <2> DEFINE x == [Idle EXCEPT !.pc = "grant_siam", !.user = u, !.inst = i]
  <2>1. x \in Task
    BY IdleType DEF Task, Pc, GrantPc
  <2>2. LocalOK(x, Rows')
    BY DEF LocalOK, Idle, LoopPc
  <2>3. QED
    BY <1>2, <1>3, <1>4, <2>1, <2>2, LocalsStep
       DEF GrantFetch, TypeOK, dbVars, idpVars, historyVars
<1>5. CASE InitiateFetch(t, u, i)
  <2> DEFINE x == [Idle EXCEPT !.pc = "mint", !.user = u, !.inst = i]
  <2>1. x \in Task
    BY IdleType DEF Task, Pc
  <2>2. LocalOK(x, Rows')
    BY DEF LocalOK, Idle, LoopPc
  <2>3. QED
    BY <1>2, <1>3, <1>5, <2>1, <2>2, LocalsStep
       DEF InitiateFetch, TypeOK, dbVars, idpVars, historyVars
<1>6. CASE \E f \in Flow, c \in Code : CompleteFetch(t, u, i, f, c)
  <2>1. PICK f \in Flow, c \in Code : CompleteFetch(t, u, i, f, c)
    BY <1>6
  <2> DEFINE x == [Idle EXCEPT !.pc = "complete_siam", !.user = u,
                               !.inst = i, !.flow = f, !.code = c]
  <2>2. x \in Task
    BY IdleType DEF Task, Pc, GrantPc
  <2>3. LocalOK(x, Rows')
    BY DEF LocalOK, Idle, LoopPc
  <2>4. QED
    BY <1>2, <1>3, <2>1, <2>2, <2>3, LocalsStep
       DEF CompleteFetch, TypeOK, dbVars, idpVars, historyVars
<1>7. CASE RevokeQuery(t, u, i)
  <2> DEFINE x == [Idle EXCEPT !.pc = "revoke", !.user = u, !.inst = i,
                               !.todo = LiveOf(u, i)]
  <2>1. LiveOf(u, i) \subseteq Rows /\ Rows \subseteq Nat
    BY DEF LiveOf, LiveOn, LiveRows, Rows, TypeOK
  <2>2. x \in Task
    BY <2>1, IdleType DEF Task, Pc
  <2>3. LocalOK(x, Rows')
    BY <1>3, <2>1 DEF LocalOK, Idle, LoopPc
  <2>4. QED
    BY <1>2, <1>3, <1>7, <2>2, <2>3, LocalsStep
       DEF RevokeQuery, TypeOK, dbVars, idpVars, historyVars
<1>8. QED
  BY <1>1, <1>4, <1>5, <1>6, <1>7

-----------------------------------------------------------------------------
(* The two halves of a revoke loop's turn. *)

LEMMA VisitStep ==
    ASSUME TypeInv, NEW t \in Slot, NEW w \in BOOLEAN, NEW pc \in LoopPc,
           VisitRow(t, w, pc), task[t].inst \in Instance \/ pc = "siam_wiped",
           task[t].user \in User \/ pc # "revoked"
    PROVE  /\ conns' \in Seq(Connection) /\ Rows' = Rows
           /\ task' \in [Slot -> Task] /\ LocalsOK'
<1> USE DEF TypeInv
<1>1. PICK r \in task[t].todo :
          /\ conns' = Disconnect(r, w)
          /\ task' = [task EXCEPT ![t].pc = pc, ![t].cur = r,
                                  ![t].todo = @ \ {r}]
  BY DEF VisitRow
<1>2. conns' \in Seq(Connection) /\ Rows' = Rows
  BY <1>1, DisconnectType DEF TypeOK, Rows
<1> DEFINE x == [task[t] EXCEPT !.pc = pc, !.cur = r, !.todo = @ \ {r}]
<1>3. task[t] \in Task /\ LocalOK(task[t], Rows)
  BY DEF TypeOK, LocalsOK
<1>4. x \in Task
  BY <1>3 DEF Task, LoopPc, Pc, TypeOK
<1>5. LocalOK(x, Rows')
  BY <1>2, <1>3 DEF LocalOK, LoopPc, GrantPath, GrantPc, AdminPath, Task
<1>6. task' = [task EXCEPT ![t] = x]
  BY <1>1
<1>7. QED
  BY <1>2, <1>4, <1>5, <1>6, LocalsStep DEF TypeOK

LEMMA EventType ==
    ASSUME TypeInv, NEW t \in Slot, task[t].pc \in LoopPc, RecordRevocation(t)
    PROVE  consents' \subseteq ConsentEvent
<1>1. task[t] \in Task /\ task[t].cur \in Rows
  BY DEF TypeInv, TypeOK, LocalsOK, LocalOK
<1>2. conns[task[t].cur] \in Connection
  BY <1>1 DEF TypeInv, TypeOK, Rows
<1>3. EventFor(task[t].cur, task[t].why) \in ConsentEvent
  BY <1>1, <1>2 DEF EventFor, ConsentEvent, Connection, Task
<1>4. QED
  BY <1>3 DEF RecordRevocation, TypeInv, TypeOK

LEMMA UserContinuesType ==
    ASSUME TypeInv, NEW t \in Slot, UserContinues(t)
    PROVE  TypeInv'
<1> USE DEF TypeInv
<1>1. /\ task \in [Slot -> Task] /\ LocalsOK
      /\ task[t] \in Task /\ LocalOK(task[t], Rows)
  BY DEF TypeOK, LocalsOK
<1>2. CASE GrantGate(t)
  <2>1. Rows' = Rows
    BY <1>2 DEF GrantGate, dbVars, Rows
  <2>2. task[t].pc = "grant_siam" /\ (Goto(t, "dup") \/ Finish(t))
    BY <1>2 DEF GrantGate, At
  <2>3. LocalOK([task[t] EXCEPT !.pc = "dup"], Rows')
    BY <1>1, <2>1, <2>2 DEF LocalOK, LoopPc, GrantPath, GrantPc, Task
  <2>4. task' \in [Slot -> Task] /\ LocalsOK'
    BY <1>1, <2>1, <2>2, <2>3, GotoStep, FinishStep DEF Pc, GrantPc
  <2>5. QED
    BY <1>2, <2>4 DEF GrantGate, TypeOK, dbVars, idpVars, historyVars
<1>3. CASE CheckDuplicate(t)
  <2>1. Rows' = Rows
    BY <1>3 DEF CheckDuplicate, dbVars, Rows
  <2>2. task[t].pc = "dup" /\ (Goto(t, "seq") \/ Finish(t))
    BY <1>3 DEF CheckDuplicate, At
  <2>3. LocalOK([task[t] EXCEPT !.pc = "seq"], Rows')
    BY <1>1, <2>1, <2>2 DEF LocalOK, LoopPc, GrantPath, GrantPc, Task
  <2>4. task' \in [Slot -> Task] /\ LocalsOK'
    BY <1>1, <2>1, <2>2, <2>3, GotoStep, FinishStep DEF Pc, GrantPc
  <2>5. racing' \subseteq Slot
    <3>1. racing \subseteq Slot
      BY DEF TypeOK
    <3>2. \/ racing' = racing \/ racing' = racing \ {t}
          \/ racing' = racing \cup {t} \cup Rivals(t)
      BY <1>3 DEF CheckDuplicate
    <3>3. Rivals(t) \subseteq Slot
      BY DEF Rivals, Slot
    <3>4. QED
      BY <3>1, <3>2, <3>3
  <2>6. QED
    BY <1>3, <2>4, <2>5 DEF CheckDuplicate, TypeOK, dbVars, idpVars
<1>4. CASE ReadNextSeq(t)
  <2>1. PICK n \in 0..Len(conns) :
            task' = [task EXCEPT ![t].pc = "insert", ![t].seq = n]
    BY <1>4 DEF ReadNextSeq
  <2> DEFINE x == [task[t] EXCEPT !.pc = "insert", !.seq = n]
  <2>2. Rows' = Rows
    BY <1>4 DEF ReadNextSeq, dbVars, Rows
  <2>3. x \in Task
    <3>1. n \in Nat
      BY DEF TypeOK
    <3>2. QED
      BY <1>1, <3>1 DEF Task, Pc, GrantPc
  <2>4. LocalOK(x, Rows')
    BY <1>1, <1>4, <2>2
       DEF ReadNextSeq, At, LocalOK, LoopPc, GrantPath, GrantPc, Task
  <2>5. task' = [task EXCEPT ![t] = x]
    BY <2>1
  <2>6. task' \in [Slot -> Task] /\ LocalsOK'
    BY <1>1, <2>2, <2>3, <2>4, <2>5, LocalsStep
  <2>7. QED
    BY <1>4, <2>6 DEF ReadNextSeq, TypeOK, dbVars, idpVars, historyVars
<1>5. CASE InsertRow(t)
  <2>1. task[t].pc = "insert" /\ task[t].user \in User
        /\ task[t].inst \in Instance
    BY <1>1, <1>5 DEF InsertRow, At, LocalOK, GrantPath, GrantPc
  <2>2. NewRow(t) \in Connection
    BY <1>1, <2>1 DEF NewRow, Connection, Status, Task
  <2>3. conns' \in Seq(Connection) /\ Rows \subseteq Rows'
    BY <1>5, <2>2 DEF InsertRow, TypeOK, Rows
  <2>4. LocalOK([task[t] EXCEPT !.pc = "granted"], Rows')
    BY <1>1, <2>1, <2>3 DEF LocalOK, LoopPc, GrantPath, GrantPc, Task
  <2>5. task' \in [Slot -> Task] /\ LocalsOK'
    BY <1>1, <1>5, <2>3, <2>4, GotoStep DEF InsertRow, Pc, GrantPc
  <2>6. raced' \subseteq Nat
    <3>1. Len(conns) + 1 \in Nat /\ raced \subseteq Nat
      BY DEF TypeOK
    <3>2. QED
      BY <1>5, <3>1 DEF InsertRow
  <2>7. QED
    BY <1>5, <2>3, <2>5, <2>6 DEF InsertRow, TypeOK, idpVars
<1>6. CASE RecordGranted(t)
  <2>1. task[t].user \in User /\ task[t].inst \in Instance
    BY <1>1, <1>6 DEF RecordGranted, At, LocalOK, GrantPath, GrantPc
  <2>2. consents' \subseteq ConsentEvent
    BY <1>1, <1>6, <2>1 DEF RecordGranted, ConsentEvent, Task, TypeOK
  <2>3. Rows' = Rows
    BY <1>6 DEF RecordGranted, Rows
  <2>4. task' \in [Slot -> Task] /\ LocalsOK'
    BY <1>1, <1>6, <2>3, FinishStep DEF RecordGranted
  <2>5. QED
    BY <1>6, <2>2, <2>4 DEF RecordGranted, TypeOK, idpVars, historyVars
<1>7. CASE MintState(t)
  <2>1. task[t].user \in User /\ task[t].inst \in Instance
    BY <1>1, <1>7 DEF MintState, At, LocalOK, GrantPath
  <2> DEFINE minted == [user |-> task[t].user, inst |-> task[t].inst]
  <2>2. flows' \in [Flow -> [user : User, inst : Instance] \cup {None}]
    <3>1. flows' = flows \/ \E f \in Flow : flows' = [flows EXCEPT ![f] = minted]
      BY <1>7 DEF MintState, UnusedFlows
    <3>2. minted \in [user : User, inst : Instance] \cup {None}
      BY <2>1
    <3> HIDE DEF minted
    <3>3. QED
      BY <3>1, <3>2 DEF TypeOK
  <2>3. Rows' = Rows
    BY <1>7 DEF MintState, dbVars, Rows
  <2>4. task' \in [Slot -> Task] /\ LocalsOK'
    BY <1>1, <1>7, <2>3, FinishStep DEF MintState
  <2>5. QED
    BY <1>7, <2>2, <2>4 DEF MintState, TypeOK, dbVars, historyVars
<1>8. CASE CompleteGate(t)
  <2>1. Rows' = Rows
    BY <1>8 DEF CompleteGate, dbVars, Rows
  <2>2. task[t].pc = "complete_siam" /\ (Goto(t, "exchange") \/ Finish(t))
    BY <1>8 DEF CompleteGate, At
  <2>3. LocalOK([task[t] EXCEPT !.pc = "exchange"], Rows')
    BY <1>1, <2>1, <2>2 DEF LocalOK, LoopPc, GrantPath, GrantPc, Task
  <2>4. task' \in [Slot -> Task] /\ LocalsOK'
    BY <1>1, <2>1, <2>2, <2>3, GotoStep, FinishStep DEF Pc, GrantPc
  <2>5. QED
    BY <1>8, <2>4 DEF CompleteGate, TypeOK, dbVars, idpVars, historyVars
<1>9. CASE Exchange(t)
  <2>1. Rows' = Rows
    BY <1>9 DEF Exchange, dbVars, Rows
  <2>2. task[t].pc = "exchange" /\ task[t].code \in Code
    BY <1>1, <1>9 DEF Exchange, At, LocalOK
  <2> DEFINE x == [task[t] EXCEPT !.pc = "dup", !.ext = task[t].code.mailbox]
  <2>3. x \in Task
    BY <1>1, <2>2 DEF Task, Pc, GrantPc, Code, Ext
  <2>4. LocalOK(x, Rows')
    BY <1>1, <2>1, <2>2 DEF LocalOK, LoopPc, GrantPath, GrantPc, Task
  <2>5. task' = [task EXCEPT ![t] = x] \/ Finish(t)
    BY <1>9 DEF Exchange
  <2>6. task' \in [Slot -> Task] /\ LocalsOK'
    BY <1>1, <2>1, <2>3, <2>4, <2>5, LocalsStep, FinishStep
  <2>7. QED
    BY <1>9, <2>6 DEF Exchange, TypeOK, dbVars, historyVars
<1>10. CASE RevokeRow(t)
  <2>1. task[t].user \in User /\ task[t].inst \in Instance
    BY <1>1, <1>10 DEF RevokeRow, At, LocalOK, GrantPath
  <2>2. /\ conns' \in Seq(Connection)
        /\ task' \in [Slot -> Task] /\ LocalsOK'
    BY <1>10, <2>1, VisitStep DEF RevokeRow, LoopPc
  <2>3. QED
    BY <1>10, <2>2 DEF RevokeRow, TypeOK, idpVars, historyVars
<1>11. CASE RevokeEvent(t)
  <2>1. Rows' = Rows
    BY <1>11 DEF RevokeEvent, Rows
  <2>2. task[t].pc = "revoked" /\ (Goto(t, "revoke") \/ Finish(t))
    BY <1>11 DEF RevokeEvent, At
  <2>3. consents' \subseteq ConsentEvent
    BY <1>11, <2>2, EventType DEF RevokeEvent, LoopPc
  <2>4. LocalOK([task[t] EXCEPT !.pc = "revoke"], Rows')
    BY <1>1, <2>1, <2>2 DEF LocalOK, LoopPc, GrantPath, GrantPc, Task
  <2>5. task' \in [Slot -> Task] /\ LocalsOK'
    BY <1>1, <2>1, <2>2, <2>4, GotoStep, FinishStep DEF Pc
  <2>6. QED
    BY <1>11, <2>3, <2>5 DEF RevokeEvent, TypeOK, idpVars, historyVars
<1>12. QED
  BY <1>2, <1>3, <1>4, <1>5, <1>6, <1>7, <1>8, <1>9, <1>10, <1>11
     DEF UserContinues

-----------------------------------------------------------------------------
(* Admin requests keep the types. *)

LEMMA AdminStartsType ==
    ASSUME TypeInv, NEW t \in Slot, AdminStarts(t)
    PROVE  TypeInv'
<1> USE DEF TypeInv
<1>1. /\ UNCHANGED <<dbVars, idpVars, faults, historyVars>>
      /\ \E x \in Task : /\ task' = [task EXCEPT ![t] = x]
                         /\ x.todo = {} /\ x.pc \notin LoopPc \cup GrantPath
                         /\ x.pc \in AdminPath => x.inst \in Instance
  <2>1. CASE \E i \in Instance, enabled \in BOOLEAN : CreateCheck(t, i, enabled)
    <3>1. PICK i \in Instance, enabled \in BOOLEAN : CreateCheck(t, i, enabled)
      BY <2>1
    <3> DEFINE x == [Idle EXCEPT !.pc = "create", !.inst = i, !.will = enabled]
    <3>2. x \in Task
      BY IdleType DEF Task, Pc
    <3>3. x.todo = {} /\ x.pc = "create" /\ x.inst = i
      BY DEF Idle
    <3>4. QED
      BY <3>1, <3>2, <3>3
         DEF CreateCheck, LoopPc, GrantPath, GrantPc, AdminPath
  <2>2. CASE \E i \in Instance, wanted \in BOOLEAN \cup {None} :
                UpdateRead(t, i, wanted)
    <3>1. PICK i \in Instance, wanted \in BOOLEAN \cup {None} :
              UpdateRead(t, i, wanted)
      BY <2>2
    <3>2. PICK enabled \in instances[i] :
              task' = [task EXCEPT ![t] =
                          [Idle EXCEPT !.pc = "update", !.inst = i,
                                       !.was = enabled,
                                       !.will = IF wanted = None THEN enabled
                                                                 ELSE wanted]]
      BY <3>1 DEF UpdateRead
    <3> DEFINE will == IF wanted = None THEN enabled ELSE wanted
               x == [Idle EXCEPT !.pc = "update", !.inst = i,
                                 !.was = enabled, !.will = will]
    <3>3. enabled \in BOOLEAN /\ will \in BOOLEAN
      BY DEF TypeOK
    <3> HIDE DEF will
    <3>4. x \in Task
      BY <3>3, IdleType DEF Task, Pc
    <3>5. x.todo = {} /\ x.pc = "update" /\ x.inst = i
      BY DEF Idle
    <3> USE DEF will
    <3>6. QED
      BY <3>1, <3>2, <3>4, <3>5
         DEF UpdateRead, LoopPc, GrantPath, GrantPc, AdminPath
  <2>3. CASE \E i \in Instance : DeleteRead(t, i)
    <3>1. PICK i \in Instance : DeleteRead(t, i)
      BY <2>3
    <3> DEFINE x == [Idle EXCEPT !.pc = "cascade", !.inst = i,
                                 !.why = "revoked-by-admin-delete"]
    <3>2. x \in Task
      BY IdleType DEF Task, Pc, Revocations
    <3>3. x.todo = {} /\ x.pc = "cascade" /\ x.inst = i
      BY DEF Idle
    <3>4. QED
      BY <3>1, <3>2, <3>3
         DEF DeleteRead, LoopPc, GrantPath, GrantPc, AdminPath
  <2>4. CASE \E m \in Mapping : SiamRead(t, m)
    <3>1. PICK m \in Mapping : SiamRead(t, m)
      BY <2>4
    <3>2. PICK before \in SiamResult :
              task' = [task EXCEPT ![t] = [Idle EXCEPT !.pc = "siam_check",
                                                       !.prev = before,
                                                       !.next = m]]
      BY <3>1 DEF SiamRead
    <3> DEFINE x == [Idle EXCEPT !.pc = "siam_check", !.prev = before,
                                 !.next = m]
    <3>3. before \in Mapping
      BY DEF TypeOK, SiamResult, NoMapping, Mapping
    <3>4. x \in Task
      BY <3>3, IdleType DEF Task, Pc
    <3>5. x.todo = {} /\ x.pc = "siam_check"
      BY DEF Idle
    <3>6. QED
      BY <3>1, <3>2, <3>4, <3>5
         DEF SiamRead, LoopPc, GrantPath, GrantPc, AdminPath
  <2>5. QED
    BY <2>1, <2>2, <2>3, <2>4 DEF AdminStarts
<1>2. Rows' = Rows
  BY <1>1 DEF dbVars, Rows
<1>3. task' \in [Slot -> Task] /\ LocalsOK'
  <2>1. PICK x \in Task : /\ task' = [task EXCEPT ![t] = x]
                          /\ x.todo = {} /\ x.pc \notin LoopPc \cup GrantPath
                          /\ x.pc \in AdminPath => x.inst \in Instance
    BY <1>1
  <2>2. LocalOK(x, Rows')
    BY <2>1 DEF LocalOK, GrantPath, GrantPc
  <2>3. QED
    BY <1>2, <2>1, <2>2, LocalsStep DEF TypeOK
<1>4. QED
  BY <1>1, <1>3 DEF TypeOK, dbVars, idpVars, historyVars

LEMMA AfterCascadeStep ==
    ASSUME task \in [Slot -> Task], LocalsOK, Rows \subseteq Rows',
           NEW t \in Slot, AfterCascade(t), task[t].inst \in Instance
    PROVE  task' \in [Slot -> Task] /\ LocalsOK'
<1>1. LocalOK([task[t] EXCEPT !.pc = "delete"], Rows')
  BY DEF LocalsOK, LocalOK, LoopPc, GrantPath, GrantPc, Task
<1>2. QED
  BY <1>1, GotoStep, FinishStep DEF AfterCascade, Pc

LEMMA AdminContinuesType ==
    ASSUME TypeInv, NEW t \in Slot, AdminContinues(t)
    PROVE  TypeInv'
<1> USE DEF TypeInv
<1>1. /\ task \in [Slot -> Task] /\ LocalsOK
      /\ task[t] \in Task /\ LocalOK(task[t], Rows)
  BY DEF TypeOK, LocalsOK
<1>2. CASE CreateInsert(t)
  <2>1. Rows' = Rows
    BY <1>2 DEF CreateInsert, Rows
  <2>2. task[t].pc = "create" /\ Goto(t, "create_audit")
    BY <1>2 DEF CreateInsert, At
  <2>3. LocalOK([task[t] EXCEPT !.pc = "create_audit"], Rows')
    BY <1>1, <2>1, <2>2 DEF LocalOK, LoopPc, GrantPath, GrantPc, AdminPath, Task
  <2>4. task' \in [Slot -> Task] /\ LocalsOK'
    BY <1>1, <2>1, <2>2, <2>3, GotoStep DEF Pc
  <2>5. instances' \in [Instance -> SUBSET BOOLEAN]
    BY <1>1, <1>2 DEF CreateInsert, TypeOK, Task
  <2>6. QED
    BY <1>2, <2>4, <2>5 DEF CreateInsert, TypeOK, idpVars, historyVars
<1>3. CASE CreateAudit(t)
  <2>1. Rows' = Rows
    BY <1>3 DEF CreateAudit, Rows
  <2>2. trail' \in Trail
    BY <1>1, <1>3 DEF CreateAudit, TypeOK, Trail, Task
  <2>4. task' \in [Slot -> Task] /\ LocalsOK'
    BY <1>1, <1>3, <2>1, FinishStep DEF CreateAudit
  <2>5. QED
    BY <1>3, <2>2, <2>4 DEF CreateAudit, TypeOK, idpVars, historyVars
<1>4. CASE UpdateWrite(t)
  <2>1. Rows' = Rows
    BY <1>4 DEF UpdateWrite, Rows
  <2>2. task[t].pc = "update" /\ Goto(t, "update_audit")
    BY <1>4 DEF UpdateWrite, At
  <2>3. LocalOK([task[t] EXCEPT !.pc = "update_audit"], Rows')
    BY <1>1, <2>1, <2>2 DEF LocalOK, LoopPc, GrantPath, GrantPc, AdminPath, Task
  <2>4. task' \in [Slot -> Task] /\ LocalsOK'
    BY <1>1, <2>1, <2>2, <2>3, GotoStep DEF Pc
  <2>5. instances' \in [Instance -> SUBSET BOOLEAN]
    BY <1>1, <1>4 DEF UpdateWrite, TypeOK, Task
  <2>6. disabledAt' \in [Instance -> Nat]
    <3>1. Len(conns) \in Nat
      BY DEF TypeOK
    <3> DEFINE at == IF Disables(t) THEN Len(conns)
                                   ELSE disabledAt[task[t].inst]
    <3>2. task[t].inst \in Instance
      BY <1>1, <2>2 DEF LocalOK, AdminPath
    <3>3. at \in Nat
      BY <3>1, <3>2 DEF TypeOK
    <3>4. disabledAt' = [disabledAt EXCEPT ![task[t].inst] = at]
      BY <1>4 DEF UpdateWrite
    <3> HIDE DEF at
    <3>5. QED
      BY <3>3, <3>4 DEF TypeOK
  <2>7. QED
    BY <1>4, <2>4, <2>5, <2>6 DEF UpdateWrite, TypeOK, idpVars
<1>5. CASE UpdateAudit(t)
  <2>1. Rows' = Rows
    BY <1>5 DEF UpdateAudit, Rows
  <2>2. trail' \in Trail
    BY <1>1, <1>5 DEF UpdateAudit, TypeOK, Trail, Task
  <2> DEFINE x == [task[t] EXCEPT !.pc = "cascade", !.why = "revoked-by-admin-disable"]
  <2>3. x \in Task /\ LocalOK(x, Rows')
    <3>1. task[t].pc = "update_audit"
      BY <1>5 DEF UpdateAudit, At
    <3>2. x \in Task
      BY <1>1 DEF Task, Pc, Revocations
    <3>3. LocalOK(x, Rows')
      BY <1>1, <2>1, <3>1 DEF LocalOK, LoopPc, GrantPath, GrantPc, AdminPath, Task
    <3>4. QED
      BY <3>2, <3>3
  <2>4. task' \in [Slot -> Task] /\ LocalsOK'
    <3>1. task' = [task EXCEPT ![t] = x] \/ Finish(t)
      BY <1>5 DEF UpdateAudit
    <3>2. QED
      BY <1>1, <2>1, <2>3, <3>1, LocalsStep, FinishStep
  <2>5. QED
    BY <1>5, <2>2, <2>4 DEF UpdateAudit, TypeOK, idpVars, historyVars
<1>6. CASE DeleteRow(t)
  <2>1. Rows' = Rows
    BY <1>6 DEF DeleteRow, Rows
  <2>2. task[t].pc = "delete" /\ Goto(t, "delete_audit")
    BY <1>6 DEF DeleteRow, At
  <2>3. LocalOK([task[t] EXCEPT !.pc = "delete_audit"], Rows')
    BY <1>1, <2>1, <2>2 DEF LocalOK, LoopPc, GrantPath, GrantPc, AdminPath, Task
  <2>4. task' \in [Slot -> Task] /\ LocalsOK'
    BY <1>1, <2>1, <2>2, <2>3, GotoStep DEF Pc
  <2>5. instances' \in [Instance -> SUBSET BOOLEAN]
    BY <1>1, <1>6 DEF DeleteRow, TypeOK, Task
  <2>6. QED
    BY <1>6, <2>4, <2>5 DEF DeleteRow, TypeOK, idpVars, historyVars
<1>7. CASE DeleteAudit(t)
  <2>1. Rows' = Rows
    BY <1>7 DEF DeleteAudit, Rows
  <2>2. trail' \in Trail
    BY <1>1, <1>7 DEF DeleteAudit, TypeOK, Trail, Task
  <2>4. task' \in [Slot -> Task] /\ LocalsOK'
    BY <1>1, <1>7, <2>1, FinishStep DEF DeleteAudit
  <2>5. QED
    BY <1>7, <2>2, <2>4 DEF DeleteAudit, TypeOK, idpVars, historyVars
<1>8. CASE CascadeQuery(t)
  <2>0. task[t].inst \in Instance
    BY <1>1, <1>8 DEF CascadeQuery, At, LocalOK, AdminPath
  <2>1. Rows' = Rows
    BY <1>8 DEF CascadeQuery, dbVars, Rows
  <2> DEFINE S == LiveOn(task[t].inst)
             x == [task[t] EXCEPT !.pc = "wipe", !.todo = S]
  <2>2. S \subseteq Rows /\ Rows \subseteq Nat
    BY DEF LiveOn, LiveRows, Rows, TypeOK
  <2>3. x \in Task
    BY <1>1, <2>2 DEF Task, Pc
  <2>4. LocalOK(x, Rows')
    <3>1. task[t].pc = "cascade"
      BY <1>8 DEF CascadeQuery, At
    <3>2. QED
      BY <1>1, <2>1, <2>2, <3>1 DEF LocalOK, LoopPc, GrantPath, GrantPc, AdminPath, Task
  <2>5. task' \in [Slot -> Task] /\ LocalsOK'
    <3>1. task' = [task EXCEPT ![t] = x] \/ AfterCascade(t)
      BY <1>8 DEF CascadeQuery
    <3>2. QED
      BY <1>1, <2>0, <2>1, <2>3, <2>4, <3>1, LocalsStep, AfterCascadeStep
  <2>6. QED
    BY <1>8, <2>5 DEF CascadeQuery, TypeOK, dbVars, idpVars, historyVars
<1>9. CASE CascadeRow(t)
  <2>1. task[t].inst \in Instance
    BY <1>1, <1>9 DEF CascadeRow, At, LocalOK, AdminPath
  <2>2. /\ conns' \in Seq(Connection)
        /\ task' \in [Slot -> Task] /\ LocalsOK'
    BY <1>9, <2>1, VisitStep DEF CascadeRow, LoopPc
  <2>3. QED
    BY <1>9, <2>2 DEF CascadeRow, TypeOK, idpVars, historyVars
<1>10. CASE CascadeEvent(t)
  <2>1. Rows' = Rows
    BY <1>10 DEF CascadeEvent, Rows
  <2>2. /\ task[t].pc = "wiped"
        /\ Goto(t, "wipe") \/ AfterCascade(t)
    BY <1>10 DEF CascadeEvent, At
  <2>3. consents' \subseteq ConsentEvent
    BY <1>10, <2>2, EventType DEF CascadeEvent, LoopPc
  <2>4. LocalOK([task[t] EXCEPT !.pc = "wipe"], Rows')
    BY <1>1, <2>1, <2>2 DEF LocalOK, LoopPc, GrantPath, GrantPc, AdminPath, Task
  <2>5. task[t].inst \in Instance
    BY <1>1, <2>2 DEF LocalOK, AdminPath
  <2>6. task' \in [Slot -> Task] /\ LocalsOK'
    BY <1>1, <2>1, <2>2, <2>4, <2>5, GotoStep, AfterCascadeStep DEF Pc
  <2>7. QED
    BY <1>10, <2>3, <2>6 DEF CascadeEvent, TypeOK, idpVars, historyVars
<1>11. CASE SiamCheck(t)
  <2>1. Rows' = Rows
    BY <1>11 DEF SiamCheck, dbVars, Rows
  <2> DEFINE saved == (siam # {})
  <2>2. saved \in BOOLEAN
    OBVIOUS
  <2> HIDE DEF saved
  <2> DEFINE x == [task[t] EXCEPT !.pc = "siam_write", !.was = saved]
  <2>3. x \in Task
    BY <1>1, <2>2 DEF Task, Pc
  <2>4. LocalOK(x, Rows')
    <3>1. task[t].pc = "siam_check"
      BY <1>11 DEF SiamCheck, At
    <3>2. QED
      BY <1>1, <2>1, <3>1 DEF LocalOK, LoopPc, GrantPath, GrantPc, AdminPath, Task
  <2>5. task' = [task EXCEPT ![t] = x]
    BY <1>11 DEF SiamCheck, saved
  <2>6. task' \in [Slot -> Task] /\ LocalsOK'
    BY <1>1, <2>1, <2>3, <2>4, <2>5, LocalsStep
  <2>7. QED
    BY <1>11, <2>6 DEF SiamCheck, TypeOK, dbVars, idpVars, historyVars
<1>12. CASE SiamWrite(t)
  <2>1. Rows' = Rows
    BY <1>12 DEF SiamWrite, Rows
  <2>2. task[t].pc = "siam_write" /\ Goto(t, "siam_readback")
    BY <1>12 DEF SiamWrite, At
  <2>3. LocalOK([task[t] EXCEPT !.pc = "siam_readback"], Rows')
    BY <1>1, <2>1, <2>2 DEF LocalOK, LoopPc, GrantPath, GrantPc, AdminPath, Task
  <2>4. task' \in [Slot -> Task] /\ LocalsOK'
    BY <1>1, <2>1, <2>2, <2>3, GotoStep DEF Pc
  <2>5. siam' \subseteq Mapping
    BY <1>1, <1>12 DEF SiamWrite, TypeOK, Task
  <2>6. orphanedAt' \in [Instance -> Nat]
    BY <1>12 DEF SiamWrite, TypeOK
  <2>7. QED
    BY <1>12, <2>4, <2>5, <2>6 DEF SiamWrite, TypeOK, idpVars
<1>13. CASE SiamReadBack(t)
  <2>1. Rows' = Rows
    BY <1>13 DEF SiamReadBack, dbVars, Rows
  <2>2. PICK after \in Mapping :
            task' = [task EXCEPT ![t].pc = "siam_audit", ![t].next = after]
    BY <1>13 DEF SiamReadBack, TypeOK, SiamResult, NoMapping, Mapping
  <2> DEFINE x == [task[t] EXCEPT !.pc = "siam_audit", !.next = after]
  <2>3. x \in Task
    BY <1>1, <2>2 DEF Task, Pc
  <2>4. LocalOK(x, Rows')
    <3>1. task[t].pc = "siam_readback"
      BY <1>13 DEF SiamReadBack, At
    <3>2. QED
      BY <1>1, <2>1, <3>1 DEF LocalOK, LoopPc, GrantPath, GrantPc, AdminPath, Task
  <2>5. task' = [task EXCEPT ![t] = x]
    BY <1>13, <2>2 DEF SiamReadBack
  <2>6. task' \in [Slot -> Task] /\ LocalsOK'
    BY <1>1, <2>1, <2>3, <2>4, <2>5, LocalsStep
  <2>7. QED
    BY <1>13, <2>6 DEF SiamReadBack, TypeOK, dbVars, idpVars, historyVars
<1>14. CASE SiamAudit(t)
  <2>1. Rows' = Rows
    BY <1>14 DEF SiamAudit, Rows
  <2>2. trail' \in Trail
    BY <1>1, <1>14 DEF SiamAudit, TypeOK, Trail, Task
  <2> DEFINE x == [task[t] EXCEPT !.pc = "siam_cascade", !.why = "revoked-by-siam-change"]
  <2>3. x \in Task /\ LocalOK(x, Rows')
    <3>1. task[t].pc = "siam_audit"
      BY <1>14 DEF SiamAudit, At
    <3>2. x \in Task
      BY <1>1 DEF Task, Pc, Revocations
    <3>3. LocalOK(x, Rows')
      BY <1>1, <2>1, <3>1 DEF LocalOK, LoopPc, GrantPath, GrantPc, AdminPath, Task
    <3>4. QED
      BY <3>2, <3>3
  <2>4. task' \in [Slot -> Task] /\ LocalsOK'
    <3>1. task' = [task EXCEPT ![t] = x] \/ Finish(t)
      BY <1>14 DEF SiamAudit
    <3>2. QED
      BY <1>1, <2>1, <2>3, <3>1, LocalsStep, FinishStep
  <2>5. QED
    BY <1>14, <2>2, <2>4 DEF SiamAudit, TypeOK, idpVars, historyVars
<1>15. CASE SiamQuery(t)
  <2>1. Rows' = Rows
    BY <1>15 DEF SiamQuery, dbVars, Rows
  <2> DEFINE S == NoLongerAuthorized(task[t].prev, task[t].next)
             x == [task[t] EXCEPT !.pc = "siam_wipe", !.todo = S]
  <2>2. S \subseteq Rows /\ Rows \subseteq Nat
    BY DEF NoLongerAuthorized, LiveRows, Rows, TypeOK
  <2>3. x \in Task
    BY <1>1, <2>2 DEF Task, Pc
  <2>4. LocalOK(x, Rows')
    <3>1. task[t].pc = "siam_cascade"
      BY <1>15 DEF SiamQuery, At
    <3>2. QED
      BY <1>1, <2>1, <2>2, <3>1 DEF LocalOK, LoopPc, GrantPath, GrantPc, AdminPath, Task
  <2>5. task' \in [Slot -> Task] /\ LocalsOK'
    <3>1. task' = [task EXCEPT ![t] = x] \/ Finish(t)
      BY <1>15 DEF SiamQuery
    <3>2. QED
      BY <1>1, <2>1, <2>3, <2>4, <3>1, LocalsStep, FinishStep
  <2>6. QED
    BY <1>15, <2>5 DEF SiamQuery, TypeOK, dbVars, idpVars, historyVars
<1>16. CASE SiamRow(t)
  <2>1. /\ conns' \in Seq(Connection)
        /\ task' \in [Slot -> Task] /\ LocalsOK'
    BY <1>16, VisitStep DEF SiamRow, LoopPc
  <2>2. QED
    BY <1>16, <2>1 DEF SiamRow, TypeOK, idpVars, historyVars
<1>17. CASE SiamEvent(t)
  <2>1. Rows' = Rows
    BY <1>17 DEF SiamEvent, Rows
  <2>2. /\ task[t].pc = "siam_wiped"
        /\ Goto(t, "siam_wipe") \/ Finish(t)
    BY <1>17 DEF SiamEvent, At
  <2>3. consents' \subseteq ConsentEvent
    BY <1>17, <2>2, EventType DEF SiamEvent, LoopPc
  <2>4. LocalOK([task[t] EXCEPT !.pc = "siam_wipe"], Rows')
    BY <1>1, <2>1, <2>2 DEF LocalOK, LoopPc, GrantPath, GrantPc, AdminPath, Task
  <2>6. task' \in [Slot -> Task] /\ LocalsOK'
    BY <1>1, <2>1, <2>2, <2>4, GotoStep, FinishStep DEF Pc
  <2>7. QED
    BY <1>17, <2>3, <2>6 DEF SiamEvent, TypeOK, idpVars, historyVars
<1>18. QED
  BY <1>2, <1>3, <1>4, <1>5, <1>6, <1>7, <1>8, <1>9, <1>10,
     <1>11, <1>12, <1>13, <1>14, <1>15, <1>16, <1>17
     DEF AdminContinues

LEMMA NextTypeInv == TypeInv /\ [Next]_vars => TypeInv'
<1> SUFFICES ASSUME TypeInv, [Next]_vars PROVE TypeInv'
  OBVIOUS
<1>1. ASSUME NEW t \in Slot, CutShort(t) PROVE TypeInv'
  <2>1. Rows' = Rows
    BY <1>1 DEF CutShort, dbVars, Rows
  <2>2. task' \in [Slot -> Task] /\ LocalsOK'
    BY <1>1, <2>1, FinishStep DEF CutShort, TypeInv, TypeOK
  <2>3. QED
    BY <1>1, <2>2 DEF CutShort, TypeInv, TypeOK, dbVars, idpVars, historyVars
<1>2. ASSUME NEW f \in Flow, NEW m \in Mailbox, IdpAuthorize(f, m)
      PROVE  TypeInv'
  <2>1. Rows' = Rows
    BY <1>2 DEF IdpAuthorize, dbVars, Rows
  <2>2. LocalsOK'
    BY <1>2, <2>1 DEF IdpAuthorize, TypeInv, LocalsOK
  <2>3. codes' \subseteq Code
    BY <1>2 DEF IdpAuthorize, TypeInv, TypeOK, Code
  <2>4. QED
    BY <1>2, <2>2, <2>3 DEF IdpAuthorize, TypeInv, TypeOK, dbVars, historyVars
<1>3. CASE UNCHANGED vars
  BY <1>3 DEF vars, TypeInv, TypeOK, LocalsOK, Rows
<1>4. QED
  BY <1>1, <1>2, <1>3, UserStartsType, UserContinuesType, AdminStartsType,
     AdminContinuesType DEF Next, Continues

(* The tables and every request's local variables always hold values of    *)
(* their types, in particular a revoke loop always points at rows.         *)
THEOREM TypeCorrect == Spec => []TypeInv
BY InitTypeInv, NextTypeInv, PTL DEF Spec

=============================================================================
