--------------------------- MODULE HubGrantProofs ---------------------------
(* What grants insert.  Connections are unique but for those of grants     *)
(* that overlapped between their query and their INSERT: the check of      *)
(* grant and complete_grant is safe against everything else that users and *)
(* administrators do.  And stored tokens always belong to the user, the    *)
(* instance and the account of their row, whatever states and codes users  *)
(* post.                                                                   *)
EXTENDS HubTrailProofs

-----------------------------------------------------------------------------
(* The inductive invariant.  What the awaits "dup" and "seq" have found    *)
(* out stays true until the INSERT, unless a grant that raced changed it.  *)

Planned == {"seq", "insert"}

Plans(t, u, i) ==
    task[t].pc \in Planned /\ task[t].user = u /\ task[t].inst = i

(* Grants have a user's slot. *)
Serving == \A t \in Slot : task[t].pc \in GrantPc => t \in UserSlot

(* Two grants between their query and their INSERT know of each other. *)
RivalsRace ==
    \A s, t \in Slot :
        /\ s # t
        /\ task[s].pc \in Planned
        /\ Plans(t, task[s].user, task[s].inst)
        => {s, t} \subseteq racing

NoDuplicateYet ==
    \A t \in Slot, r \in Rows :
        /\ Plans(t, conns[r].user, conns[r].inst)
        /\ conns[r].ext = task[t].ext
        /\ conns[r].live
        => t \in racing /\ r \in raced

SeqIsFresh ==
    \A t \in Slot, r \in Rows :
        /\ Plans(t, conns[r].user, conns[r].inst)
        /\ task[t].pc = "insert"
        /\ ~(conns[r].seq < task[t].seq)
        => t \in racing /\ r \in raced

UniqueInv ==
    /\ Serving
    /\ RivalsRace
    /\ NoDuplicateYet
    /\ SeqIsFresh
    /\ UniqueActive
    /\ UniqueIds

-----------------------------------------------------------------------------
(* What a step can do to the connections and to the grants in progress.    *)

(* A slot enters the awaits of a grant only by starting one. *)
KeepsServing ==
    \A s \in Slot : task'[s].pc \in GrantPc =>
        task[s].pc \in GrantPc \/ s \in UserSlot

(* No slot enters or changes at the awaits that follow the checks. *)
KeepsPlans ==
    \A s \in Slot : task'[s] = task[s] \/ task'[s].pc \notin Planned

Aside == UNCHANGED <<conns, racing, raced>> /\ KeepsServing /\ KeepsPlans

Sweeps ==
    /\ \E w \in BOOLEAN, r \in Rows : conns' = Disconnect(r, w)
    /\ UNCHANGED <<racing, raced>>
    /\ KeepsServing
    /\ KeepsPlans

Grants(t) == CheckDuplicate(t) \/ ReadNextSeq(t) \/ InsertRow(t)

(* A request that moves to an await outside the grants, or ends, plans     *)
(* nothing.                                                                *)
LEMMA MovesAway ==
    ASSUME NEW t \in Slot, OnlyMoves(t), task'[t].pc \notin GrantPc
    PROVE  KeepsServing /\ KeepsPlans
BY DEF KeepsServing, KeepsPlans, OnlyMoves, Planned, GrantPc

LEMMA FinishAway ==
    ASSUME TypeInv, NEW t \in Slot, Finish(t)
    PROVE  KeepsServing /\ KeepsPlans
<1>1. OnlyMoves(t) /\ task'[t] = Idle
  BY DEF Finish, OnlyMoves, TypeInv, TypeOK
<1>2. Idle.pc \notin GrantPc
  BY DEF Idle, GrantPc
<1>3. QED
  BY <1>1, <1>2, MovesAway

LEMMA GotoAway ==
    ASSUME TypeInv, NEW t \in Slot, NEW pc \in Pc \ GrantPc, Goto(t, pc)
    PROVE  KeepsServing /\ KeepsPlans
<1>1. OnlyMoves(t) /\ task'[t].pc = pc
  BY DEF Goto, OnlyMoves, Task, TypeInv, TypeOK
<1>2. QED
  BY <1>1, MovesAway

LEMMA VisitAway ==
    ASSUME TypeInv, NEW t \in Slot, NEW w \in BOOLEAN, NEW pc \in LoopPc,
           VisitRow(t, w, pc), UNCHANGED <<racing, raced>>
    PROVE  Sweeps
<1>1. PICK r \in task[t].todo :
          /\ conns' = Disconnect(r, w)
          /\ task' = [task EXCEPT ![t].pc = pc, ![t].cur = r,
                                  ![t].todo = @ \ {r}]
  BY DEF VisitRow
<1>2. r \in Rows /\ OnlyMoves(t) /\ task'[t].pc = pc
  BY <1>1 DEF Task, TypeInv, TypeOK, LocalsOK, LocalOK, OnlyMoves
<1>3. pc \notin GrantPc
  BY DEF LoopPc, GrantPc
<1>4. QED
  BY <1>1, <1>2, <1>3, MovesAway DEF Sweeps

(* A grant that moves to an await before its duplicate check. *)
LEMMA GrantGoesOn ==
    ASSUME TypeInv, NEW t \in Slot, NEW pc \in {"exchange", "dup"},
           Goto(t, pc), task[t].pc \in GrantPc
    PROVE  KeepsServing /\ KeepsPlans
BY DEF Goto, KeepsServing, KeepsPlans, Planned, TypeInv, TypeOK, Task

LEMMA UserGrantSteps ==
    ASSUME TypeInv, NEW t \in Slot, UserStarts(t) \/ UserContinues(t)
    PROVE  Aside \/ Sweeps \/ Grants(t)
<1> USE DEF TypeInv, TypeOK
<1>1. CASE UserStarts(t)
  <2>1. PICK u \in User, i \in Instance :
            \/ GrantFetch(t, u, i)
            \/ InitiateFetch(t, u, i)
            \/ \E f \in Flow, c \in Code : CompleteFetch(t, u, i, f, c)
            \/ RevokeQuery(t, u, i)
    BY <1>1 DEF UserStarts
  <2>2. t \in UserSlot /\ UNCHANGED <<conns, racing, raced>>
    BY <2>1 DEF GrantFetch, InitiateFetch, CompleteFetch, RevokeQuery,
       Arrives, dbVars, historyVars
  <2>3. /\ \A s \in Slot \ {t} : task'[s] = task[s]
        /\ task'[t].pc \notin Planned
    <3>1. CASE GrantFetch(t, u, i)
      BY <3>1, IdleType DEF GrantFetch, Planned, Task
    <3>2. CASE InitiateFetch(t, u, i)
      BY <3>2, IdleType DEF InitiateFetch, Planned, Task
    <3>3. CASE \E f \in Flow, c \in Code : CompleteFetch(t, u, i, f, c)
      BY <3>3, IdleType DEF CompleteFetch, Planned, Task
    <3>4. CASE RevokeQuery(t, u, i)
      BY <3>4, IdleType DEF RevokeQuery, Planned, Task
    <3>5. QED
      BY <2>1, <3>1, <3>2, <3>3, <3>4
  <2>4. QED
    BY <2>2, <2>3 DEF Aside, KeepsServing, KeepsPlans
<1>2. CASE GrantGate(t)
  BY <1>2, FinishAway, GrantGoesOn
     DEF GrantGate, At, GrantPc, Aside, dbVars, historyVars
<1>3. CASE CompleteGate(t)
  BY <1>3, FinishAway, GrantGoesOn
     DEF CompleteGate, At, GrantPc, Aside, dbVars, historyVars
<1>4. CASE Exchange(t)
  <2>1. CASE Finish(t)
    BY <1>4, <2>1, FinishAway DEF Exchange, Aside, dbVars, historyVars
  <2>2. CASE task' = [task EXCEPT ![t].pc = "dup",
                                  ![t].ext = task[t].code.mailbox]
    <3>1. task[t].pc = "exchange" /\ UNCHANGED <<conns, racing, raced>>
      BY <1>4 DEF Exchange, At, dbVars, historyVars
    <3>2. QED
      BY <2>2, <3>1 DEF Aside, KeepsServing, KeepsPlans, Planned, GrantPc, Task
  <2>3. QED
    BY <1>4, <2>1, <2>2 DEF Exchange
<1>5. CASE RecordGranted(t) \/ MintState(t)
  BY <1>5, FinishAway
     DEF RecordGranted, MintState, Aside, dbVars, historyVars
<1>6. CASE RevokeRow(t)
  BY <1>6, VisitAway DEF RevokeRow, LoopPc, historyVars
<1>7. CASE RevokeEvent(t)
  BY <1>7, FinishAway, GotoAway
     DEF RevokeEvent, Pc, GrantPc, Aside, historyVars
<1>8. QED
  BY <1>1, <1>2, <1>3, <1>4, <1>5, <1>6, <1>7 DEF UserContinues, Grants

LEMMA AdminStartsAway ==
    ASSUME TypeInv, NEW t \in Slot, AdminStarts(t)
    PROVE  UNCHANGED <<conns, racing, raced>> /\ OnlyMoves(t) /\ task'[t].pc \notin GrantPc
<1> USE DEF TypeInv, TypeOK
<1>1. ASSUME NEW i \in Instance, NEW e \in BOOLEAN, CreateCheck(t, i, e)
      PROVE  UNCHANGED <<conns, racing, raced>> /\ OnlyMoves(t) /\ task'[t].pc \notin GrantPc
  BY <1>1, IdleType DEF CreateCheck, OnlyMoves, GrantPc, Task,
     dbVars, historyVars
<1>2. ASSUME NEW i \in Instance, NEW e, UpdateRead(t, i, e)
      PROVE  UNCHANGED <<conns, racing, raced>> /\ OnlyMoves(t) /\ task'[t].pc \notin GrantPc
  BY <1>2, IdleType DEF UpdateRead, OnlyMoves, GrantPc, Task,
     dbVars, historyVars
<1>3. ASSUME NEW i \in Instance, DeleteRead(t, i)
      PROVE  UNCHANGED <<conns, racing, raced>> /\ OnlyMoves(t) /\ task'[t].pc \notin GrantPc
  BY <1>3, IdleType DEF DeleteRead, OnlyMoves, GrantPc, Task,
     dbVars, historyVars
<1>4. ASSUME NEW m \in Mapping, SiamRead(t, m)
      PROVE  UNCHANGED <<conns, racing, raced>> /\ OnlyMoves(t) /\ task'[t].pc \notin GrantPc
  BY <1>4, IdleType DEF SiamRead, OnlyMoves, GrantPc, Task,
     dbVars, historyVars
<1>5. QED
  BY <1>1, <1>2, <1>3, <1>4 DEF AdminStarts

LEMMA AdminGrantSteps ==
    ASSUME TypeInv, NEW t \in Slot, AdminStarts(t) \/ AdminContinues(t)
    PROVE  Aside \/ Sweeps
<1> USE DEF TypeInv, TypeOK
<1>1. CASE AdminStarts(t)
  BY <1>1, AdminStartsAway, MovesAway DEF Aside
<1>2. CASE CreateInsert(t) \/ UpdateWrite(t) \/ DeleteRow(t) \/ SiamWrite(t)
  BY <1>2, GotoAway DEF CreateInsert, UpdateWrite, DeleteRow, SiamWrite,
     Pc, GrantPc, Aside, historyVars
<1>3. CASE CreateAudit(t) \/ DeleteAudit(t)
  BY <1>3, FinishAway DEF CreateAudit, DeleteAudit, Aside, historyVars
<1>4. CASE UpdateAudit(t) \/ SiamAudit(t)
  <2>1. /\ UNCHANGED <<conns, racing, raced>>
        /\ Finish(t) \/ (OnlyMoves(t) /\ task'[t].pc \notin GrantPc)
    BY <1>4 DEF UpdateAudit, SiamAudit, OnlyMoves, GrantPc, Task, historyVars
  <2>2. QED
    BY <2>1, FinishAway, MovesAway DEF Aside
<1>5. CASE CascadeQuery(t) \/ SiamQuery(t) \/ SiamCheck(t) \/ SiamReadBack(t)
  <2>1. /\ UNCHANGED <<conns, racing, raced>>
        /\ \/ Finish(t) \/ AfterCascade(t)
           \/ OnlyMoves(t) /\ task'[t].pc \notin GrantPc
    BY <1>5 DEF CascadeQuery, SiamQuery, SiamCheck, SiamReadBack, OnlyMoves,
       GrantPc, Task, dbVars, historyVars
  <2>2. QED
    BY <2>1, FinishAway, GotoAway, MovesAway DEF AfterCascade, Pc, GrantPc, Aside
<1>6. CASE CascadeRow(t) \/ SiamRow(t)
  BY <1>6, VisitAway DEF CascadeRow, SiamRow, LoopPc, historyVars
<1>7. CASE CascadeEvent(t) \/ SiamEvent(t)
  BY <1>7, FinishAway, GotoAway
     DEF CascadeEvent, SiamEvent, AfterCascade, Pc, GrantPc, Aside, historyVars
<1>8. QED
  BY <1>1, <1>2, <1>3, <1>4, <1>5, <1>6, <1>7 DEF AdminContinues

LEMMA GrantSteps ==
    ASSUME TypeInv, [Next]_vars
    PROVE  Aside \/ Sweeps \/ \E t \in Slot : Grants(t)
<1>1. ASSUME NEW t \in Slot, CutShort(t) PROVE Aside
  BY <1>1, FinishAway DEF CutShort, Aside, dbVars, historyVars
<1>2. ASSUME NEW f \in Flow, NEW m \in Mailbox, IdpAuthorize(f, m)
      PROVE  Aside
  BY <1>2 DEF IdpAuthorize, Aside, KeepsServing, KeepsPlans, dbVars,
     historyVars
<1>3. CASE UNCHANGED vars
  BY <1>3 DEF vars, Aside, KeepsServing, KeepsPlans
<1>4. QED
  BY <1>1, <1>2, <1>3, UserGrantSteps, AdminGrantSteps DEF Next, Continues

-----------------------------------------------------------------------------
(* The invariant is kept by each kind of step.                             *)

LEMMA DisconnectShrinks ==
    ASSUME TypeInv, NEW r \in Rows, NEW w \in BOOLEAN,
           conns' = Disconnect(r, w)
    PROVE  LiveRows' \subseteq LiveRows
<1>1. SUFFICES ASSUME NEW q \in Rows, conns'[q].live PROVE conns[q].live
  BY DisconnectKeeps DEF LiveRows
<1>2. conns[q] \in Connection
  BY DEF Rows, TypeInv, TypeOK
<1>3. CASE SameId(r, q)
  <2>1. conns'[q] = [conns[q] EXCEPT !.status = "disconnected",
                         !.live = FALSE, !.creds = IF w THEN None ELSE @]
    BY <1>3 DEF Disconnect
  <2>2. conns'[q].live = FALSE
    BY <1>2, <2>1 DEF Connection
  <2>3. QED
    BY <1>1, <2>2
<1>4. CASE ~SameId(r, q)
  BY <1>1, <1>4, DisconnectKeeps
<1>5. QED
  BY <1>3, <1>4

LEMMA AsideUnique ==
    ASSUME UniqueInv, Aside
    PROVE  UniqueInv'
<1> USE DEF UniqueInv, Aside
<1>1. Serving'
  BY DEF Serving, KeepsServing
<1>2. RivalsRace' /\ NoDuplicateYet' /\ SeqIsFresh'
  BY DEF RivalsRace, NoDuplicateYet, SeqIsFresh, Plans, KeepsPlans, Planned,
     Rows
<1>3. UniqueActive' /\ UniqueIds'
  BY DEF UniqueActive, UniqueIds, LiveRows, Rows, SameId, SameAccount
<1>4. QED
  BY <1>1, <1>2, <1>3

LEMMA SweepsUnique ==
    ASSUME TypeInv, UniqueInv, Sweeps
    PROVE  UniqueInv'
<1>1. PICK w \in BOOLEAN, r \in Rows : conns' = Disconnect(r, w)
  BY DEF Sweeps
<1>2. /\ Rows' = Rows
      /\ \A q \in Rows : /\ conns'[q].user = conns[q].user
                         /\ conns'[q].inst = conns[q].inst
                         /\ conns'[q].seq = conns[q].seq
                         /\ conns'[q].ext = conns[q].ext
                         /\ conns'[q].live => conns[q].live
  BY <1>1, DisconnectKeeps, DisconnectShrinks DEF LiveRows
<1>3. KeepsServing /\ KeepsPlans /\ UNCHANGED <<racing, raced>>
  BY DEF Sweeps
<1>4. Serving'
  BY <1>3 DEF UniqueInv, Serving, KeepsServing
<1>5. RivalsRace' /\ NoDuplicateYet' /\ SeqIsFresh'
  BY <1>2, <1>3 DEF UniqueInv, RivalsRace, NoDuplicateYet, SeqIsFresh, Plans,
     KeepsPlans, Planned
<1>6. UniqueActive' /\ UniqueIds'
  BY <1>2, <1>3
     DEF UniqueInv, UniqueActive, UniqueIds, LiveRows, SameId, SameAccount
<1>7. QED
  BY <1>4, <1>5, <1>6 DEF UniqueInv

(* The duplicate query finds no live row before the request goes on, and   *)
(* meets the grants that are between their query and their INSERT.         *)
LEMMA CheckUnique ==
    ASSUME TypeInv, UniqueInv, NEW t \in Slot, CheckDuplicate(t)
    PROVE  UniqueInv'
<1>1. /\ task[t].pc = "dup"
      /\ UNCHANGED <<conns, raced>>
      /\ \/ Finish(t) /\ UNCHANGED racing
         \/ /\ ~HasDuplicate(t) /\ Goto(t, "seq")
            /\ racing' = IF Rivals(t) = {} THEN racing \ {t}
                         ELSE racing \cup {t} \cup Rivals(t)
  BY DEF CheckDuplicate, At, dbVars
<1>2. CASE Finish(t) /\ UNCHANGED racing
  BY <1>1, <1>2, FinishAway, AsideUnique DEF Aside
<1>3. CASE /\ ~HasDuplicate(t) /\ Goto(t, "seq")
           /\ racing' = IF Rivals(t) = {} THEN racing \ {t}
                        ELSE racing \cup {t} \cup Rivals(t)
  <2>1. /\ task'[t].pc = "seq"
        /\ task'[t].user = task[t].user /\ task'[t].inst = task[t].inst
        /\ task'[t].ext = task[t].ext
        /\ \A s \in Slot \ {t} : task'[s] = task[s]
    BY <1>3 DEF Goto, TypeInv, TypeOK, Task
  <2>2. Serving'
    BY <1>1, <2>1 DEF UniqueInv, Serving, GrantPc
  <2>3. \A r \in Rows : /\ conns[r].user = task[t].user
                        /\ conns[r].inst = task[t].inst
                        /\ conns[r].ext = task[t].ext
                        => ~conns[r].live
    BY <1>3 DEF HasDuplicate, LiveOf, LiveOn, LiveRows
  <2>4. /\ \A s \in Slot \ {t} : s \in racing => s \in racing'
        /\ \A s \in Rivals(t) : {s, t} \subseteq racing'
    BY <1>3
  <2>5. ASSUME NEW s \in Slot \ {t}, Plans(s, task[t].user, task[t].inst)
        PROVE  s \in Rivals(t)
    BY <2>5 DEF UniqueInv, Serving, Plans, Planned, GrantPc, Rivals
  <2>6. RivalsRace'
    <3>1. SUFFICES ASSUME NEW s \in Slot, NEW x \in Slot, s # x,
                          task'[s].pc \in Planned,
                          Plans(x, task[s].user, task[s].inst)'
                   PROVE  {s, x} \subseteq racing'
      BY DEF RivalsRace, Plans
    <3>2. CASE s = t
      BY <2>1, <2>4, <2>5, <3>1, <3>2 DEF Plans
    <3>3. CASE x = t
      BY <2>1, <2>4, <2>5, <3>1, <3>3 DEF Plans
    <3>4. CASE s # t /\ x # t
      BY <2>1, <2>4, <3>1, <3>4 DEF UniqueInv, RivalsRace, Plans
    <3>5. QED
      BY <3>2, <3>3, <3>4
  <2>7. NoDuplicateYet'
    <3>1. SUFFICES ASSUME NEW s \in Slot, NEW r \in Rows,
                          Plans(s, conns[r].user, conns[r].inst)',
                          conns[r].ext = task'[s].ext, conns[r].live
                   PROVE  s \in racing' /\ r \in raced
      BY <1>1 DEF NoDuplicateYet, Rows, Plans
    <3>2. s # t
      BY <1>1, <2>1, <2>3, <3>1 DEF Plans
    <3>3. QED
      BY <1>1, <2>1, <2>4, <3>1, <3>2 DEF UniqueInv, NoDuplicateYet, Plans
  <2>8. SeqIsFresh'
    <3>1. SUFFICES ASSUME NEW s \in Slot, NEW r \in Rows,
                          Plans(s, conns[r].user, conns[r].inst)',
                          task'[s].pc = "insert",
                          ~(conns[r].seq < task'[s].seq)
                   PROVE  s \in racing' /\ r \in raced
      BY <1>1 DEF SeqIsFresh, Rows, Plans
    <3>2. s # t
      BY <2>1, <3>1
    <3>3. QED
      BY <1>1, <2>1, <2>4, <3>1, <3>2 DEF UniqueInv, SeqIsFresh, Plans
  <2>9. UniqueActive' /\ UniqueIds'
    BY <1>1 DEF UniqueInv, UniqueActive, UniqueIds, LiveRows, Rows, SameId,
       SameAccount
  <2>10. QED
    BY <2>2, <2>6, <2>7, <2>8, <2>9 DEF UniqueInv
<1>4. QED
  BY <1>1, <1>2, <1>3

LEMMA SeqsAreNats ==
    ASSUME TypeInv
    PROVE  \A q \in Rows : conns[q].seq \in Nat
<1>1. \A q \in Rows : conns[q] \in Connection
  BY DEF Rows, TypeInv, TypeOK
<1>2. QED
  BY <1>1 DEF Connection

(* The next sequence number exceeds every one there is. *)
LEMMA NextSeqIsFresh ==
    ASSUME TypeInv, NEW u, NEW i, NEW n \in Nat, IsNextSeq(n, u, i),
           NEW r \in Rows, conns[r].user = u, conns[r].inst = i
    PROVE  conns[r].seq < n
<1> DEFINE S == {conns[q].seq : q \in {p \in Rows : conns[p].user = u
                                                   /\ conns[p].inst = i}}
<1>1. conns[r].seq \in S
  OBVIOUS
<1>2. S \subseteq Nat
  BY SeqsAreNats
<1>3. PICK m \in S : (\A s \in S : s <= m) /\ n = m + 1
  BY <1>1 DEF IsNextSeq
<1>4. QED
  BY <1>1, <1>2, <1>3

LEMMA ReadSeqUnique ==
    ASSUME TypeInv, UniqueInv, NEW t \in Slot, ReadNextSeq(t)
    PROVE  UniqueInv'
<1>1. /\ task[t].pc = "seq"
      /\ UNCHANGED <<conns, racing, raced>>
  BY DEF ReadNextSeq, At, dbVars, historyVars
<1>2. PICK n \in 0..Len(conns) :
          /\ IsNextSeq(n, task[t].user, task[t].inst)
          /\ task' = [task EXCEPT ![t].pc = "insert", ![t].seq = n]
  BY DEF ReadNextSeq
<1>3. n \in Nat
  OBVIOUS
<1>4. /\ task'[t].pc = "insert" /\ task'[t].seq = n
      /\ task'[t].user = task[t].user /\ task'[t].inst = task[t].inst
      /\ task'[t].ext = task[t].ext
      /\ \A s \in Slot \ {t} : task'[s] = task[s]
  BY <1>2 DEF TypeInv, TypeOK, Task
<1>5. Serving'
  BY <1>1, <1>4 DEF UniqueInv, Serving, GrantPc
<1>6. \A s \in Slot : /\ task'[s].pc \in Planned <=> task[s].pc \in Planned
                      /\ task'[s].user = task[s].user
                      /\ task'[s].inst = task[s].inst
                      /\ task'[s].ext = task[s].ext
  BY <1>1, <1>4 DEF Planned
<1>7. RivalsRace' /\ NoDuplicateYet'
  BY <1>1, <1>6 DEF UniqueInv, RivalsRace, NoDuplicateYet, Plans, Rows
<1>8. SeqIsFresh'
  <2>1. \A r \in Rows : /\ conns[r].user = task[t].user
                        /\ conns[r].inst = task[t].inst
                        => conns[r].seq < n
    BY <1>2, <1>3, NextSeqIsFresh
  <2>2. QED
    BY <1>1, <1>4, <2>1 DEF UniqueInv, SeqIsFresh, Plans, Rows
<1>9. UniqueActive' /\ UniqueIds'
  BY <1>1 DEF UniqueInv, UniqueActive, UniqueIds, LiveRows, Rows, SameId,
     SameAccount
<1>10. QED
  BY <1>5, <1>7, <1>8, <1>9 DEF UniqueInv

(* The INSERT adds a row nothing else resembles, unless its grant raced:   *)
(* then the row is marked, and so is every one it may resemble.            *)
LEMMA InsertUnique ==
    ASSUME TypeInv, UniqueInv, NEW t \in Slot, InsertRow(t)
    PROVE  UniqueInv'
<1> DEFINE new == Len(conns) + 1
<1>1. /\ Rows' = Rows \cup {new} /\ new \notin Rows
      /\ \A q \in Rows : conns'[q] = conns[q]
      /\ conns'[new].user = task[t].user /\ conns'[new].inst = task[t].inst
      /\ conns'[new].seq = task[t].seq /\ conns'[new].ext = task[t].ext
  <2>1. /\ Rows' = Rows \cup {new} /\ new \notin Rows
        /\ \A q \in Rows : conns'[q] = conns[q]
        /\ conns'[new] = NewRow(t)
    BY InsertAppends
  <2>2. /\ NewRow(t).user = task[t].user /\ NewRow(t).inst = task[t].inst
        /\ NewRow(t).seq = task[t].seq /\ NewRow(t).ext = task[t].ext
    BY DEF NewRow
  <2>3. QED
    BY <2>1, <2>2
<1>2. /\ task[t].pc = "insert"
      /\ task'[t].pc = "granted"
      /\ \A s \in Slot \ {t} : task'[s] = task[s]
  BY DEF InsertRow, Goto, At, TypeInv, TypeOK, Task
<1>3. /\ racing' = racing
      /\ raced \subseteq raced'
      /\ t \in racing => new \in raced'
  BY DEF InsertRow
<1> HIDE DEF new
<1>4. Plans(t, task[t].user, task[t].inst)
  BY <1>2 DEF Plans, Planned
<1>5. Serving'
  BY <1>2 DEF UniqueInv, Serving, GrantPc
<1>6. ASSUME NEW s \in Slot, task'[s].pc \in Planned
      PROVE  s # t /\ task'[s] = task[s]
  BY <1>2, <1>6 DEF Planned
<1>7. RivalsRace'
  BY <1>3, <1>6 DEF UniqueInv, RivalsRace, Plans
<1>8. ASSUME NEW s \in Slot, task'[s].pc \in Planned,
             task'[s].user = task[t].user, task'[s].inst = task[t].inst
      PROVE  s \in racing /\ new \in raced'
  <2>1. /\ s # t /\ task[s].pc \in Planned
        /\ Plans(t, task[s].user, task[s].inst)
    BY <1>4, <1>6, <1>8 DEF Plans
  <2>2. QED
    BY <1>3, <2>1 DEF UniqueInv, RivalsRace
<1>9. NoDuplicateYet'
  <2>1. SUFFICES ASSUME NEW s \in Slot, NEW r \in Rows',
                        Plans(s, conns[r].user, conns[r].inst)',
                        conns'[r].ext = task'[s].ext, conns'[r].live
                 PROVE  s \in racing /\ r \in raced'
    BY <1>3 DEF NoDuplicateYet
  <2>2. CASE r = new
    BY <1>1, <1>8, <2>1, <2>2 DEF Plans
  <2>3. CASE r \in Rows
    BY <1>1, <1>3, <1>6, <2>1, <2>3 DEF UniqueInv, NoDuplicateYet, Plans
  <2>4. QED
    BY <1>1, <2>2, <2>3
<1>10. SeqIsFresh'
  <2>1. SUFFICES ASSUME NEW s \in Slot, NEW r \in Rows',
                        Plans(s, conns[r].user, conns[r].inst)',
                        task'[s].pc = "insert",
                        ~(conns'[r].seq < task'[s].seq)
                 PROVE  s \in racing /\ r \in raced'
    BY <1>3 DEF SeqIsFresh
  <2>2. CASE r = new
    BY <1>1, <1>8, <2>1, <2>2 DEF Plans
  <2>3. CASE r \in Rows
    BY <1>1, <1>3, <1>6, <2>1, <2>3 DEF UniqueInv, SeqIsFresh, Plans
  <2>4. QED
    BY <1>1, <2>2, <2>3
<1>11. UniqueActive'
  <2>1. ASSUME NEW q \in Rows, conns[q].live,
               conns[q].user = task[t].user, conns[q].inst = task[t].inst,
               conns[q].ext = task[t].ext
        PROVE  {q, new} \subseteq raced'
    BY <1>3, <1>4, <2>1 DEF UniqueInv, NoDuplicateYet
  <2>2. QED
    BY <1>1, <1>3, <2>1 DEF UniqueInv, UniqueActive, LiveRows, SameAccount
<1>12. UniqueIds'
  <2>1. ASSUME NEW q \in Rows, conns[q].user = task[t].user,
               conns[q].inst = task[t].inst, conns[q].seq = task[t].seq
        PROVE  {q, new} \subseteq raced'
    <3>1. conns[q].seq \in Nat
      BY SeqsAreNats
    <3>2. ~(conns[q].seq < task[t].seq)
      BY <2>1, <3>1
    <3>3. QED
      BY <1>2, <1>3, <1>4, <2>1, <3>2 DEF UniqueInv, SeqIsFresh
  <2>2. QED
    BY <1>1, <1>3, <2>1 DEF UniqueInv, UniqueIds, SameId
<1>13. QED
  BY <1>5, <1>7, <1>9, <1>10, <1>11, <1>12 DEF UniqueInv

LEMMA NextUniqueInv == TypeInv /\ UniqueInv /\ [Next]_vars => UniqueInv'
BY GrantSteps, AsideUnique, SweepsUnique, CheckUnique, ReadSeqUnique,
   InsertUnique DEF Grants

LEMMA InitUniqueInv == Init => UniqueInv
BY DEF Init, DbInit, UniqueInv, Serving, RivalsRace, NoDuplicateYet,
   SeqIsFresh, UniqueActive, UniqueIds, LiveRows, Rows, Idle, GrantPc, Planned

(* However many requests a user, other users and administrators have in    *)
(* progress, and wherever requests are cut short, two live rows of one     *)
(* user, instance and account both come from grants that overlapped        *)
(* between the query and the INSERT of grant and complete_grant.           *)
THEOREM ActiveIsUnique == Spec => []UniqueActive
<1>1. UniqueInv => UniqueActive
  BY DEF UniqueInv
<1>2. QED
  BY <1>1, NextUniqueInv, InitUniqueInv, TypeCorrect, PTL DEF Spec

(* In the same cases only, two rows get one id user:inst:seq: an UPDATE    *)
(* ... WHERE id of any revoke reaches one row, or rows that raced.         *)
THEOREM IdsAreUnique == Spec => []UniqueIds
<1>1. UniqueInv => UniqueIds
  BY DEF UniqueInv
<1>2. QED
  BY <1>1, NextUniqueInv, InitUniqueInv, TypeCorrect, PTL DEF Spec

-----------------------------------------------------------------------------
(* Credentials.  The state that complete_grant checked when the request    *)
(* arrived still says the same when the row is inserted, because a state   *)
(* is never issued twice.                                                  *)

StateOf(x) == [user |-> x.user, inst |-> x.inst]

CredentialPc == {"grant_siam", "complete_siam", "exchange", "dup", "seq",
                 "insert"}

(* What request locals x have established by each await. *)
Established(x, issued) ==
    /\ x.pc = "grant_siam" => x.code = None
    /\ x.pc \in {"complete_siam", "exchange"} => issued[x.flow] = StateOf(x)
    /\ x.pc \in {"dup", "seq", "insert"} /\ x.code # None
          => issued[x.code.flow] = StateOf(x) /\ x.ext = x.code.mailbox

CredentialInv ==
    /\ \A t \in Slot : Established(task[t], flows)
    /\ CredentialsBelongToFlow

-----------------------------------------------------------------------------
(* A flow that was started keeps its user and instance. *)
FlowsKept == \A f \in Flow : flows[f] # None => flows'[f] = flows[f]

LEMMA MintKeeps ==
    ASSUME TypeInv, NEW t \in Slot, MintState(t)
    PROVE  FlowsKept
BY DEF MintState, UnusedFlows, FlowsKept, TypeInv, TypeOK

LEMMA UserFlowsKept ==
    ASSUME TypeInv, NEW t \in Slot, UserStarts(t) \/ UserContinues(t)
    PROVE  FlowsKept
<1>1. CASE UserStarts(t)
  BY <1>1 DEF UserStarts, GrantFetch, InitiateFetch, CompleteFetch,
     RevokeQuery, idpVars, FlowsKept
<1>2. CASE UserContinues(t)
  BY <1>2, MintKeeps DEF UserContinues, GrantGate, CheckDuplicate,
     ReadNextSeq, InsertRow, RecordGranted, CompleteGate, Exchange,
     RevokeRow, RevokeEvent, idpVars, FlowsKept
<1>3. QED
  BY <1>1, <1>2

LEMMA AdminFlowsKept ==
    ASSUME NEW t \in Slot, AdminStarts(t) \/ AdminContinues(t)
    PROVE  FlowsKept
<1>1. CASE AdminStarts(t)
  BY <1>1 DEF AdminStarts, CreateCheck, UpdateRead, DeleteRead, SiamRead,
     idpVars, FlowsKept
<1>2. CASE AdminContinues(t)
  BY <1>2 DEF AdminContinues, CreateInsert, CreateAudit, UpdateWrite,
     UpdateAudit, DeleteRow, DeleteAudit, CascadeQuery, CascadeRow,
     CascadeEvent, SiamCheck, SiamWrite, SiamReadBack, SiamAudit, SiamQuery,
     SiamRow, SiamEvent, idpVars, FlowsKept
<1>3. QED
  BY <1>1, <1>2

LEMMA NextFlowsKept ==
    ASSUME TypeInv, [Next]_vars
    PROVE  FlowsKept
BY UserFlowsKept, AdminFlowsKept DEF Next, Continues, CutShort, IdpAuthorize,
   idpVars, vars, FlowsKept

-----------------------------------------------------------------------------
(* What a request has established stays established. *)
LEMMA EstablishedStays ==
    ASSUME TypeInv, CredentialInv, FlowsKept, NEW s \in Slot
    PROVE  Established(task[s], flows')
<1>0. PICK x : x = task[s]
  OBVIOUS
<1>1. /\ x \in Task
      /\ x.pc \in CredentialPc => x.user \in User /\ x.inst \in Instance
      /\ x.pc \in {"complete_siam", "exchange"} => x.flow \in Flow
  BY <1>0
     DEF TypeInv, TypeOK, LocalsOK, LocalOK, GrantPath, GrantPc, CredentialPc
<1>2. x.pc \in CredentialPc => StateOf(x) # None
  BY <1>1, NoneAssumption DEF StateOf
<1>3. x.code # None => x.code.flow \in Flow
  BY <1>1 DEF Task, Code
<1>4. Established(x, flows)
  BY <1>0 DEF CredentialInv
<1>5. CASE x.pc \in {"complete_siam", "exchange"}
  <2>1. flows[x.flow] = StateOf(x) /\ flows[x.flow] # None
    BY <1>2, <1>4, <1>5 DEF Established, CredentialPc
  <2>2. flows'[x.flow] = StateOf(x)
    BY <1>1, <1>5, <2>1 DEF FlowsKept
  <2>3. QED
    BY <1>0, <1>5, <2>2 DEF Established
<1>6. CASE x.pc \in {"dup", "seq", "insert"} /\ x.code # None
  <2>1. /\ flows[x.code.flow] = StateOf(x) /\ flows[x.code.flow] # None
        /\ x.ext = x.code.mailbox
    BY <1>2, <1>4, <1>6 DEF Established, CredentialPc
  <2>2. flows'[x.code.flow] = StateOf(x)
    BY <1>3, <1>6, <2>1 DEF FlowsKept
  <2>3. QED
    BY <1>0, <1>6, <2>1, <2>2 DEF Established
<1>7. QED
  BY <1>0, <1>4, <1>5, <1>6 DEF Established

(* A step that leaves every other slot alone only has to answer for its    *)
(* own.                                                                    *)
LEMMA OwnEstablished ==
    ASSUME TypeInv, CredentialInv, FlowsKept, NEW t \in Slot, OnlyMoves(t),
           Established(task'[t], flows')
    PROVE  \A s \in Slot : Established(task'[s], flows')
BY EstablishedStays DEF OnlyMoves

LEMMA AwayEstablished ==
    ASSUME TypeInv, CredentialInv, FlowsKept, NEW t \in Slot, OnlyMoves(t),
           task'[t].pc \notin CredentialPc
    PROVE  \A s \in Slot : Established(task'[s], flows')
<1>1. Established(task'[t], flows')
  BY DEF Established, CredentialPc
<1>2. QED
  BY <1>1, OwnEstablished

LEMMA FinishEstablished ==
    ASSUME TypeInv, CredentialInv, FlowsKept, NEW t \in Slot, Finish(t)
    PROVE  \A s \in Slot : Established(task'[s], flows')
<1>1. OnlyMoves(t) /\ task'[t] = Idle
  BY DEF Finish, OnlyMoves, TypeInv, TypeOK
<1>2. Idle.pc \notin CredentialPc
  BY DEF Idle, CredentialPc
<1>3. QED
  BY <1>1, <1>2, AwayEstablished

LEMMA GotoMoves ==
    ASSUME TypeInv, NEW t \in Slot, NEW pc, Goto(t, pc)
    PROVE  /\ OnlyMoves(t)
           /\ task'[t] = [task[t] EXCEPT !.pc = pc]
           /\ task'[t].pc = pc
BY DEF Goto, OnlyMoves, Task, TypeInv, TypeOK

(* No administrator's request, revoke or cascade moves to an await of a    *)
(* grant.                                                                  *)
LEMMA VisitMoves ==
    ASSUME TypeInv, NEW t \in Slot, NEW w \in BOOLEAN, NEW pc \in LoopPc,
           VisitRow(t, w, pc)
    PROVE  OnlyMoves(t) /\ task'[t].pc \notin CredentialPc
BY DEF VisitRow, OnlyMoves, LoopPc, CredentialPc, Task, TypeInv, TypeOK

LEMMA AdminEstablished ==
    ASSUME TypeInv, CredentialInv, NEW t \in Slot,
           AdminStarts(t) \/ AdminContinues(t)
    PROVE  \A s \in Slot : Established(task'[s], flows')
<1>1. FlowsKept
  BY AdminFlowsKept
<1>2. CASE AdminStarts(t)
  <2>1. OnlyMoves(t) /\ task'[t].pc \notin CredentialPc
    BY <1>2, AdminStartsAway DEF CredentialPc, GrantPc
  <2>2. QED
    BY <1>1, <2>1, AwayEstablished
<1>3. CASE AdminContinues(t)
  <2>1. Finish(t) \/ (OnlyMoves(t) /\ task'[t].pc \notin CredentialPc)
    <3>1. CASE CreateInsert(t) \/ UpdateWrite(t) \/ DeleteRow(t)
               \/ SiamWrite(t) \/ CreateAudit(t) \/ DeleteAudit(t)
      <4>1. \/ Finish(t)
            \/ \E pc \in Pc \ GrantPc : Goto(t, pc)
        BY <3>1 DEF CreateInsert, UpdateWrite, DeleteRow, SiamWrite,
           CreateAudit, DeleteAudit, Pc, GrantPc
      <4>2. QED
        BY <4>1, GotoMoves DEF CredentialPc, GrantPc
    <3>2. CASE UpdateAudit(t) \/ SiamAudit(t) \/ SiamCheck(t)
               \/ SiamReadBack(t) \/ SiamQuery(t)
      BY <3>2 DEF UpdateAudit, SiamAudit, SiamCheck, SiamReadBack, SiamQuery,
         OnlyMoves, CredentialPc, Task, TypeInv, TypeOK
    <3>3. CASE CascadeQuery(t) \/ CascadeEvent(t) \/ SiamEvent(t)
      BY <3>3 DEF CascadeQuery, CascadeEvent, SiamEvent, AfterCascade, Goto,
         OnlyMoves, CredentialPc, Task, TypeInv, TypeOK
    <3>4. CASE CascadeRow(t) \/ SiamRow(t)
      BY <3>4, VisitMoves DEF CascadeRow, SiamRow, LoopPc
    <3>5. QED
      BY <1>3, <3>1, <3>2, <3>3, <3>4 DEF AdminContinues
  <2>2. QED
    BY <1>1, <2>1, AwayEstablished, FinishEstablished
<1>4. QED
  BY <1>2, <1>3

(* A request that starts has established what its first await says. *)
LEMMA UserStartsEstablished ==
    ASSUME TypeInv, CredentialInv, NEW t \in Slot, UserStarts(t)
    PROVE  \A s \in Slot : Established(task'[s], flows')
<1>1. FlowsKept
  BY UserFlowsKept
<1>2. PICK u \in User, i \in Instance :
          \/ GrantFetch(t, u, i)
          \/ InitiateFetch(t, u, i)
          \/ \E f \in Flow, c \in Code : CompleteFetch(t, u, i, f, c)
          \/ RevokeQuery(t, u, i)
  BY DEF UserStarts
<1>3. Idle \in Task /\ Idle.code = None
  BY IdleType DEF Idle
<1>4. CASE GrantFetch(t, u, i)
  <2>1. /\ OnlyMoves(t)
        /\ task'[t] = [Idle EXCEPT !.pc = "grant_siam", !.user = u,
                                   !.inst = i]
    BY <1>4 DEF GrantFetch, OnlyMoves, TypeInv, TypeOK
  <2>2. task'[t].pc = "grant_siam" /\ task'[t].code = None
    BY <1>3, <2>1 DEF Task
  <2>3. Established(task'[t], flows')
    BY <2>2 DEF Established
  <2>4. QED
    BY <1>1, <2>1, <2>3, OwnEstablished
<1>5. CASE InitiateFetch(t, u, i) \/ RevokeQuery(t, u, i)
  <2>1. OnlyMoves(t) /\ task'[t].pc \notin CredentialPc
    <3>1. CASE InitiateFetch(t, u, i)
      BY <1>3, <3>1 DEF InitiateFetch, OnlyMoves, CredentialPc, Task,
         TypeInv, TypeOK
    <3>2. CASE RevokeQuery(t, u, i)
      BY <1>3, <3>2 DEF RevokeQuery, OnlyMoves, CredentialPc, Task,
         TypeInv, TypeOK
    <3>3. QED
      BY <1>5, <3>1, <3>2
  <2>2. QED
    BY <1>1, <2>1, AwayEstablished
<1>6. ASSUME NEW f \in Flow, NEW c \in Code, CompleteFetch(t, u, i, f, c)
      PROVE  \A s \in Slot : Established(task'[s], flows')
  <2>1. /\ OnlyMoves(t)
        /\ task'[t] = [Idle EXCEPT !.pc = "complete_siam", !.user = u,
                                   !.inst = i, !.flow = f, !.code = c]
        /\ flows'[f].user = u /\ flows'[f].inst = i /\ flows'[f] # None
    BY <1>6 DEF CompleteFetch, StateMatches, OnlyMoves, idpVars, TypeInv,
       TypeOK
  <2>2. /\ task'[t].pc = "complete_siam" /\ task'[t].flow = f
        /\ task'[t].user = u /\ task'[t].inst = i
    BY <1>3, <2>1 DEF Task
  <2>3. flows'[f] \in [user : User, inst : Instance]
    BY <1>6, <2>1 DEF CompleteFetch, idpVars, TypeInv, TypeOK
  <2>4. flows'[f] = [user |-> u, inst |-> i]
    BY <2>1, <2>3
  <2>5. Established(task'[t], flows')
    BY <2>2, <2>4 DEF Established, StateOf
  <2>6. QED
    BY <1>1, <2>1, <2>5, OwnEstablished
<1>7. QED
  BY <1>2, <1>4, <1>5, <1>6

(* A request that continues carries over what it has established; Exchange *)
(* adds the account, which the identity provider vouches for.              *)
LEMMA UserContinuesEstablished ==
    ASSUME TypeInv, CredentialInv, NEW t \in Slot, UserContinues(t)
    PROVE  \A s \in Slot : Established(task'[s], flows')
<1>1. FlowsKept
  BY UserFlowsKept
<1>2. task[t] \in Task /\ Established(task[t], flows')
  BY <1>1, EstablishedStays DEF TypeInv, TypeOK
<1>3. ASSUME Finish(t)
      PROVE  \A s \in Slot : Established(task'[s], flows')
  BY <1>1, <1>3, FinishEstablished
<1>4. ASSUME NEW pc, Goto(t, pc),
             \/ task[t].pc = "grant_siam" /\ pc = "dup"
             \/ task[t].pc = "complete_siam" /\ pc = "exchange"
             \/ task[t].pc = "dup" /\ pc = "seq"
             \/ pc \notin CredentialPc
      PROVE  \A s \in Slot : Established(task'[s], flows')
  <2>1. /\ OnlyMoves(t)
        /\ task'[t].pc = pc
        /\ task'[t].user = task[t].user /\ task'[t].inst = task[t].inst
        /\ task'[t].ext = task[t].ext /\ task'[t].flow = task[t].flow
        /\ task'[t].code = task[t].code
    <3>1. /\ OnlyMoves(t) /\ task'[t].pc = pc
          /\ task'[t] = [task[t] EXCEPT !.pc = pc]
      BY <1>4, GotoMoves
    <3>2. QED
      BY <1>2, <3>1 DEF Task
  <2>2. Established(task'[t], flows')
    BY <1>2, <1>4, <2>1 DEF Established, StateOf, CredentialPc
  <2>3. QED
    BY <1>1, <2>1, <2>2, OwnEstablished
<1>5. CASE GrantGate(t)
  BY <1>3, <1>4, <1>5 DEF GrantGate, At
<1>6. CASE CompleteGate(t)
  BY <1>3, <1>4, <1>6 DEF CompleteGate, At
<1>7. CASE CheckDuplicate(t)
  BY <1>3, <1>4, <1>7 DEF CheckDuplicate, At
<1>8. CASE ReadNextSeq(t)
  <2>1. PICK n \in 0..Len(conns) :
            task' = [task EXCEPT ![t].pc = "insert", ![t].seq = n]
    BY <1>8 DEF ReadNextSeq
  <2>2. /\ OnlyMoves(t) /\ task[t].pc = "seq"
        /\ task'[t].pc = "insert"
        /\ task'[t].user = task[t].user /\ task'[t].inst = task[t].inst
        /\ task'[t].ext = task[t].ext /\ task'[t].code = task[t].code
    BY <1>8, <2>1 DEF ReadNextSeq, At, OnlyMoves, Task, TypeInv, TypeOK
  <2>3. Established(task'[t], flows')
    BY <1>2, <2>2 DEF Established, StateOf
  <2>4. QED
    BY <1>1, <2>2, <2>3, OwnEstablished
<1>9. CASE Exchange(t) /\ ~Finish(t)
  <2>1. /\ task[t].pc = "exchange"
        /\ task[t].code.flow = task[t].flow
        /\ task' = [task EXCEPT ![t].pc = "dup",
                                ![t].ext = task[t].code.mailbox]
    BY <1>9 DEF Exchange, At, Redeemable
  <2>2. /\ OnlyMoves(t)
        /\ task'[t].pc = "dup" /\ task'[t].ext = task[t].code.mailbox
        /\ task'[t].user = task[t].user /\ task'[t].inst = task[t].inst
        /\ task'[t].code = task[t].code
    BY <2>1 DEF OnlyMoves, Task, TypeInv, TypeOK
  <2>3. flows'[task[t].flow] = StateOf(task[t])
    BY <1>2, <2>1 DEF Established
  <2>4. Established(task'[t], flows')
    BY <2>1, <2>2, <2>3 DEF Established, StateOf
  <2>5. QED
    BY <1>1, <2>2, <2>4, OwnEstablished
<1>10. CASE InsertRow(t) \/ RecordGranted(t) \/ MintState(t)
  BY <1>3, <1>4, <1>10 DEF InsertRow, RecordGranted, MintState, CredentialPc
<1>11. CASE RevokeRow(t)
  BY <1>1, <1>11, VisitMoves, AwayEstablished DEF RevokeRow, LoopPc
<1>12. CASE RevokeEvent(t)
  BY <1>3, <1>4, <1>12 DEF RevokeEvent, CredentialPc
<1>13. QED
  BY <1>3, <1>5, <1>6, <1>7, <1>8, <1>9, <1>10, <1>11, <1>12
     DEF UserContinues, Exchange

LEMMA NextEstablished ==
    ASSUME TypeInv, CredentialInv, [Next]_vars
    PROVE  \A s \in Slot : Established(task'[s], flows')
<1>1. FlowsKept
  BY NextFlowsKept
<1>2. ASSUME NEW t \in Slot, CutShort(t)
      PROVE  \A s \in Slot : Established(task'[s], flows')
  BY <1>1, <1>2, FinishEstablished DEF CutShort
<1>3. CASE UNCHANGED task
  BY <1>1, <1>3, EstablishedStays
<1>4. QED
  BY <1>2, <1>3, UserStartsEstablished, UserContinuesEstablished,
     AdminEstablished DEF Next, Continues, IdpAuthorize, vars

-----------------------------------------------------------------------------
(* The rows. *)

RowBelongs(row, issued) ==
    row.creds # None =>
        /\ issued[row.creds.flow] = [user |-> row.user, inst |-> row.inst]
        /\ row.ext = row.creds.mailbox

LEMMA BelongsByRow ==
    CredentialsBelongToFlow <=> \A r \in Rows : RowBelongs(conns[r], flows)
BY DEF CredentialsBelongToFlow, RowBelongs

(* A row that belongs goes on doing so, with its tokens or without.        *)
LEMMA RowStays ==
    ASSUME TypeInv, CredentialInv, FlowsKept, NEW r \in Rows,
           NEW row, row.user = conns[r].user, row.inst = conns[r].inst,
           row.ext = conns[r].ext, row.creds \in {None, conns[r].creds}
    PROVE  RowBelongs(row, flows')
<1>1. conns[r] \in Connection
  BY DEF Rows, TypeInv, TypeOK
<1>2. SUFFICES ASSUME row.creds # None
               PROVE  /\ flows'[row.creds.flow] =
                             [user |-> row.user, inst |-> row.inst]
                      /\ row.ext = row.creds.mailbox
  BY DEF RowBelongs
<1>3. row.creds = conns[r].creds /\ row.creds.flow \in Flow
  BY <1>1, <1>2 DEF Connection, Code
<1>4. /\ flows[row.creds.flow] = [user |-> row.user, inst |-> row.inst]
      /\ row.ext = row.creds.mailbox
  BY <1>2, <1>3, BelongsByRow DEF CredentialInv, RowBelongs
<1>5. [user |-> row.user, inst |-> row.inst] # None
  BY <1>1, NoneAssumption DEF Connection
<1>6. QED
  BY <1>3, <1>4, <1>5 DEF FlowsKept

LEMMA DisconnectCreds ==
    ASSUME TypeInv, NEW r \in Rows, NEW w \in BOOLEAN, NEW q \in Rows,
           conns' = Disconnect(r, w)
    PROVE  conns'[q].creds \in {None, conns[q].creds}
<1>1. conns[q] \in Connection
  BY DEF Rows, TypeInv, TypeOK
<1>2. conns'[q] = IF SameId(r, q)
                  THEN [conns[q] EXCEPT !.status = "disconnected",
                            !.live = FALSE,
                            !.creds = IF w THEN None ELSE @]
                  ELSE conns[q]
  BY DEF Disconnect
<1>3. QED
  BY <1>1, <1>2 DEF Connection

LEMMA NextCredentialInv ==
    TypeInv /\ CredentialInv /\ [Next]_vars => CredentialInv'
<1> SUFFICES ASSUME TypeInv, CredentialInv, [Next]_vars
             PROVE  CredentialInv'
  OBVIOUS
<1>1. (\A s \in Slot : Established(task[s], flows))'
  BY NextEstablished
<1>2. FlowsKept
  BY NextFlowsKept
<1>3. \A r \in Rows' : RowBelongs(conns'[r], flows')
  <2>1. CASE UNCHANGED conns
    BY <1>2, <2>1, RowStays DEF Rows
  <2>2. CASE Sweeps
    <3>1. PICK w \in BOOLEAN, r \in Rows : conns' = Disconnect(r, w)
      BY <2>2 DEF Sweeps
    <3>2. QED
      BY <1>2, <3>1, DisconnectKeeps, DisconnectCreds, RowStays
  <2>3. ASSUME NEW t \in Slot, InsertRow(t)
        PROVE  \A r \in Rows' : RowBelongs(conns'[r], flows')
    <3>1. /\ Rows' = Rows \cup {Len(conns) + 1}
          /\ \A q \in Rows : conns'[q] = conns[q]
          /\ conns'[Len(conns) + 1] = NewRow(t)
      BY <2>3, InsertAppends
    <3>2. task[t].pc = "insert" /\ Established(task[t], flows')
      BY <1>2, <2>3, EstablishedStays DEF InsertRow, At
    <3>3. RowBelongs(NewRow(t), flows')
      BY <3>2 DEF RowBelongs, NewRow, Established, StateOf
    <3>4. QED
      BY <1>2, <3>1, <3>3, RowStays
  <2>4. QED
    BY <2>1, <2>2, <2>3, GrantSteps
       DEF Aside, Grants, CheckDuplicate, ReadNextSeq, dbVars
<1>4. CredentialsBelongToFlow'
  BY <1>3 DEF CredentialsBelongToFlow, RowBelongs
<1>5. QED
  BY <1>1, <1>4 DEF CredentialInv

LEMMA InitCredentialInv == Init => CredentialInv
BY DEF Init, DbInit, CredentialInv, CredentialsBelongToFlow, Established,
   Rows, Idle

(* Whatever states and codes users post to complete_grant, in whatever     *)
(* order and however often, the tokens in a row were issued in a flow its  *)
(* own user started for its own instance, to the account the row names:    *)
(* the check of the state and PKCE suffice without remembering states.     *)
THEOREM CredentialsAlwaysBelong == Spec => []CredentialsBelongToFlow
<1>1. CredentialInv => CredentialsBelongToFlow
  BY DEF CredentialInv
<1>2. QED
  BY <1>1, InitCredentialInv, NextCredentialInv, TypeCorrect, PTL DEF Spec

=============================================================================
