-------------------------- MODULE HubWarrantProofs --------------------------
(* Every interleaving of any number of users' and administrators'          *)
(* requests, cut short anywhere, implements Warrants: what one request has *)
(* earned depends on its own awaits and on nothing another can take away.  *)
EXTENDS HubGrantProofs

-----------------------------------------------------------------------------
(* What a request has earned, await by await. *)

Earnings(t) ==
    LET x == task[t]
    IN  /\ x.pc \in {"grant_siam", "complete_siam"} => Earned(x) =
              [kind |-> "admitted", user |-> x.user, inst |-> x.inst]
        /\ x.pc \in {"exchange", "dup"} => Earned(x) =
              [kind |-> "permitted", user |-> x.user, inst |-> x.inst]
        /\ x.pc \in {"seq", "insert"} => Earned(x) =
              [kind |-> "clear", user |-> x.user, inst |-> x.inst,
               ext |-> x.ext]
        /\ x.pc = "granted" => Earned(x) =
              [kind |-> "connected",
               key |-> [user |-> x.user, inst |-> x.inst, seq |-> x.seq,
                        ext |-> x.ext]]
        /\ x.pc = "update_audit" /\ x.was /\ ~x.will => Earned(x) =
              [kind |-> "order", action |-> "revoked-by-admin-disable",
               insts |-> {x.inst}]
        /\ x.pc = "cascade" => Earned(x) =
              [kind |-> "order", action |-> x.why, insts |-> {x.inst}]
        /\ x.pc = "siam_audit" => Earned(x) =
              [kind |-> "order", action |-> "revoked-by-siam-change",
               insts |-> Unmapped(x.prev, x.next)]
        /\ x.pc = "siam_cascade" => Earned(x) =
              [kind |-> "order", action |-> x.why,
               insts |-> Unmapped(x.prev, x.next)]
        /\ x.pc \in {"revoke", "wipe", "siam_wipe"} => Earned(x) =
              [kind |-> "sentence", action |-> x.why,
               keys |-> KeysOf(x.todo)]
        /\ x.pc \in LoopPc => Earned(x) =
              [kind |-> "closed", action |-> x.why, keys |-> KeysOf(x.todo),
               key |-> KeyOf(x.cur)]
        /\ x.pc \in {"idle", "mint", "update", "delete", "delete_audit",
                     "create", "create_audit", "siam_check", "siam_write",
                     "siam_readback"}
              \/ (x.pc = "update_audit" /\ ~(x.was /\ ~x.will))
              => Earned(x) = [kind |-> "nothing"]

LEMMA EarningsHold == ASSUME NEW t PROVE Earnings(t)
<1>1. PICK pc : pc = task[t].pc
  OBVIOUS
<1>2. QED
  BY <1>1 DEF Earnings, Earned, LoopPc

LEMMA EarningsHoldNext == ASSUME NEW t PROVE Earnings(t)'
BY DEF Earnings, Earned, LoopPc

-----------------------------------------------------------------------------
(* Rows keep their keys, so a step changes what its own request has earned *)
(* and nothing else.                                                       *)

RowsKept ==
    /\ Rows \subseteq Rows'
    /\ \A q \in Rows : /\ conns'[q].user = conns[q].user
                       /\ conns'[q].inst = conns[q].inst
                       /\ conns'[q].seq = conns[q].seq
                       /\ conns'[q].ext = conns[q].ext

LEMMA EarningStays ==
    ASSUME TypeInv, RowsKept, NEW s \in Slot, task'[s] = task[s]
    PROVE  Earned(task[s])' = Earned(task[s])
<1>1. /\ task[s].todo \subseteq Rows /\ task[s].pc \in Pc
      /\ task[s].pc \in LoopPc => task[s].cur \in Rows
  <2>1. task[s] \in Task /\ LocalOK(task[s], Rows)
    BY DEF TypeInv, TypeOK, LocalsOK
  <2>2. QED
    BY <2>1 DEF LocalOK, Task
<1>2. KeysOf(task[s].todo)' = KeysOf(task[s].todo)
  BY <1>1 DEF RowsKept, KeysOf, KeyOf
<1>3. task[s].pc \in LoopPc => KeyOf(task[s].cur)' = KeyOf(task[s].cur)
  BY <1>1 DEF RowsKept, KeyOf
<1>4. Earnings(s) /\ Earnings(s)'
  BY EarningsHold, EarningsHoldNext
<1>5. QED
  BY <1>1, <1>2, <1>3, <1>4
     DEF Earnings, Pc, GrantPc, LoopPc

LEMMA HoldingsMove ==
    ASSUME TypeInv, RowsKept, NEW t \in Slot, OnlyMoves(t)
    PROVE  Warranted!Earns(t, Earned(task[t])')
<1>1. \A s \in Slot \ {t} : Earned(task[s])' = Earned(task[s])
  BY EarningStays DEF OnlyMoves
<1>2. QED
  BY <1>1 DEF Holdings, Warranted!Earns

LEMMA HoldingsStay ==
    ASSUME TypeInv, RowsKept, NEW t \in Slot, OnlyMoves(t),
           Earned(task[t])' = Earned(task[t])
    PROVE  UNCHANGED Holdings
<1>1. \A s \in Slot \ {t} : Earned(task[s])' = Earned(task[s])
  BY EarningStays DEF OnlyMoves
<1>2. QED
  BY <1>1 DEF Holdings

(* A step of the handlers that Warrants sees, or does not. *)
WarrantStep ==
    \/ Warranted!WarrantsNext
    \/ UNCHANGED Warranted!warrantVars

Sees == UNCHANGED <<Fetchable, SiamResult, LiveKeys, consents>>

LEMMA SameTables ==
    ASSUME UNCHANGED <<instances, siam, conns, consents>>
    PROVE  Sees /\ RowsKept
BY DEF Sees, Fetchable, SiamResult, LiveKeys, KeysOf, KeyOf, LiveRows, Rows,
   RowsKept

(* A request that ends, or has earned nothing before and after. *)
LEMMA EndsWarrant ==
    ASSUME TypeInv, NEW t \in Slot, OnlyMoves(t),
           UNCHANGED <<instances, siam, conns, consents>>,
           Earned(task[t])' = [kind |-> "nothing"]
    PROVE  Warranted!WarrantsNext
<1>1. Warranted!Earns(t, Warranted!Nothing)
  BY SameTables, HoldingsMove DEF Warranted!Nothing
<1>2. Warranted!End(t)
  BY <1>1, SameTables DEF Warranted!End, Sees
<1>3. QED
  BY <1>2 DEF Warranted!WarrantsNext

LEMMA FinishWarrant ==
    ASSUME TypeInv, NEW t \in Slot, Finish(t),
           UNCHANGED <<instances, siam, conns, consents>>
    PROVE  Warranted!WarrantsNext
<1>1. OnlyMoves(t) /\ task'[t] = Idle
  BY DEF Finish, OnlyMoves, TypeInv, TypeOK
<1>2. task'[t].pc = "idle"
  BY <1>1 DEF Idle
<1>3. Earned(task[t])' = [kind |-> "nothing"]
  BY <1>2, EarningsHoldNext DEF Earnings
<1>4. QED
  BY <1>1, <1>3, EndsWarrant

(* A request that goes on with what it has. *)
LEMMA KeepsWarrant ==
    ASSUME TypeInv, NEW t \in Slot, OnlyMoves(t),
           UNCHANGED <<instances, siam, conns, consents>>,
           Earned(task[t])' = Earned(task[t])
    PROVE  UNCHANGED Warranted!warrantVars
BY SameTables, HoldingsStay DEF Sees, Warranted!warrantVars

-----------------------------------------------------------------------------
(* The rows a query finds and the keys Warrants sees. *)

LEMMA RevokeSentence ==
    ASSUME NEW u, NEW i
    PROVE  KeysOf(LiveOf(u, i)) = {x \in LiveKeys : x.user = u /\ x.inst = i}
BY DEF KeysOf, KeyOf, LiveOf, LiveOn, LiveKeys

LEMMA CascadeSentence ==
    ASSUME NEW i
    PROVE  KeysOf(LiveOn(i)) = {x \in LiveKeys : x.inst \in {i}}
BY DEF KeysOf, KeyOf, LiveOn, LiveKeys

LEMMA UnmappedSentence ==
    ASSUME TypeInv, NEW prev, NEW next
    PROVE  KeysOf(NoLongerAuthorized(prev, next)) =
              {x \in LiveKeys : x.inst \in Unmapped(prev, next)}
<1>1. \A r \in LiveRows : conns[r].inst \in Instance
  <2>1. \A r \in Rows : conns[r] \in Connection
    BY DEF Rows, TypeInv, TypeOK
  <2>2. QED
    BY <2>1 DEF LiveRows, Connection
<1>2. QED
  BY <1>1 DEF KeysOf, KeyOf, NoLongerAuthorized, Unmapped, LiveKeys

(* A query that found rows sentences exactly them. *)
LEMMA SentencesWarrant ==
    ASSUME TypeInv, NEW t \in Slot, OnlyMoves(t),
           UNCHANGED <<instances, siam, conns, consents>>,
           NEW action, NEW keys, keys # {},
           Earned(task[t])' =
              [kind |-> "sentence", action |-> action, keys |-> keys]
    PROVE  Warranted!Sentence(t, action, keys)
BY SameTables, HoldingsMove DEF Warranted!Sentence, Sees

LEMMA OrderedWarrant ==
    ASSUME TypeInv, NEW t \in Slot, OnlyMoves(t),
           UNCHANGED <<instances, siam, conns, consents>>,
           NEW action, NEW insts,
           Earned(task[t]) =
              [kind |-> "order", action |-> action, insts |-> insts],
           NEW rows, rows # {},
           KeysOf(rows) = {x \in LiveKeys : x.inst \in insts},
           Earned(task[t])' =
              [kind |-> "sentence", action |-> action, keys |-> KeysOf(rows)]
    PROVE  Warranted!WarrantsNext
<1>1. KeysOf(rows) # {}
  BY DEF KeysOf
<1>2. Warranted!Sentence(t, action, KeysOf(rows))
  BY <1>1, SentencesWarrant
<1>3. Warranted!SentenceOrdered(t)
  BY <1>2 DEF Warranted!SentenceOrdered, Holdings
<1>4. QED
  BY <1>3 DEF Warranted!WarrantsNext

-----------------------------------------------------------------------------
(* The two halves of a revoke loop's turn. *)

LEMMA DisconnectCloses ==
    ASSUME TypeInv, NEW r \in Rows, NEW w \in BOOLEAN,
           conns' = Disconnect(r, w)
    PROVE  /\ RowsKept
           /\ LiveKeys' = {y \in LiveKeys : ~ /\ y.user = KeyOf(r).user
                                              /\ y.inst = KeyOf(r).inst
                                              /\ y.seq = KeyOf(r).seq}
<1>1. RowsKept
  BY DisconnectKeeps DEF RowsKept
<1>2. \A q \in Rows : conns'[q].live <=> conns[q].live /\ ~SameId(r, q)
  <2>1. SUFFICES ASSUME NEW q \in Rows
                 PROVE  conns'[q].live <=> conns[q].live /\ ~SameId(r, q)
    OBVIOUS
  <2>2. CASE SameId(r, q)
    <3>1. conns[q] \in Connection
      BY DEF Rows, TypeInv, TypeOK
    <3>2. conns'[q] = [conns[q] EXCEPT !.status = "disconnected",
                           !.live = FALSE, !.creds = IF w THEN None ELSE @]
      BY <2>2 DEF Disconnect
    <3>3. conns'[q].live = FALSE
      BY <3>1, <3>2 DEF Connection
    <3>4. QED
      BY <2>2, <3>3
  <2>3. CASE ~SameId(r, q)
    BY <2>3, DisconnectKeeps
  <2>4. QED
    BY <2>2, <2>3
<1>3. LiveRows' = {q \in LiveRows : ~SameId(r, q)}
  BY <1>2, DisconnectKeeps DEF LiveRows
<1>4. \A q \in Rows : KeyOf(q)' = KeyOf(q)
  BY <1>1 DEF RowsKept, KeyOf
<1>5. LiveKeys' = {KeyOf(q) : q \in {p \in LiveRows : ~SameId(r, p)}}
  <2>1. LiveKeys' = {KeyOf(q)' : q \in LiveRows'}
    BY DEF LiveKeys, KeysOf
  <2>2. QED
    BY <1>3, <1>4, <2>1 DEF LiveRows
<1>6. \A p : SameId(r, p) <=> /\ KeyOf(p).user = KeyOf(r).user
                             /\ KeyOf(p).inst = KeyOf(r).inst
                             /\ KeyOf(p).seq = KeyOf(r).seq
  BY DEF KeyOf, SameId
<1>7. LiveKeys = {KeyOf(q) : q \in LiveRows}
  BY DEF LiveKeys, KeysOf
<1>8. QED
  BY <1>1, <1>5, <1>6, <1>7

LEMMA VisitWarrant ==
    ASSUME TypeInv, NEW t \in Slot, NEW w \in BOOLEAN, NEW pc \in LoopPc,
           task[t].pc \in {"revoke", "wipe", "siam_wipe"},
           VisitRow(t, w, pc), UNCHANGED <<instances, siam, consents>>
    PROVE  Warranted!WarrantsNext
<1>1. PICK r \in task[t].todo :
          /\ conns' = Disconnect(r, w)
          /\ task' = [task EXCEPT ![t].pc = pc, ![t].cur = r,
                                  ![t].todo = @ \ {r}]
  BY DEF VisitRow
<1>2. task[t] \in Task /\ task[t].todo \subseteq Rows /\ r \in Rows
  BY DEF TypeInv, TypeOK, LocalsOK, LocalOK
<1>3. /\ OnlyMoves(t)
      /\ task'[t].pc = pc /\ task'[t].cur = r
      /\ task'[t].todo = task[t].todo \ {r} /\ task'[t].why = task[t].why
  BY <1>1, <1>2 DEF OnlyMoves, Task, TypeInv, TypeOK
<1> DEFINE keys == KeysOf(task[t].todo)
           rest == KeysOf(task[t].todo)'
<1>4. /\ RowsKept
      /\ LiveKeys' = {y \in LiveKeys : ~ /\ y.user = KeyOf(r).user
                                         /\ y.inst = KeyOf(r).inst
                                         /\ y.seq = KeyOf(r).seq}
  BY <1>1, <1>2, DisconnectCloses
<1>5. \A q \in Rows : KeyOf(q)' = KeyOf(q)
  BY <1>4 DEF RowsKept, KeyOf
<1>6. KeyOf(r) \in keys /\ KeyOf(task[t].cur)' = KeyOf(r)
  <2>1. KeyOf(task[t].cur)' = KeyOf(r)'
    BY <1>3 DEF KeyOf
  <2>2. QED
    BY <1>2, <1>5, <2>1 DEF KeysOf
<1>7. rest \in {keys, keys \ {KeyOf(r)}}
  <2>1. rest = {KeyOf(q)' : q \in task[t].todo \ {r}}
    BY <1>3 DEF KeysOf
  <2>2. rest = {KeyOf(q) : q \in task[t].todo \ {r}}
    BY <1>2, <1>5, <2>1
  <2>3. QED
    BY <2>2 DEF KeysOf
<1>8. Earned(task[t]) = [kind |-> "sentence", action |-> task[t].why,
                         keys |-> keys]
  BY EarningsHold DEF Earnings
<1>9. Earned(task[t])' = [kind |-> "closed", action |-> task[t].why,
                          keys |-> rest, key |-> KeyOf(r)]
  BY <1>3, <1>6, EarningsHoldNext DEF Earnings
<1>10. Warranted!Earns(t, [kind |-> "closed", action |-> task[t].why,
                           keys |-> rest, key |-> KeyOf(r)])
  BY <1>3, <1>4, <1>9, HoldingsMove
<1>11. UNCHANGED <<Fetchable, SiamResult, consents>>
  BY DEF Fetchable, SiamResult
<1> HIDE DEF keys, rest
<1>12. Holdings[t] = [kind |-> "sentence", action |-> task[t].why,
                      keys |-> keys]
  BY <1>8 DEF Holdings
<1>13. Warranted!Close(t)
  <2>1. /\ Holdings[t].kind = "sentence" /\ Holdings[t].keys = keys
        /\ Holdings[t].action = task[t].why
    BY <1>12
  <2>2. PICK x \in keys : x = KeyOf(r)
    BY <1>6
  <2>3. \E last \in {keys, keys \ {x}} :
           Warranted!Earns(t, [kind |-> "closed", action |-> task[t].why,
                               keys |-> last, key |-> x])
    BY <1>7, <1>10, <2>2
  <2>4. LiveKeys' = {y \in LiveKeys : ~ /\ y.user = x.user
                                        /\ y.inst = x.inst
                                        /\ y.seq = x.seq}
    BY <1>4, <2>2
  <2>5. QED
    BY <1>11, <2>1, <2>3, <2>4 DEF Warranted!Close
<1>14. QED
  BY <1>13 DEF Warranted!WarrantsNext

(* The event names the row and the reason of the loop that disconnected    *)
(* it; then the loop goes on or is done.                                   *)
LEMMA EventWarrant ==
    ASSUME TypeInv, NEW t \in Slot, OnlyMoves(t), task[t].pc \in LoopPc,
           RecordRevocation(t), UNCHANGED <<instances, siam, conns>>,
           \/ Earned(task[t])' = [kind |-> "nothing"]
           \/ Earned(task[t])' = [kind |-> "sentence",
                                  action |-> task[t].why,
                                  keys |-> KeysOf(task[t].todo)]
    PROVE  Warranted!WarrantsNext
<1>1. Holdings[t] = [kind |-> "closed", action |-> task[t].why,
                     keys |-> KeysOf(task[t].todo),
                     key |-> KeyOf(task[t].cur)]
  BY EarningsHold DEF Earnings, Holdings
<1>2. RowsKept /\ UNCHANGED <<Fetchable, SiamResult, LiveKeys>>
  BY DEF RowsKept, Rows, Fetchable, SiamResult, LiveKeys, KeysOf, KeyOf,
     LiveRows
<1>3. Warranted!Earns(t, Earned(task[t])')
  BY <1>2, HoldingsMove
<1>4. consents' = consents \cup Warranted!EntriesOf(KeyOf(task[t].cur),
                                                    task[t].why)
  BY DEF RecordRevocation, EventFor, KeyOf, Warranted!EntriesOf
<1>5. Warranted!LogClose(t)
  BY <1>1, <1>2, <1>3, <1>4 DEF Warranted!LogClose, Warranted!Nothing
<1>6. QED
  BY <1>5 DEF Warranted!WarrantsNext

LEMMA GotoWarrant ==
    ASSUME TypeInv, NEW t \in Slot, NEW pc, Goto(t, pc)
    PROVE  /\ OnlyMoves(t)
           /\ task'[t].pc = pc
           /\ task'[t].user = task[t].user /\ task'[t].inst = task[t].inst
           /\ task'[t].ext = task[t].ext /\ task'[t].seq = task[t].seq
           /\ task'[t].todo = task[t].todo /\ task'[t].why = task[t].why
           /\ task'[t].was = task[t].was /\ task'[t].will = task[t].will
           /\ task'[t].prev = task[t].prev /\ task'[t].next = task[t].next
BY DEF Goto, OnlyMoves, Task, TypeInv, TypeOK

LEMMA TurnWarrant ==
    ASSUME TypeInv, NEW t \in Slot, task[t].pc \in LoopPc,
           RecordRevocation(t), UNCHANGED <<instances, siam, conns>>,
           Finish(t) \/ \E pc \in {"revoke", "wipe", "siam_wipe", "delete"} :
                           Goto(t, pc)
    PROVE  Warranted!WarrantsNext
<1>1. CASE Finish(t)
  <2>1. OnlyMoves(t) /\ task'[t] = Idle
    BY <1>1 DEF Finish, OnlyMoves, TypeInv, TypeOK
  <2>2. task'[t].pc = "idle"
    BY <2>1 DEF Idle
  <2>3. Earned(task[t])' = [kind |-> "nothing"]
    BY <2>2, EarningsHoldNext DEF Earnings
  <2>4. QED
    BY <2>1, <2>3, EventWarrant
<1>2. CASE Goto(t, "delete")
  <2>1. OnlyMoves(t) /\ task'[t].pc = "delete"
    BY <1>2, GotoWarrant
  <2>2. Earned(task[t])' = [kind |-> "nothing"]
    BY <2>1, EarningsHoldNext DEF Earnings
  <2>3. QED
    BY <2>1, <2>2, EventWarrant
<1>3. ASSUME NEW pc \in {"revoke", "wipe", "siam_wipe"}, Goto(t, pc)
      PROVE  Warranted!WarrantsNext
  <2>1. /\ OnlyMoves(t) /\ task'[t].pc \in {"revoke", "wipe", "siam_wipe"}
        /\ task'[t].todo = task[t].todo /\ task'[t].why = task[t].why
    BY <1>3, GotoWarrant
  <2>2. Earned(task[t])' = [kind |-> "sentence", action |-> task[t].why,
                            keys |-> KeysOf(task[t].todo)']
    BY <2>1, EarningsHoldNext DEF Earnings
  <2>3. KeysOf(task[t].todo)' = KeysOf(task[t].todo)
    BY <2>1 DEF KeysOf, KeyOf
  <2>4. QED
    BY <2>1, <2>2, <2>3, EventWarrant
<1>4. QED
  BY <1>1, <1>2, <1>3

-----------------------------------------------------------------------------
(* User requests. *)

LEMMA GrantStartsWarrant ==
    ASSUME TypeInv, NEW t \in Slot, NEW u \in User, NEW i \in Instance,
           task[t].pc = "idle", TRUE \in instances[i], OnlyMoves(t),
           UNCHANGED <<instances, siam, conns, consents>>,
           task'[t].pc \in {"grant_siam", "complete_siam"},
           task'[t].user = u, task'[t].inst = i
    PROVE  Warranted!WarrantsNext
<1>1. Earned(task[t])' = [kind |-> "admitted", user |-> u, inst |-> i]
  BY EarningsHoldNext DEF Earnings
<1>2. Holdings[t] = Warranted!Nothing
  BY EarningsHold DEF Earnings, Holdings, Warranted!Nothing
<1>3. Warranted!Earns(t, [kind |-> "admitted", user |-> u, inst |-> i])
  BY <1>1, SameTables, HoldingsMove
<1>4. Warranted!Admit(t, u, i)
  BY <1>2, <1>3, SameTables DEF Warranted!Admit, Sees, Fetchable
<1>5. QED
  BY <1>4 DEF Warranted!WarrantsNext

LEMMA UserStartsWarrant ==
    ASSUME TypeInv, NEW t \in Slot, UserStarts(t)
    PROVE  Warranted!WarrantsNext
<1> USE DEF TypeInv, TypeOK
<1>1. PICK u \in User, i \in Instance :
          \/ GrantFetch(t, u, i)
          \/ InitiateFetch(t, u, i)
          \/ \E f \in Flow, c \in Code : CompleteFetch(t, u, i, f, c)
          \/ RevokeQuery(t, u, i)
  BY DEF UserStarts
<1>2. task[t].pc = "idle" /\ UNCHANGED <<instances, siam, conns, consents>>
  BY <1>1 DEF GrantFetch, InitiateFetch, CompleteFetch, RevokeQuery,
     Arrives, At, dbVars
<1>3. CASE GrantFetch(t, u, i)
  <2>1. /\ OnlyMoves(t) /\ TRUE \in instances[i]
        /\ task'[t].pc = "grant_siam"
        /\ task'[t].user = u /\ task'[t].inst = i
    BY <1>3, IdleType DEF GrantFetch, OnlyMoves, Task
  <2>2. QED
    BY <1>2, <2>1, GrantStartsWarrant
<1>4. CASE \E f \in Flow, c \in Code : CompleteFetch(t, u, i, f, c)
  <2>1. /\ OnlyMoves(t) /\ TRUE \in instances[i]
        /\ task'[t].pc = "complete_siam"
        /\ task'[t].user = u /\ task'[t].inst = i
    BY <1>4, IdleType DEF CompleteFetch, OnlyMoves, Task
  <2>2. QED
    BY <1>2, <2>1, GrantStartsWarrant
<1>5. CASE InitiateFetch(t, u, i)
  <2>1. OnlyMoves(t) /\ task'[t].pc = "mint"
    BY <1>5, IdleType DEF InitiateFetch, OnlyMoves, Task
  <2>2. Earned(task[t])' = [kind |-> "nothing"]
    BY <2>1, EarningsHoldNext DEF Earnings
  <2>3. QED
    BY <1>2, <2>1, <2>2, EndsWarrant
<1>6. CASE RevokeQuery(t, u, i)
  <2>1. /\ OnlyMoves(t) /\ task'[t].pc = "revoke"
        /\ task'[t].todo = LiveOf(u, i) /\ task'[t].why = "revoked"
        /\ LiveOf(u, i) # {}
    BY <1>6, IdleType DEF RevokeQuery, OnlyMoves, Task, Idle
  <2>2. KeysOf(task[t].todo)' = KeysOf(LiveOf(u, i))
    BY <1>2, <2>1 DEF KeysOf, KeyOf
  <2>3. Earned(task[t])' = [kind |-> "sentence", action |-> "revoked",
                            keys |-> KeysOf(LiveOf(u, i))]
    BY <2>1, <2>2, EarningsHoldNext DEF Earnings
  <2>4. KeysOf(LiveOf(u, i)) # {}
    BY <2>1 DEF KeysOf
  <2>5. Warranted!Sentence(t, "revoked", KeysOf(LiveOf(u, i)))
    BY <1>2, <2>1, <2>3, <2>4, SentencesWarrant
  <2>6. Holdings[t] = Warranted!Nothing
    BY <1>2, EarningsHold DEF Earnings, Holdings, Warranted!Nothing
  <2>7. Warranted!SentenceOwn(t, u, i)
    BY <2>5, <2>6, RevokeSentence DEF Warranted!SentenceOwn
  <2>8. QED
    BY <2>7 DEF Warranted!WarrantsNext
<1>7. QED
  BY <1>1, <1>3, <1>4, <1>5, <1>6

(* Gate 2. *)
LEMMA GateWarrant ==
    ASSUME TypeInv, NEW t \in Slot,
           task[t].pc \in {"grant_siam", "complete_siam"},
           UNCHANGED <<instances, siam, conns, consents>>,
           NEW m \in SiamResult,
           Authorizes(m, task[t].user, task[t].inst),
           NEW pc \in {"exchange", "dup"}, Goto(t, pc)
    PROVE  Warranted!WarrantsNext
<1>1. /\ OnlyMoves(t) /\ task'[t].pc \in {"exchange", "dup"}
      /\ task'[t].user = task[t].user /\ task'[t].inst = task[t].inst
  BY GotoWarrant
<1>2. Holdings[t] = [kind |-> "admitted", user |-> task[t].user,
                     inst |-> task[t].inst]
  BY EarningsHold DEF Earnings, Holdings
<1>3. Earned(task[t])' = [kind |-> "permitted", user |-> task[t].user,
                          inst |-> task[t].inst]
  BY <1>1, EarningsHoldNext DEF Earnings
<1>4. Warranted!Earns(t, [kind |-> "permitted", user |-> task[t].user,
                          inst |-> task[t].inst])
  BY <1>1, <1>3, SameTables, HoldingsMove
<1>5. Warranted!Permit(t)
  BY <1>2, <1>4, SameTables DEF Warranted!Permit, Sees, Authorizes
<1>6. QED
  BY <1>5 DEF Warranted!WarrantsNext

LEMMA CheckWarrant ==
    ASSUME TypeInv, NEW t \in Slot, CheckDuplicate(t)
    PROVE  Warranted!WarrantsNext
<1>1. /\ task[t].pc = "dup"
      /\ UNCHANGED <<instances, siam, conns, consents>>
      /\ Finish(t) \/ (~HasDuplicate(t) /\ Goto(t, "seq"))
  BY DEF CheckDuplicate, At, dbVars
<1>2. CASE ~HasDuplicate(t) /\ Goto(t, "seq")
  <2>1. /\ OnlyMoves(t) /\ task'[t].pc = "seq"
        /\ task'[t].user = task[t].user /\ task'[t].inst = task[t].inst
        /\ task'[t].ext = task[t].ext /\ task[t].ext \in Ext
    BY <1>2, GotoWarrant DEF TypeInv, TypeOK, Task
  <2>2. Holdings[t] = [kind |-> "permitted", user |-> task[t].user,
                       inst |-> task[t].inst]
    BY <1>1, EarningsHold DEF Earnings, Holdings
  <2>3. Earned(task[t])' = [kind |-> "clear", user |-> task[t].user,
                            inst |-> task[t].inst, ext |-> task[t].ext]
    BY <2>1, EarningsHoldNext DEF Earnings
  <2>4. Warranted!Earns(t, [kind |-> "clear", user |-> task[t].user,
                            inst |-> task[t].inst, ext |-> task[t].ext])
    BY <1>1, <2>1, <2>3, SameTables, HoldingsMove
  <2>5. \A x \in LiveKeys : ~ /\ x.user = task[t].user
                              /\ x.inst = task[t].inst
                              /\ x.ext = task[t].ext
    BY <1>2 DEF HasDuplicate, LiveOf, LiveOn, LiveKeys, KeysOf, KeyOf
  <2>6. Warranted!Clear(t, task[t].ext)
    BY <1>1, <2>2, <2>4, <2>5, SameTables DEF Warranted!Clear, Sees
  <2>7. QED
    BY <2>1, <2>6 DEF Warranted!WarrantsNext
<1>3. QED
  BY <1>1, <1>2, FinishWarrant

LEMMA InsertWarrant ==
    ASSUME TypeInv, NEW t \in Slot, InsertRow(t)
    PROVE  Warranted!WarrantsNext
<1> DEFINE new == Len(conns) + 1
           key == [user |-> task[t].user, inst |-> task[t].inst,
                   seq |-> task[t].seq, ext |-> task[t].ext]
<1>1. /\ Rows' = Rows \cup {new} /\ new \notin Rows
      /\ \A q \in Rows : conns'[q] = conns[q]
      /\ conns'[new] = NewRow(t)
  BY InsertAppends
<1>2. /\ task[t].pc = "insert" /\ OnlyMoves(t) /\ task'[t].pc = "granted"
      /\ task'[t].user = task[t].user /\ task'[t].inst = task[t].inst
      /\ task'[t].ext = task[t].ext /\ task'[t].seq = task[t].seq
      /\ UNCHANGED <<instances, siam, consents>>
  BY GotoWarrant DEF InsertRow, At
<1>3. RowsKept
  BY <1>1 DEF RowsKept
<1>4. NewRow(t).live = TRUE
      /\ [user |-> NewRow(t).user, inst |-> NewRow(t).inst,
          seq |-> NewRow(t).seq, ext |-> NewRow(t).ext] = key
  BY DEF NewRow
<1> HIDE DEF new
<1>5. LiveRows' = LiveRows \cup {new}
  BY <1>1, <1>4 DEF LiveRows
<1>6. /\ \A q \in LiveRows : conns'[q] = conns[q]
      /\ conns'[new].user = key.user /\ conns'[new].inst = key.inst
      /\ conns'[new].seq = key.seq /\ conns'[new].ext = key.ext
  BY <1>1, <1>4 DEF LiveRows
<1>7. LiveKeys' = LiveKeys \cup {key}
  BY <1>5, <1>6 DEF LiveKeys, KeysOf, KeyOf
<1>8. Earned(task[t])' = [kind |-> "connected", key |-> key]
  BY <1>2, EarningsHoldNext DEF Earnings
<1>9. Warranted!Earns(t, [kind |-> "connected", key |-> key])
  BY <1>2, <1>3, <1>8, HoldingsMove
<1>10. Holdings[t] = [kind |-> "clear", user |-> task[t].user,
                      inst |-> task[t].inst, ext |-> task[t].ext]
  BY <1>2, EarningsHold DEF Earnings, Holdings
<1>11. key \in LiveKeys' /\ UNCHANGED <<Fetchable, SiamResult>>
  BY <1>2, <1>7 DEF Fetchable, SiamResult
<1>12. /\ key.user = Holdings[t].user /\ key.inst = Holdings[t].inst
       /\ key.ext = Holdings[t].ext /\ Holdings[t].kind = "clear"
  BY <1>10
<1> HIDE DEF key
<1>13. Warranted!Connect(t)
  BY <1>2, <1>7, <1>9, <1>11, <1>12 DEF Warranted!Connect
<1>14. QED
  BY <1>13 DEF Warranted!WarrantsNext

LEMMA GrantedWarrant ==
    ASSUME TypeInv, NEW t \in Slot, RecordGranted(t)
    PROVE  Warranted!WarrantsNext
<1> DEFINE key == [user |-> task[t].user, inst |-> task[t].inst,
                   seq |-> task[t].seq, ext |-> task[t].ext]
<1>1. /\ task[t].pc = "granted" /\ Finish(t)
      /\ UNCHANGED <<instances, siam, conns>>
      /\ consents' = consents \cup Warranted!EntriesOf(key, "granted")
  BY DEF RecordGranted, At, Warranted!EntriesOf
<1>2. /\ OnlyMoves(t) /\ task'[t].pc = "idle"
  BY <1>1, IdleType DEF Finish, OnlyMoves, Idle, TypeInv, TypeOK
<1>3. RowsKept /\ UNCHANGED <<Fetchable, SiamResult, LiveKeys>>
  BY <1>1 DEF RowsKept, Rows, Fetchable, SiamResult, LiveKeys, KeysOf, KeyOf,
     LiveRows
<1>4. Earned(task[t])' = Warranted!Nothing
  BY <1>2, EarningsHoldNext DEF Earnings, Warranted!Nothing
<1>5. Warranted!Earns(t, Warranted!Nothing)
  BY <1>2, <1>3, <1>4, HoldingsMove
<1>6. Holdings[t] = [kind |-> "connected", key |-> key]
  BY <1>1, EarningsHold DEF Earnings, Holdings
<1>7. Warranted!LogConnect(t)
  BY <1>1, <1>3, <1>5, <1>6 DEF Warranted!LogConnect
<1>8. QED
  BY <1>7 DEF Warranted!WarrantsNext

LEMMA UserContinuesWarrant ==
    ASSUME TypeInv, NEW t \in Slot, UserContinues(t)
    PROVE  WarrantStep
<1> USE DEF WarrantStep
<1>1. CASE GrantGate(t) \/ CompleteGate(t)
  <2>1. /\ UNCHANGED <<instances, siam, conns, consents>>
        /\ task[t].pc \in {"grant_siam", "complete_siam"}
        /\ \/ Finish(t)
           \/ \E m \in SiamResult, pc \in {"exchange", "dup"} :
                 Authorizes(m, task[t].user, task[t].inst) /\ Goto(t, pc)
    BY <1>1 DEF GrantGate, CompleteGate, At, dbVars
  <2>2. QED
    BY <2>1, FinishWarrant, GateWarrant
<1>2. CASE CheckDuplicate(t)
  BY <1>2, CheckWarrant
<1>3. CASE ReadNextSeq(t)
  <2>1. /\ task[t].pc = "seq" /\ OnlyMoves(t) /\ task'[t].pc = "insert"
        /\ task'[t].user = task[t].user /\ task'[t].inst = task[t].inst
        /\ task'[t].ext = task[t].ext
        /\ UNCHANGED <<instances, siam, conns, consents>>
    BY <1>3 DEF ReadNextSeq, At, OnlyMoves, Task, TypeInv, TypeOK, dbVars
  <2>2. Earned(task[t]) = [kind |-> "clear", user |-> task[t].user,
                           inst |-> task[t].inst, ext |-> task[t].ext]
    BY <2>1, EarningsHold DEF Earnings
  <2>3. Earned(task[t])' = [kind |-> "clear", user |-> task[t].user,
                            inst |-> task[t].inst, ext |-> task[t].ext]
    BY <2>1, EarningsHoldNext DEF Earnings
  <2>4. QED
    BY <2>1, <2>2, <2>3, KeepsWarrant
<1>4. CASE InsertRow(t)
  BY <1>4, InsertWarrant
<1>5. CASE RecordGranted(t)
  BY <1>5, GrantedWarrant
<1>6. CASE MintState(t)
  BY <1>6, FinishWarrant DEF MintState, dbVars
<1>7. CASE Exchange(t) /\ ~Finish(t)
  <2>1. /\ task[t].pc = "exchange"
        /\ UNCHANGED <<instances, siam, conns, consents>>
        /\ task' = [task EXCEPT ![t].pc = "dup",
                                ![t].ext = task[t].code.mailbox]
    BY <1>7 DEF Exchange, At, dbVars
  <2>2. /\ OnlyMoves(t) /\ task'[t].pc = "dup"
        /\ task'[t].user = task[t].user /\ task'[t].inst = task[t].inst
    BY <2>1 DEF OnlyMoves, Task, TypeInv, TypeOK
  <2>3. Earned(task[t]) = [kind |-> "permitted", user |-> task[t].user,
                           inst |-> task[t].inst]
    BY <2>1, EarningsHold DEF Earnings
  <2>4. Earned(task[t])' = [kind |-> "permitted", user |-> task[t].user,
                            inst |-> task[t].inst]
    BY <2>2, EarningsHoldNext DEF Earnings
  <2>5. QED
    BY <2>1, <2>2, <2>3, <2>4, KeepsWarrant
<1>8. CASE Exchange(t) /\ Finish(t)
  BY <1>8, FinishWarrant DEF Exchange, dbVars
<1>9. CASE RevokeRow(t)
  BY <1>9, VisitWarrant DEF RevokeRow, At, LoopPc
<1>10. CASE RevokeEvent(t)
  BY <1>10, TurnWarrant DEF RevokeEvent, At, LoopPc
<1>11. QED
  BY <1>1, <1>2, <1>3, <1>4, <1>5, <1>6, <1>7, <1>8, <1>9, <1>10
     DEF UserContinues


-----------------------------------------------------------------------------
(* Administrators' requests. *)

LEMMA AdminStartsWarrant ==
    ASSUME TypeInv, NEW t \in Slot, AdminStarts(t)
    PROVE  Warranted!WarrantsNext
<1>1. /\ task[t].pc = "idle" /\ UNCHANGED <<instances, siam, conns, consents>>
      /\ Holdings[t] = Warranted!Nothing
  <2>1. task[t].pc = "idle" /\ UNCHANGED <<instances, siam, conns, consents>>
    BY DEF AdminStarts, CreateCheck, UpdateRead, DeleteRead, SiamRead,
       AdminArrives, At, dbVars
  <2>2. QED
    BY <2>1, EarningsHold DEF Earnings, Holdings, Warranted!Nothing
<1>2. ASSUME NEW i \in Instance, DeleteRead(t, i)
      PROVE  Warranted!WarrantsNext
  <2>1. /\ OnlyMoves(t) /\ task'[t].pc = "cascade" /\ task'[t].inst = i
        /\ task'[t].why = "revoked-by-admin-delete"
    BY <1>2, IdleType DEF DeleteRead, OnlyMoves, Task, TypeInv, TypeOK
  <2>2. Earned(task[t])' = [kind |-> "order", insts |-> {i},
                            action |-> "revoked-by-admin-delete"]
    BY <2>1, EarningsHoldNext DEF Earnings
  <2>3. Warranted!Earns(t, [kind |-> "order", insts |-> {i},
                            action |-> "revoked-by-admin-delete"])
    BY <1>1, <2>1, <2>2, SameTables, HoldingsMove
  <2>4. Warranted!OrderDelete(t, i)
    BY <1>1, <2>3, SameTables DEF Warranted!OrderDelete, Warranted!Order, Sees
  <2>5. QED
    BY <2>4 DEF Warranted!WarrantsNext
<1>3. CASE /\ OnlyMoves(t)
           /\ task'[t].pc \in {"create", "update", "siam_check"}
  <2>1. Earned(task[t])' = [kind |-> "nothing"]
    BY <1>3, EarningsHoldNext DEF Earnings
  <2>2. QED
    BY <1>1, <1>3, <2>1, EndsWarrant
<1>4. ASSUME NEW i \in Instance, NEW enabled \in BOOLEAN,
             CreateCheck(t, i, enabled)
      PROVE  OnlyMoves(t) /\ task'[t].pc = "create"
  BY <1>4, IdleType DEF CreateCheck, OnlyMoves, Task, TypeInv, TypeOK
<1>5. ASSUME NEW i \in Instance, NEW wanted, UpdateRead(t, i, wanted)
      PROVE  OnlyMoves(t) /\ task'[t].pc = "update"
  BY <1>5, IdleType DEF UpdateRead, OnlyMoves, Task, TypeInv, TypeOK
<1>6. ASSUME NEW m \in Mapping, SiamRead(t, m)
      PROVE  OnlyMoves(t) /\ task'[t].pc = "siam_check"
  BY <1>6, IdleType DEF SiamRead, OnlyMoves, Task, TypeInv, TypeOK
<1>7. QED
  BY <1>2, <1>3, <1>4, <1>5, <1>6 DEF AdminStarts

(* A write of one of the gates by a request that has earned nothing. *)
LEMMA MovesWarrant ==
    ASSUME TypeInv, NEW t \in Slot, OnlyMoves(t), UNCHANGED <<conns, consents>>,
           Earned(task[t]) = [kind |-> "nothing"],
           Earned(task[t])' = [kind |-> "nothing"],
           \/ /\ \/ UNCHANGED Fetchable
                 \/ \E i \in Instance : \/ Fetchable' = Fetchable \cup {i}
                                        \/ Fetchable' = Fetchable \ {i}
              /\ UNCHANGED SiamResult
           \/ /\ \E m \in Mapping : \/ SiamResult' = {m}
                                    \/ SiamResult' = SiamResult \cup {m}
              /\ UNCHANGED Fetchable
    PROVE  WarrantStep
<1>1. RowsKept /\ UNCHANGED LiveKeys
  BY DEF RowsKept, Rows, LiveKeys, KeysOf, KeyOf, LiveRows
<1>2. UNCHANGED Holdings
  BY <1>1, HoldingsStay
<1>3. CASE UNCHANGED <<Fetchable, SiamResult>>
  BY <1>1, <1>2, <1>3 DEF WarrantStep, Warranted!warrantVars
<1>4. CASE ~UNCHANGED <<Fetchable, SiamResult>>
  <2>1. Warranted!MoveGates
    BY <1>1, <1>2, <1>4 DEF Warranted!MoveGates, Mapping
  <2>2. QED
    BY <2>1 DEF WarrantStep, Warranted!WarrantsNext
<1>5. QED
  BY <1>3, <1>4

LEMMA InstancesMove ==
    ASSUME TypeInv, NEW i \in Instance, NEW flags \in SUBSET BOOLEAN,
           instances' = [instances EXCEPT ![i] = flags]
    PROVE  /\ TRUE \in flags => Fetchable' = Fetchable \cup {i}
           /\ TRUE \notin flags => Fetchable' = Fetchable \ {i}
BY DEF Fetchable, TypeInv, TypeOK

LEMMA InstanceStepsWarrant ==
    ASSUME TypeInv, NEW t \in Slot,
           CreateInsert(t) \/ UpdateWrite(t) \/ DeleteRow(t)
    PROVE  WarrantStep
<1> DEFINE i == task[t].inst
<1>1. /\ task[t] \in Task /\ LocalOK(task[t], Rows)
      /\ task[t].pc \in {"create", "update", "delete"}
  BY DEF TypeInv, TypeOK, LocalsOK, CreateInsert, UpdateWrite, DeleteRow, At
<1>2. /\ i \in Instance /\ task[t].will \in BOOLEAN /\ task[t].was \in BOOLEAN
      /\ instances[i] \in SUBSET BOOLEAN
  <2>1. i \in Instance
    BY <1>1 DEF LocalOK, AdminPath
  <2>2. QED
    BY <1>1, <2>1 DEF Task, TypeInv, TypeOK
<1>3. /\ UNCHANGED <<siam, conns, consents>>
      /\ \E pc \in {"create_audit", "update_audit", "delete_audit"} :
            Goto(t, pc)
  BY DEF CreateInsert, UpdateWrite, DeleteRow
<1>4. /\ OnlyMoves(t)
      /\ task'[t].pc \in {"create_audit", "update_audit", "delete_audit"}
      /\ task'[t].was = task[t].was /\ task'[t].will = task[t].will
      /\ task'[t].inst = i
  BY <1>3, GotoWarrant
<1>5. UNCHANGED SiamResult
  BY <1>3 DEF SiamResult
<1>6. Earned(task[t]) = [kind |-> "nothing"]
  BY <1>1, EarningsHold DEF Earnings
<1>7. PICK flags \in SUBSET BOOLEAN :
          /\ instances' = [instances EXCEPT ![i] = flags]
          /\ UpdateWrite(t) => flags = IF instances[i] = {} THEN {}
                                                     ELSE {task[t].will}
  <2>1. CASE CreateInsert(t)
    <3>1. instances' = [instances EXCEPT ![i] =
                                     instances[i] \cup {task[t].will}]
      BY <2>1 DEF CreateInsert
    <3>2. ~UpdateWrite(t)
      BY <2>1 DEF CreateInsert, UpdateWrite, At
    <3>3. instances[i] \cup {task[t].will} \in SUBSET BOOLEAN
      BY <1>2
    <3> HIDE DEF i
    <3>4. QED
      BY <3>1, <3>2, <3>3, Zenon
  <2>2. CASE UpdateWrite(t)
    BY <1>2, <2>2 DEF UpdateWrite
  <2>3. CASE DeleteRow(t)
    <3>1. instances' = [instances EXCEPT ![i] = {}]
      BY <2>3 DEF DeleteRow
    <3>2. ~UpdateWrite(t)
      BY <2>3 DEF DeleteRow, UpdateWrite, At
    <3>3. {} \in SUBSET BOOLEAN
      OBVIOUS
    <3> HIDE DEF i
    <3>4. QED
      BY <3>1, <3>2, <3>3, Zenon
  <2>4. QED
    BY <2>1, <2>2, <2>3
<1>8. \/ Fetchable' = Fetchable \cup {i}
      \/ Fetchable' = Fetchable \ {i}
  BY <1>2, <1>7, InstancesMove
<1>9. CASE UpdateWrite(t) /\ task[t].was /\ ~task[t].will
  <2>1. task'[t].pc = "update_audit"
    BY <1>9, GotoWarrant DEF UpdateWrite
  <2>2. Earned(task[t])' = [kind |-> "order", insts |-> {i},
                            action |-> "revoked-by-admin-disable"]
    BY <1>4, <1>9, <2>1, EarningsHoldNext DEF Earnings
  <2>3. Fetchable' = Fetchable \ {i}
    BY <1>2, <1>7, <1>9, InstancesMove
  <2>4. RowsKept /\ UNCHANGED LiveKeys
    BY <1>3 DEF RowsKept, Rows, LiveKeys, KeysOf, KeyOf, LiveRows
  <2>5. Warranted!Earns(t, [kind |-> "order", insts |-> {i},
                            action |-> "revoked-by-admin-disable"])
    BY <1>4, <2>2, <2>4, HoldingsMove
  <2>6. Holdings[t] = Warranted!Nothing
    BY <1>6 DEF Holdings, Warranted!Nothing
  <2>7. Warranted!OrderDisable(t, i)
    BY <1>3, <1>5, <2>3, <2>4, <2>5, <2>6
       DEF Warranted!OrderDisable, Warranted!Order
  <2>8. QED
    BY <1>2, <2>7 DEF WarrantStep, Warranted!WarrantsNext
<1>10. CASE ~(UpdateWrite(t) /\ task[t].was /\ ~task[t].will)
  <2>1. task'[t].pc = "update_audit" => ~(task[t].was /\ ~task[t].will)
    <3>1. CASE UpdateWrite(t)
      BY <1>10, <3>1
    <3>2. CASE CreateInsert(t)
      <4>1. task'[t].pc = "create_audit"
        BY <3>2, GotoWarrant DEF CreateInsert
      <4>2. QED
        BY <4>1
    <3>3. CASE DeleteRow(t)
      <4>1. task'[t].pc = "delete_audit"
        BY <3>3, GotoWarrant DEF DeleteRow
      <4>2. QED
        BY <4>1
    <3>4. QED
      BY <3>1, <3>2, <3>3
  <2>2. Earned(task[t])' = [kind |-> "nothing"]
    BY <1>4, <2>1, EarningsHoldNext DEF Earnings
  <2>3. QED
    BY <1>2, <1>3, <1>4, <1>5, <1>6, <1>8, <2>2, MovesWarrant
<1>11. QED
  BY <1>9, <1>10


LEMMA GoesToNothing ==
    ASSUME TypeInv, NEW t \in Slot,
           UNCHANGED <<instances, siam, conns, consents>>,
           Finish(t) \/ Goto(t, "delete")
    PROVE  Warranted!WarrantsNext
<1>1. CASE Goto(t, "delete")
  <2>1. OnlyMoves(t) /\ task'[t].pc = "delete"
    BY <1>1, GotoWarrant
  <2>2. Earned(task[t])' = [kind |-> "nothing"]
    BY <2>1, EarningsHoldNext DEF Earnings
  <2>3. QED
    BY <2>1, <2>2, EndsWarrant
<1>2. QED
  BY <1>1, FinishWarrant

(* Either cascade's query: the order becomes a sentence on what it found. *)
LEMMA QueryWarrant ==
    ASSUME TypeInv, NEW t \in Slot,
           UNCHANGED <<instances, siam, conns, consents>>,
           NEW insts, NEW rows, rows # {},
           Earned(task[t]) = [kind |-> "order", action |-> task[t].why,
                              insts |-> insts],
           KeysOf(rows) = {x \in LiveKeys : x.inst \in insts},
           \/ task' = [task EXCEPT ![t].pc = "wipe", ![t].todo = rows]
           \/ task' = [task EXCEPT ![t].pc = "siam_wipe", ![t].todo = rows]
    PROVE  Warranted!WarrantsNext
<1>1. /\ OnlyMoves(t) /\ task'[t].pc \in {"wipe", "siam_wipe"}
      /\ task'[t].todo = rows /\ task'[t].why = task[t].why
  BY DEF OnlyMoves, Task, TypeInv, TypeOK
<1>2. KeysOf(task[t].todo)' = KeysOf(rows)
  BY <1>1 DEF KeysOf, KeyOf
<1>3. Earned(task[t])' = [kind |-> "sentence", action |-> task[t].why,
                          keys |-> KeysOf(rows)]
  BY <1>1, <1>2, EarningsHoldNext DEF Earnings
<1>4. QED
  BY <1>1, <1>3, OrderedWarrant

LEMMA CascadeWarrant ==
    ASSUME TypeInv, NEW t \in Slot,
           \/ UpdateAudit(t) \/ CascadeQuery(t) \/ CascadeRow(t)
           \/ CascadeEvent(t)
    PROVE  WarrantStep
<1> USE DEF WarrantStep
<1>1. CASE UpdateAudit(t) /\ Cascades(t)
  <2>1. /\ task[t].pc = "update_audit" /\ task[t].was /\ ~task[t].will
        /\ UNCHANGED <<instances, siam, conns, consents>>
        /\ task' = [task EXCEPT ![t].pc = "cascade",
                                ![t].why = "revoked-by-admin-disable"]
           \/ Finish(t)
    BY <1>1 DEF UpdateAudit, Cascades, At
  <2>2. CASE ~Finish(t)
    <3>1. /\ OnlyMoves(t) /\ task'[t].pc = "cascade"
          /\ task'[t].why = "revoked-by-admin-disable"
          /\ task'[t].inst = task[t].inst
      BY <2>1, <2>2 DEF OnlyMoves, Task, TypeInv, TypeOK
    <3>2. Earned(task[t]) = [kind |-> "order", insts |-> {task[t].inst},
                             action |-> "revoked-by-admin-disable"]
      BY <2>1, EarningsHold DEF Earnings
    <3>3. Earned(task[t])' = [kind |-> "order", insts |-> {task[t].inst},
                              action |-> "revoked-by-admin-disable"]
      BY <3>1, EarningsHoldNext DEF Earnings
    <3>4. QED
      BY <2>1, <3>1, <3>2, <3>3, KeepsWarrant
  <2>3. QED
    BY <2>1, <2>2, FinishWarrant
<1>2. CASE UpdateAudit(t) /\ ~Cascades(t)
  BY <1>2, FinishWarrant DEF UpdateAudit
<1>3. CASE CascadeQuery(t)
  <2> DEFINE rows == LiveOn(task[t].inst)
             insts == {task[t].inst}
  <2>1. /\ task[t].pc = "cascade"
        /\ UNCHANGED <<instances, siam, conns, consents>>
        /\ \/ Finish(t) \/ Goto(t, "delete")
           \/ /\ rows # {}
              /\ task' = [task EXCEPT ![t].pc = "wipe", ![t].todo = rows]
    BY <1>3 DEF CascadeQuery, AfterCascade, At, dbVars
  <2>2. CASE Finish(t) \/ Goto(t, "delete")
    BY <2>1, <2>2, GoesToNothing
  <2>3. CASE ~(Finish(t) \/ Goto(t, "delete"))
    <3>1. Earned(task[t]) = [kind |-> "order", action |-> task[t].why,
                             insts |-> insts]
      BY <2>1, EarningsHold DEF Earnings
    <3>2. KeysOf(rows) = {x \in LiveKeys : x.inst \in insts}
      BY CascadeSentence
    <3>3. /\ rows # {}
          /\ task' = [task EXCEPT ![t].pc = "wipe", ![t].todo = rows]
      BY <2>1, <2>3
    <3> HIDE DEF rows, insts
    <3>4. QED
      BY <2>1, <3>1, <3>2, <3>3, QueryWarrant
  <2>4. QED
    BY <2>2, <2>3
<1>4. CASE CascadeRow(t)
  BY <1>4, VisitWarrant DEF CascadeRow, At, LoopPc
<1>5. CASE CascadeEvent(t)
  <2>1. /\ task[t].pc \in LoopPc /\ RecordRevocation(t)
        /\ UNCHANGED <<instances, siam, conns>>
        /\ Finish(t) \/ Goto(t, "wipe") \/ Goto(t, "delete")
    BY <1>5 DEF CascadeEvent, AfterCascade, At, LoopPc
  <2>2. QED
    BY <2>1, TurnWarrant
<1>6. QED
  BY <1>1, <1>2, <1>3, <1>4, <1>5

(* SIAMService.replace. *)
LEMMA SavesWarrant ==
    ASSUME TypeInv, NEW t \in Slot, SiamWrite(t)
    PROVE  WarrantStep
<1>1. /\ task[t].pc = "siam_write" /\ Goto(t, "siam_readback")
      /\ UNCHANGED <<instances, conns, consents>>
      /\ \/ siam' = {task[t].next}
         \/ siam' = siam \cup {task[t].next}
  BY DEF SiamWrite, At
<1>2. OnlyMoves(t) /\ task'[t].pc = "siam_readback"
  BY <1>1, GotoWarrant
<1>3. Earned(task[t]) = [kind |-> "nothing"]
  BY <1>1, EarningsHold DEF Earnings
<1>4. Earned(task[t])' = [kind |-> "nothing"]
  BY <1>2, EarningsHoldNext DEF Earnings
<1>5. task[t].next \in Mapping /\ UNCHANGED Fetchable
  BY <1>1 DEF Task, TypeInv, TypeOK, Fetchable
<1>6. \/ SiamResult' = {task[t].next}
      \/ SiamResult' = SiamResult \cup {task[t].next}
  BY <1>1 DEF SiamResult
<1>7. QED
  BY <1>1, <1>2, <1>3, <1>4, <1>5, <1>6, MovesWarrant

LEMMA ReadBackWarrant ==
    ASSUME TypeInv, NEW t \in Slot, SiamReadBack(t)
    PROVE  Warranted!WarrantsNext
<1>1. PICK after \in SiamResult :
          task' = [task EXCEPT ![t].pc = "siam_audit", ![t].next = after]
  BY DEF SiamReadBack
<1>2. /\ task[t].pc = "siam_readback"
      /\ UNCHANGED <<instances, siam, conns, consents>>
  BY DEF SiamReadBack, At, dbVars
<1>3. /\ OnlyMoves(t) /\ task'[t].pc = "siam_audit"
      /\ task'[t].prev = task[t].prev /\ task'[t].next = after
  BY <1>1 DEF OnlyMoves, Task, TypeInv, TypeOK
<1> DEFINE insts == Unmapped(task[t].prev, after)
<1>4. Earned(task[t])' = [kind |-> "order", insts |-> insts,
                          action |-> "revoked-by-siam-change"]
  <2>1. Unmapped(task[t].prev, task[t].next)' = insts
    BY <1>3 DEF Unmapped, Orphan
  <2>2. QED
    BY <1>3, <2>1, EarningsHoldNext DEF Earnings
<1>5. insts \in SUBSET Instance
      /\ \A i \in insts, ro \in Role : i \notin after[ro]
  BY DEF Unmapped, Orphan
<1>6. Holdings[t] = Warranted!Nothing
  BY <1>2, EarningsHold DEF Earnings, Holdings, Warranted!Nothing
<1> HIDE DEF insts
<1>7. Warranted!Earns(t, [kind |-> "order", insts |-> insts,
                          action |-> "revoked-by-siam-change"])
  BY <1>2, <1>3, <1>4, SameTables, HoldingsMove
<1>8. Warranted!OrderUnmapped(t, insts)
  BY <1>2, <1>5, <1>6, <1>7, SameTables
     DEF Warranted!OrderUnmapped, Warranted!Order, Sees
<1>9. QED
  BY <1>5, <1>8 DEF Warranted!WarrantsNext

LEMMA SiamStepsWarrant ==
    ASSUME TypeInv, NEW t \in Slot,
           \/ SiamCheck(t) \/ SiamAudit(t) \/ SiamQuery(t) \/ SiamRow(t)
           \/ SiamEvent(t)
    PROVE  WarrantStep
<1> USE DEF WarrantStep
<1>1. CASE SiamCheck(t)
  <2>1. /\ OnlyMoves(t) /\ task'[t].pc = "siam_write"
        /\ UNCHANGED <<instances, siam, conns, consents>>
    BY <1>1 DEF SiamCheck, OnlyMoves, Task, TypeInv, TypeOK, dbVars
  <2>2. Earned(task[t])' = [kind |-> "nothing"]
    BY <2>1, EarningsHoldNext DEF Earnings
  <2>3. QED
    BY <2>1, <2>2, EndsWarrant
<1>2. CASE SiamAudit(t)
  <2>1. /\ task[t].pc = "siam_audit"
        /\ UNCHANGED <<instances, siam, conns, consents>>
        /\ task' = [task EXCEPT ![t].pc = "siam_cascade",
                                ![t].why = "revoked-by-siam-change"]
           \/ Finish(t)
    BY <1>2 DEF SiamAudit, At
  <2>2. CASE ~Finish(t)
    <3>1. /\ OnlyMoves(t) /\ task'[t].pc = "siam_cascade"
          /\ task'[t].why = "revoked-by-siam-change"
          /\ task'[t].prev = task[t].prev /\ task'[t].next = task[t].next
      BY <2>1, <2>2 DEF OnlyMoves, Task, TypeInv, TypeOK
    <3>2. Earned(task[t]) = [kind |-> "order",
                             action |-> "revoked-by-siam-change",
                             insts |-> Unmapped(task[t].prev, task[t].next)]
      BY <2>1, EarningsHold DEF Earnings
    <3>3. Unmapped(task[t].prev, task[t].next)' =
             Unmapped(task[t].prev, task[t].next)
      BY <3>1 DEF Unmapped, Orphan
    <3>4. Earned(task[t])' = [kind |-> "order",
                              action |-> "revoked-by-siam-change",
                              insts |-> Unmapped(task[t].prev, task[t].next)]
      BY <3>1, <3>3, EarningsHoldNext DEF Earnings
    <3>5. QED
      BY <2>1, <3>1, <3>2, <3>4, KeepsWarrant
  <2>3. QED
    BY <2>1, <2>2, FinishWarrant
<1>3. CASE SiamQuery(t)
  <2> DEFINE rows == NoLongerAuthorized(task[t].prev, task[t].next)
             insts == Unmapped(task[t].prev, task[t].next)
  <2>1. /\ task[t].pc = "siam_cascade"
        /\ UNCHANGED <<instances, siam, conns, consents>>
        /\ \/ Finish(t)
           \/ /\ rows # {}
              /\ task' = [task EXCEPT ![t].pc = "siam_wipe", ![t].todo = rows]
    BY <1>3 DEF SiamQuery, At, dbVars
  <2>2. Earned(task[t]) = [kind |-> "order", action |-> task[t].why,
                           insts |-> insts]
    BY <2>1, EarningsHold DEF Earnings
  <2>3. KeysOf(rows) = {x \in LiveKeys : x.inst \in insts}
    BY UnmappedSentence
  <2>4. CASE ~Finish(t)
    <3>1. /\ rows # {}
          /\ task' = [task EXCEPT ![t].pc = "siam_wipe", ![t].todo = rows]
      BY <2>1, <2>4
    <3> HIDE DEF rows, insts
    <3>2. QED
      BY <2>1, <2>2, <2>3, <3>1, QueryWarrant
  <2>5. QED
    BY <2>1, <2>4, FinishWarrant
<1>4. CASE SiamRow(t)
  BY <1>4, VisitWarrant DEF SiamRow, At, LoopPc
<1>5. CASE SiamEvent(t)
  <2>1. /\ task[t].pc \in LoopPc /\ RecordRevocation(t)
        /\ UNCHANGED <<instances, siam, conns>>
        /\ Finish(t) \/ Goto(t, "siam_wipe")
    BY <1>5 DEF SiamEvent, At, LoopPc
  <2>2. QED
    BY <2>1, TurnWarrant
<1>6. QED
  BY <1>1, <1>2, <1>3, <1>4, <1>5

LEMMA AuditEndsWarrant ==
    ASSUME TypeInv, NEW t \in Slot, CreateAudit(t) \/ DeleteAudit(t)
    PROVE  Warranted!WarrantsNext
BY FinishWarrant DEF CreateAudit, DeleteAudit

-----------------------------------------------------------------------------
LEMMA NextWarrants ==
    ASSUME TypeInv, [Next]_vars
    PROVE  WarrantStep
<1>1. CASE \E t \in Slot : UserStarts(t) \/ AdminStarts(t)
  BY <1>1, UserStartsWarrant, AdminStartsWarrant DEF WarrantStep
<1>2. CASE \E t \in Slot : UserContinues(t)
  BY <1>2, UserContinuesWarrant
<1>3. CASE \E t \in Slot : AdminContinues(t)
  BY <1>3, InstanceStepsWarrant, CascadeWarrant, SavesWarrant,
     ReadBackWarrant, SiamStepsWarrant, AuditEndsWarrant
     DEF AdminContinues, WarrantStep
<1>4. CASE \E t \in Slot : CutShort(t)
  BY <1>4, FinishWarrant DEF CutShort, dbVars, WarrantStep
<1>5. CASE UNCHANGED <<dbVars, task>>
  <2>1. UNCHANGED <<instances, siam, conns, consents, task>>
    BY <1>5 DEF dbVars
  <2>2. \A t \in Slot : Earned(task[t])' = Earned(task[t])
    BY <2>1, SameTables, EarningStays
  <2>3. UNCHANGED Holdings
    BY <2>2 DEF Holdings
  <2>4. QED
    BY <2>1, <2>3, SameTables DEF WarrantStep, Warranted!warrantVars, Sees
<1>6. CASE \E f \in Flow, m \in Mailbox : IdpAuthorize(f, m)
  BY <1>5, <1>6 DEF IdpAuthorize
<1>7. CASE UNCHANGED vars
  BY <1>5, <1>7 DEF vars, dbVars
<1>8. QED
  BY <1>1, <1>2, <1>3, <1>4, <1>6, <1>7 DEF Next, Continues

LEMMA InitWarrants == Init => Warranted!WarrantsInit
<1> SUFFICES ASSUME Init PROVE Warranted!WarrantsInit
  OBVIOUS
<1> USE DEF Init, DbInit
<1>1. Fetchable \subseteq Instance
  BY DEF Fetchable
<1>2. SiamResult # {} /\ SiamResult \subseteq [Role -> SUBSET Instance]
  BY SeedAssumption DEF SiamResult, NoMapping, Mapping
<1>3. LiveKeys = {}
  BY DEF LiveKeys, KeysOf, LiveRows, Rows
<1>4. ASSUME NEW t \in Slot
      PROVE  Earned(task[t]) = Warranted!Nothing
  <2>1. task[t].pc = "idle"
    BY DEF Idle
  <2>2. QED
    BY <2>1, EarningsHold DEF Earnings, Warranted!Nothing
<1>5. Holdings = [t \in Slot |-> Warranted!Nothing]
  BY <1>4 DEF Holdings
<1>6. QED
  BY <1>1, <1>2, <1>3, <1>5 DEF Warranted!WarrantsInit

(* However many users and administrators are at work, and wherever their   *)
(* requests are cut short: grant and complete_grant insert a row only      *)
(* after this request found the instance enabled, then the user            *)
(* authorized, then no duplicate; a row is disconnected only by its user's *)
(* revoke or by a cascade that a disable, a delete or a mapping gave cause *)
(* to; and each ConsentEvent is written by the request that did what the   *)
(* event says, for the reason it says.                                     *)
THEOREM HubImplementsWarrants == Spec => ImplementsWarrants
<1>1. TypeInv /\ [Next]_vars => [Warranted!WarrantsNext]_(Warranted!warrantVars)
  BY NextWarrants DEF WarrantStep
<1>2. QED
  BY <1>1, InitWarrants, TypeCorrect, PTL
     DEF Spec, ImplementsWarrants, Warranted!WarrantsSpec

=============================================================================
