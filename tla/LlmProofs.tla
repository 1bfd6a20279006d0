----------------------------- MODULE LlmProofs -----------------------------
(***************************************************************************)
(* Theorems about LlmConfig, for any sides, payloads, administrators and   *)
(* number of updates and faults.                                           *)
(***************************************************************************)
EXTENDS LlmConfig, FiniteSetTheorems, TLAPS

(* The required fields of one side are there, or cleared on purpose. *)
Filled(c, s, gone) ==
    /\ c.provider \in NeedsUrl => c.url # Empty
    /\ c.provider \in NeedsKey => c.key # None \/ s \in gone

Request == [Side -> Payload \cup {None}]

(* What an update under way holds is a valid row and an accepted payload.  *)
TaskOK(a) ==
    task[a] # None =>
        /\ task[a].old \in [Side -> Config]
        /\ task[a].req \in Request
        /\ \A s \in Side : Filled(task[a].old[s], s, cleared)
        /\ \A s \in Side : task[a].req[s] # None =>
              Accepts(task[a].old[s], task[a].req[s])

ConfigInv ==
    /\ table \subseteq [Side -> Config]
    /\ cleared \subseteq Side
    /\ RequiredFieldsFilled
    /\ \A a \in Admin : TaskOK(a)

(* What the stored key becomes. *)
NewKey(old, p) ==
    IF p.key = None THEN old.key ELSE IF p.key = Empty THEN None ELSE p.key

LEMMA AppliedFields ==
    ASSUME NEW old \in Config, NEW p \in Payload
    PROVE  /\ Applied(old, p) \in Config
           /\ Applied(old, p).provider = p.provider
           /\ Applied(old, p).url = p.url
           /\ Applied(old, p).key = NewKey(old, p)
<1>1. NewKey(old, p) \in Key \cup {None}
  BY DEF NewKey, Config, Payload
<1>2. Applied(old, p) =
        [provider |-> p.provider, url |-> p.url, key |-> NewKey(old, p)]
  BY DEF Applied, NewKey
<1> HIDE DEF NewKey
<1>3. QED
  BY <1>1, <1>2 DEF Config, Payload

LEMMA SeedFields ==
    Seed \in [Side -> Config] /\ \A s \in Side : \A S : Filled(Seed[s], s, S)
<1> DEFINE u == CHOOSE x \in Url : TRUE
           c == [provider |-> "ollama", key |-> None, url |-> u]
<1>1. u \in Url /\ u # Empty
  BY UrlAssumption, DistinctAssumption
<1> HIDE DEF u
<1>2. c \in Config /\ c.provider = "ollama" /\ c.url = u
  BY <1>1 DEF Config, Provider
<1>3. Seed = [s \in Side |-> c]
  BY DEF Seed, u
<1> HIDE DEF c
<1>4. QED
  BY <1>1, <1>2, <1>3 DEF Filled, NeedsKey

(* An accepted payload keeps a row valid, unless it clears a stored key.   *)
LEMMA AcceptedIsFilled ==
    ASSUME NEW old \in Config, NEW p \in Payload, NEW s, NEW S,
           Filled(old, s, S), Accepts(old, p)
    PROVE  Filled(Applied(old, p), s,
                  S \cup {x \in {s} : p.key = Empty /\ old.key # None})
<1>1. None \notin Key /\ Empty \notin Key /\ Empty # None
  BY DistinctAssumption
<1>2. QED
  BY <1>1, AppliedFields DEF Filled, Accepts, NewKey

LEMMA MergedIsFilled ==
    ASSUME ConfigInv, NEW a \in Admin, Write(a)
    PROVE  ConfigInv'
<1> DEFINE old == task[a].old
           req == task[a].req
           new == Merged(old, req)
<1>1. /\ task[a] # None /\ table' = {new} /\ cleared' = cleared \cup Clears(a)
      /\ task' = [task EXCEPT ![a].pc = "audit"]
  BY DEF Write, At
<1>2. /\ old \in [Side -> Config] /\ req \in Request
      /\ \A s \in Side : Filled(old[s], s, cleared)
      /\ \A s \in Side : req[s] # None => Accepts(old[s], req[s])
  BY <1>1 DEF ConfigInv, TaskOK
<1>3. ASSUME NEW s \in Side
      PROVE  new[s] \in Config /\ Filled(new[s], s, cleared')
  <2>1. CASE req[s] = None
    BY <1>1, <1>2, <2>1 DEF Merged, Filled
  <2>2. CASE req[s] # None
    <3>1. req[s] \in Payload /\ old[s] \in Config
      BY <1>2, <2>2 DEF Request
    <3> DEFINE S == {x \in {s} : req[s].key = Empty /\ old[s].key # None}
    <3>2. new[s] = Applied(old[s], req[s])
      BY <2>2 DEF Merged
    <3>3. new[s] \in Config /\ Filled(new[s], s, cleared \cup S)
      BY <1>2, <2>2, <3>1, <3>2, AppliedFields, AcceptedIsFilled
    <3>4. cleared \cup S \subseteq cleared'
      BY <1>1, <2>2 DEF Clears
    <3>5. QED
      BY <3>3, <3>4 DEF Filled
  <2>3. QED
    BY <2>1, <2>2
<1>4. new \in [Side -> Config]
  BY <1>3 DEF Merged
<1>5. cleared' \subseteq Side
  BY <1>1 DEF ConfigInv, Clears
<1>6. RequiredFieldsFilled'
  BY <1>1, <1>3 DEF RequiredFieldsFilled, Filled
<1>7. ASSUME NEW b \in Admin, task'[b] # None
      PROVE  task[b] # None /\ task'[b].old = task[b].old
             /\ task'[b].req = task[b].req
  BY <1>1, <1>7
<1>8. \A b \in Admin : TaskOK(b)'
  BY <1>1, <1>7 DEF ConfigInv, TaskOK, Filled
<1>9. QED
  BY <1>1, <1>4, <1>5, <1>6, <1>8 DEF ConfigInv

(* What the other actions do to an update under way: they end it, or leave *)
(* its row and payload alone.                                              *)
Carries(b) ==
    task'[b] # None => /\ task[b] # None /\ task'[b].old = task[b].old
                       /\ task'[b].req = task[b].req

LEMMA CarriedConfig ==
    ASSUME ConfigInv, cleared' = cleared,
           table' = table \/ table' = table \cup {Seed},
           \A b \in Admin : TaskOK(b)' \/ Carries(b)
    PROVE  ConfigInv'
<1>1. \A b \in Admin : TaskOK(b)'
  BY DEF ConfigInv, TaskOK, Carries
<1>2. table' \subseteq [Side -> Config]
  BY SeedFields DEF ConfigInv
<1>3. RequiredFieldsFilled'
  BY SeedFields DEF ConfigInv, RequiredFieldsFilled, Filled
<1>4. QED
  BY <1>1, <1>2, <1>3 DEF ConfigInv

(* pc and alone are the only fields of an update that change. *)
LEMMA TaskFields ==
    ASSUME NEW t \in Task
    PROVE  /\ \A v \in BOOLEAN :
                /\ [t EXCEPT !.alone = v] \in Task
                /\ [t EXCEPT !.alone = v].old = t.old
                /\ [t EXCEPT !.alone = v].req = t.req
           /\ [t EXCEPT !.pc = "audit"] \in Task
BY DEF Task

TaskType == task \in [Admin -> Task \cup {None}]

(* Every update but those of A is overlapped now. *)
LEMMA OthersOverlapped ==
    ASSUME TaskType, NEW A, NEW new \in Task \cup {None},
           task' = [a \in Admin |-> IF a \in A THEN new
                       ELSE IF task[a] = None THEN None
                       ELSE [task[a] EXCEPT !.alone = FALSE]]
    PROVE  TaskType' /\ \A b \in Admin \ A : Carries(b)
<1>1. ASSUME NEW b \in Admin \ A
      PROVE  Carries(b) /\ task'[b] \in Task \cup {None}
  <2>1. CASE task[b] = None
    BY <2>1 DEF Carries
  <2>2. CASE task[b] # None
    <3>1. task[b] \in Task
      BY <2>2 DEF TaskType
    <3> DEFINE x == [task[b] EXCEPT !.alone = FALSE]
    <3>2. task'[b] = x
      BY <2>2
    <3>3. x \in Task /\ x.old = task[b].old /\ x.req = task[b].req
      BY <3>1, TaskFields
    <3> HIDE DEF x
    <3>4. QED
      BY <2>2, <3>2, <3>3 DEF Carries
  <2>3. QED
    BY <2>1, <2>2
<1>2. \A b \in Admin : task'[b] \in Task \cup {None}
  BY <1>1
<1>3. QED
  BY <1>1, <1>2 DEF TaskType

(* Every action but Read and Write. *)
Others ==
    \/ \E p \in Process : SeedCheck(p) \/ SeedInsert(p)
    \/ CliEnds \/ CliDies \/ Restart
    \/ \E a \in Admin : Record(a) \/ Raises(a)

LEMMA OthersCarry ==
    ASSUME TaskType, Others
    PROVE  /\ TaskType' /\ cleared' = cleared
           /\ table' = table \/ table' = table \cup {Seed}
           /\ \A b \in Admin : Carries(b)
<1>1. ASSUME NEW p \in Process, SeedInsert(p)
      PROVE  TaskType' /\ \A b \in Admin : Carries(b)
  <2> DEFINE A == {}
  <2>1. task' = [a \in Admin |-> IF a \in A THEN None
                    ELSE IF task[a] = None THEN None
                    ELSE [task[a] EXCEPT !.alone = FALSE]]
    BY <1>1 DEF SeedInsert
  <2>2. None \in Task \cup {None} /\ Admin \ A = Admin
    OBVIOUS
  <2> HIDE DEF A
  <2>3. TaskType' /\ \A b \in Admin \ A : Carries(b)
    BY <2>1, <2>2, OthersOverlapped
  <2>4. QED
    BY <2>2, <2>3
<1>2. ASSUME UNCHANGED task
      PROVE  TaskType' /\ \A b \in Admin : Carries(b)
  BY <1>2 DEF TaskType, Carries
<1>3. ASSUME NEW A, Cut(A)
      PROVE  TaskType' /\ \A b \in Admin : Carries(b)
  BY <1>3 DEF Cut, TaskType, Carries
<1>4. ASSUME NEW a \in Admin, Record(a)
      PROVE  TaskType' /\ \A b \in Admin : Carries(b)
  BY <1>4 DEF Record, TaskType, Carries
<1>5. TaskType' /\ \A b \in Admin : Carries(b)
  BY <1>1, <1>2, <1>3, <1>4
  DEF Others, SeedCheck, CliEnds, CliDies, Restart, Raises
<1>6. /\ cleared' = cleared
      /\ table' = table \/ table' = table \cup {Seed}
  BY DEF Others, SeedCheck, SeedInsert, CliEnds, CliDies, Restart, Raises,
         Record, Cut
<1>7. QED
  BY <1>5, <1>6

LEMMA ReadTask ==
    ASSUME ConfigInv, TaskType, NEW a \in Admin,
           NEW req \in [Side -> Offers \cup {None}], Read(a, req)
    PROVE  ConfigInv' /\ TaskType'
<1>1. PICK d \in table :
        /\ \A s \in Side : req[s] # None => Accepts(d[s], req[s])
        /\ task' = [b \in Admin |->
              IF b = a THEN [pc |-> "write", old |-> d, req |-> req,
                             alone |-> Active = {}]
              ELSE IF task[b] = None THEN None
              ELSE [task[b] EXCEPT !.alone = FALSE]]
  BY DEF Read
<1> DEFINE new == [pc |-> "write", old |-> d, req |-> req,
                   alone |-> Active = {}]
<1>2. d \in [Side -> Config] /\ req \in Request
  BY OffersAssumption DEF ConfigInv, Request, Payload, Provider
<1>3. (Active = {}) \in BOOLEAN
  OBVIOUS
<1>4. new \in Task /\ new.old = d /\ new.req = req
  BY <1>2, <1>3 DEF Task, Request
<1>5. task' = [b \in Admin |-> IF b \in {a} THEN new
                  ELSE IF task[b] = None THEN None
                  ELSE [task[b] EXCEPT !.alone = FALSE]]
  BY <1>1
<1> HIDE DEF new
<1>6. TaskType' /\ \A b \in Admin \ {a} : Carries(b)
  BY <1>4, <1>5, OthersOverlapped
<1>7. table' = table /\ cleared' = cleared
  BY DEF Read
<1>8. TaskOK(a)'
  <2>1. task'[a] = new
    BY <1>5
  <2>2. \A s \in Side : Filled(d[s], s, cleared)
    BY DEF ConfigInv, RequiredFieldsFilled, Filled
  <2>3. QED
    BY <1>1, <1>2, <1>4, <1>7, <2>1, <2>2 DEF TaskOK, Filled
<1>9. QED
  BY <1>6, <1>7, <1>8, CarriedConfig

LEMMA WriteTask ==
    ASSUME TaskType, NEW a \in Admin, Write(a)
    PROVE  TaskType'
BY TaskFields DEF Write, At, TaskType

ConfigTaskInv == ConfigInv /\ TaskType

LEMMA InitConfig == Init => ConfigTaskInv
BY DEF Init, ConfigTaskInv, ConfigInv, TaskType, TaskOK, RequiredFieldsFilled

LEMMA NextConfig == ConfigTaskInv /\ [Next]_vars => ConfigTaskInv'
<1> SUFFICES ASSUME ConfigInv, TaskType, [Next]_vars
             PROVE  ConfigInv' /\ TaskType'
  BY DEF ConfigTaskInv
<1>1. CASE Others
  BY <1>1, OthersCarry, CarriedConfig
<1>2. ASSUME NEW a \in Admin, NEW req \in [Side -> Offers \cup {None}],
             Read(a, req)
      PROVE  ConfigInv' /\ TaskType'
  BY <1>2, ReadTask
<1>3. ASSUME NEW a \in Admin, Write(a)
      PROVE  ConfigInv' /\ TaskType'
  BY <1>3, MergedIsFilled, WriteTask
<1>4. CASE UNCHANGED vars
  BY <1>4, CarriedConfig DEF vars, TaskType, Carries
<1>5. QED
  BY <1>1, <1>2, <1>3, <1>4 DEF Next, Others

(* However updates overlap and whichever stop, every stored configuration  *)
(* has what its providers require, but for a key an update cleared.        *)
THEOREM RequiredAlwaysFilled == Spec => []RequiredFieldsFilled
<1>1. ConfigTaskInv => RequiredFieldsFilled
  BY DEF ConfigTaskInv, ConfigInv
<1>2. QED
  BY <1>1, InitConfig, NextConfig, PTL DEF Spec

-----------------------------------------------------------------------------
(* One configuration. *)

(* As long as Hub and CLI did not meet on the empty table, whoever is      *)
(* about to insert the defaults is alone and the table is empty; an update *)
(* has seen a row.                                                         *)
SeedInv ==
    /\ boot \in [Process -> {"down", "insert", "up"}]
    /\ \A a \in Admin : task[a] # None => table # {}
    /\ ~raced =>
          /\ table = {} \/ \E d : table = {d}
          /\ \A p, q \in Process :
                boot[p] = "insert" => /\ table = {}
                                      /\ boot[q] = "insert" => p = q

LEMMA InitSeed == Init => SeedInv
BY DEF Init, SeedInv

LEMMA NextSeed == SeedInv /\ TaskType /\ [Next]_vars => SeedInv'
<1> SUFFICES ASSUME SeedInv, TaskType, [Next]_vars PROVE SeedInv'
  OBVIOUS
<1> USE DEF SeedInv
<1>1. ASSUME NEW p \in Process, SeedCheck(p)
      PROVE  SeedInv'
  BY <1>1 DEF SeedCheck
<1>2. ASSUME NEW p \in Process, SeedInsert(p)
      PROVE  SeedInv'
  <2>1. /\ boot[p] = "insert" /\ boot' = [boot EXCEPT ![p] = "up"]
        /\ table' = table \cup {Seed} /\ raced' = raced
    BY <1>2 DEF SeedInsert
  <2>2. ~raced => table' = {Seed}
    BY <2>1
  <2>3. QED
    BY <2>1, <2>2
<1>3. ASSUME UNCHANGED <<table, raced>>,
             boot' \in [Process -> {"down", "insert", "up"}],
             \A p \in Process : boot'[p] = "insert" => boot[p] = "insert",
             \A a \in Admin : task'[a] # None => task[a] # None \/ table # {}
      PROVE  SeedInv'
  BY <1>3
<1>4. CASE CliEnds
  BY <1>3, <1>4 DEF CliEnds
<1>5. CASE CliDies \/ Restart
  BY <1>3, <1>5 DEF CliDies, Restart, Cut, Process
<1>6. ASSUME NEW a \in Admin, Raises(a) \/ Record(a)
      PROVE  SeedInv'
  <2>1. /\ UNCHANGED <<table, raced, boot>>
        /\ \A b \in Admin : task'[b] # None => task[b] # None
    BY <1>6 DEF Raises, Cut, Record, TaskType
  <2>2. QED
    BY <1>3, <2>1
<1>7. ASSUME NEW a \in Admin, NEW req \in [Side -> Offers \cup {None}],
             Read(a, req)
      PROVE  SeedInv'
  <2>1. UNCHANGED <<table, raced, boot>> /\ table # {}
    BY <1>7 DEF Read
  <2>2. QED
    BY <1>3, <2>1
<1>8. ASSUME NEW a \in Admin, Write(a)
      PROVE  SeedInv'
  <2> DEFINE d == Merged(task[a].old, task[a].req)
  <2>1. /\ table # {} /\ table' = {d} /\ UNCHANGED <<raced, boot>>
    BY <1>8 DEF Write, At
  <2> HIDE DEF d
  <2>2. QED
    BY <2>1
<1>9. CASE UNCHANGED vars
  BY <1>3, <1>9 DEF vars
<1>10. QED
  BY <1>1, <1>2, <1>4, <1>5, <1>6, <1>7, <1>8, <1>9 DEF Next

(* Restarts and create-admin runs never add to a configuration, unless Hub *)
(* and CLI were both about to write the first one.                         *)
THEOREM ConfigurationIsOne == Spec => []OneConfiguration
<1>1. SeedInv => OneConfiguration
  <2>1. Cardinality({}) = 0
    BY FS_EmptySet
  <2>2. \A d : Cardinality({d}) = 1
    BY FS_Singleton
  <2>3. ASSUME SeedInv, ~raced
        PROVE  Cardinality(table) \in {0, 1}
    <3>1. table = {} \/ \E d : table = {d}
      BY <2>3 DEF SeedInv
    <3>2. QED
      BY <2>1, <2>2, <3>1
  <2>4. \A n \in {0, 1} : n <= 1
    OBVIOUS
  <2>5. QED
    BY <2>3, <2>4 DEF OneConfiguration
<1>2. Init => ConfigTaskInv /\ SeedInv
  BY InitConfig, InitSeed
<1>3. ConfigTaskInv /\ SeedInv /\ [Next]_vars => (ConfigTaskInv /\ SeedInv)'
  BY NextConfig, NextSeed DEF ConfigTaskInv
<1>4. QED
  BY <1>1, <1>2, <1>3, PTL DEF Spec

-----------------------------------------------------------------------------
(* No key in the trail. *)

Telling == Key \cup {Empty}

LEMMA ViewHidesKey ==
    ASSUME NEW doc \in [Side -> Config], NEW s \in Side
    PROVE  View(doc)[s].key \in {Existing, None}
<1>1. doc[s] \in Config
  OBVIOUS
<1> DEFINE k == IF doc[s].provider \in TakesKey /\ doc[s].key # None
                THEN Existing ELSE None
<1>2. View(doc)[s] = [doc[s] EXCEPT !.key = k]
  BY DEF View
<1>3. k \in {Existing, None}
  OBVIOUS
<1> HIDE DEF k
<1>4. QED
  BY <1>1, <1>2, <1>3 DEF Config

LEMMA MarkTellsNothing ==
    ASSUME NEW k \in Key \cup {Empty, Existing}
    PROVE  Mark(k) \notin Telling
<1>1. Mark(k) \in Marks
  <2>1. CASE k \in {Empty, None}
    BY <2>1 DEF Mark, Marks
  <2>2. CASE k \notin {Empty, None}
    <3>1. Mark(k) = <<"set", k>> /\ k \in Key \cup {Existing}
      BY <2>2 DEF Mark
    <3>2. <<"set", k>> \in {"set"} \X (Key \cup {Existing})
      BY <3>1
    <3>3. QED
      BY <3>1, <3>2 DEF Marks
  <2>3. QED
    BY <2>1, <2>2
<1>2. QED
  BY <1>1, MarkAssumption DEF Telling

LEMMA RecordedHidesKey ==
    ASSUME NEW old \in [Side -> Config], NEW req \in Request, NEW s \in Side
    PROVE  Masked(Changed(View(old), req), SecretSides(old, req))[s].key
              \notin Telling
<1> DEFINE v == View(old)
           c == Changed(v, req)
           S == SecretSides(old, req)
           k == IF s \in S /\ c[s].key # None THEN Mark(c[s].key) ELSE c[s].key
<1>1. v[s].key \in {Existing, None}
  BY ViewHidesKey
<1>2. Existing \notin Telling /\ None \notin Telling
  BY DistinctAssumption DEF Telling
<1>3. Masked(c, S)[s] = [c[s] EXCEPT !.key = k]
  BY DEF Masked
<1>4. CASE req[s] = None
  <2>1. c[s] = v[s] /\ s \notin S
    BY <1>4 DEF Changed, SecretSides
  <2>2. k = v[s].key
    BY <2>1
  <2>3. v[s] = [old[s] EXCEPT !.key =
                 IF old[s].provider \in TakesKey /\ @ # None THEN Existing
                                                             ELSE None]
    BY DEF View
  <2>4. old[s] \in Config
    OBVIOUS
  <2> HIDE DEF v, c, S, k
  <2>5. [v[s] EXCEPT !.key = k].key = k
    BY <2>3, <2>4 DEF Config
  <2>6. QED
    BY <1>1, <1>2, <1>3, <2>1, <2>2, <2>5 DEF v, c, S
<1>5. CASE req[s] # None
  <2>1. req[s] \in Payload
    BY <1>5 DEF Request
  <2> DEFINE j == IF req[s].key = None THEN v[s].key ELSE req[s].key
  <2>2. c[s] = [req[s] EXCEPT !.key = j]
    BY <1>5 DEF Changed
  <2>3. s \in S <=> req[s].key # None
    BY <1>5 DEF SecretSides
  <2>4. /\ req[s].key = None => j = v[s].key
        /\ req[s].key # None => j = req[s].key /\ j \in Key \cup {Empty}
    BY <2>1 DEF Payload
  <2>5. k = IF s \in S /\ c[s].key # None THEN Mark(c[s].key) ELSE c[s].key
    OBVIOUS
  <2> HIDE DEF v, c, S, k, j
  <2>6. c[s].key = j /\ [c[s] EXCEPT !.key = k].key = k
    BY <2>1, <2>2 DEF Payload
  <2>7. k \notin Telling
    BY <1>1, <1>2, <2>3, <2>4, <2>5, <2>6, MarkTellsNothing
  <2>8. QED
    BY <1>3, <2>6, <2>7 DEF v, c, S
<1>6. QED
  BY <1>4, <1>5

LEMMA NextHidden ==
    ASSUME NoKeyInTrail, ConfigTaskInv, [Next]_vars
    PROVE  NoKeyInTrail'
<1>1. CASE UNCHANGED last
  BY <1>1 DEF NoKeyInTrail, NoEntry
<1>2. ASSUME NEW a \in Admin, Record(a)
      PROVE  NoKeyInTrail'
  <2> DEFINE old == task[a].old
             req == task[a].req
             new == Masked(Changed(View(old), req), SecretSides(old, req))
  <2>1. last' = new /\ task[a] # None
    BY <1>2 DEF Record, At
  <2>2. old \in [Side -> Config] /\ req \in Request
    BY <2>1 DEF ConfigTaskInv, ConfigInv, TaskOK
  <2>3. \A s \in Side : new[s].key \notin Telling
    BY <2>2, RecordedHidesKey
  <2> HIDE DEF new
  <2>4. QED
    BY <2>1, <2>3 DEF NoKeyInTrail, Telling
<1>3. QED
  BY <1>1, <1>2 DEF Next, SeedCheck, SeedInsert, CliEnds, CliDies, Restart,
     Cut, Read, Write, Raises, InTrail, vars

(* Whatever keys administrators send, first ones or others, kept, changed  *)
(* or cleared: none reaches the trail.                                     *)
THEOREM KeysNeverInTrail == Spec => []NoKeyInTrail
<1>1. Init => ConfigTaskInv /\ NoKeyInTrail
  BY InitConfig DEF Init, NoKeyInTrail
<1>2. ConfigTaskInv /\ NoKeyInTrail /\ [Next]_vars
         => (ConfigTaskInv /\ NoKeyInTrail)'
  BY NextConfig, NextHidden
<1>3. QED
  BY <1>1, <1>2, PTL DEF Spec

-----------------------------------------------------------------------------
(* Type correctness. *)

(* What _audit_view, _apply_fields and _mask_secrets make of an update. *)
Recorded(old, req) == Masked(Changed(View(old), req), SecretSides(old, req))

ViewKey(c) ==
    IF c.provider \in TakesKey /\ c.key # None THEN Existing ELSE None

LEMMA MarkType ==
    ASSUME NEW k \in Key \cup {Empty}
    PROVE  Mark(k) \in Marks
<1>1. CASE k \in {Empty, None}
  BY <1>1 DEF Mark, Marks
<1>2. CASE k \notin {Empty, None}
  <2>1. Mark(k) = <<"set", k>> /\ k \in Key \cup {Existing}
    BY <1>2 DEF Mark
  <2>2. <<"set", k>> \in {"set"} \X (Key \cup {Existing})
    BY <2>1
  <2>3. QED
    BY <2>1, <2>2 DEF Marks
<1>3. QED
  BY <1>1, <1>2

(* A side the payload does not name is told as it was; one it names is     *)
(* told as the payload puts it, the key as a mark if there is one.         *)
LEMMA RecordedFields ==
    ASSUME NEW old \in [Side -> Config], NEW req \in Request, NEW s \in Side
    PROVE  /\ req[s] = None =>
                 Recorded(old, req)[s] =
                    [provider |-> old[s].provider, url |-> old[s].url,
                     key |-> ViewKey(old[s])]
           /\ req[s] # None =>
                 Recorded(old, req)[s] =
                    [provider |-> req[s].provider, url |-> req[s].url,
                     key |-> IF req[s].key = None THEN ViewKey(old[s])
                                                  ELSE Mark(req[s].key)]
<1> DEFINE v == View(old)
           c == Changed(v, req)
           S == SecretSides(old, req)
           k == IF s \in S /\ c[s].key # None THEN Mark(c[s].key) ELSE c[s].key
<1>1. v[s] = [provider |-> old[s].provider, url |-> old[s].url,
              key |-> ViewKey(old[s])]
  <2>1. old[s] \in Config
    OBVIOUS
  <2>2. v[s] = [old[s] EXCEPT !.key = ViewKey(old[s])]
    BY DEF View, ViewKey
  <2> HIDE DEF v
  <2>3. QED
    BY <2>1, <2>2 DEF Config
<1>2. Recorded(old, req)[s] = [c[s] EXCEPT !.key = k]
  BY DEF Recorded, Masked
<1>3. CASE req[s] = None
  <2>1. c[s] = v[s] /\ s \notin S
    BY <1>3 DEF Changed, SecretSides
  <2>2. k = v[s].key
    BY <2>1
  <2> HIDE DEF v, c, S, k
  <2>3. QED
    BY <1>1, <1>2, <1>3, <2>1, <2>2
<1>4. CASE req[s] # None
  <2>1. req[s] \in Payload
    BY <1>4 DEF Request
  <2> DEFINE j == IF req[s].key = None THEN v[s].key ELSE req[s].key
  <2>2. c[s] = [req[s] EXCEPT !.key = j]
    BY <1>4 DEF Changed
  <2>3. s \in S <=> req[s].key # None
    BY <1>4 DEF SecretSides
  <2> HIDE DEF v, c, S
  <2>4. c[s] = [provider |-> req[s].provider, url |-> req[s].url, key |-> j]
    BY <2>1, <2>2 DEF Payload
  <2>5. k = IF req[s].key = None THEN ViewKey(old[s]) ELSE Mark(req[s].key)
    BY <1>1, <2>3, <2>4
  <2> HIDE DEF j, k
  <2>6. QED
    BY <1>2, <1>4, <2>4, <2>5
<1>5. QED
  BY <1>3, <1>4

LEMMA RecordedType ==
    ASSUME NEW old \in [Side -> Config], NEW req \in Request
    PROVE  /\ Recorded(old, req) \in Entry
           /\ \A s \in SecretSides(old, req) :
                 Recorded(old, req)[s].key \in Marks
<1>1. ASSUME NEW s \in Side
      PROVE  Recorded(old, req)[s] \in
                [provider : Provider, url : Url \cup {Empty},
                 key : Marks \cup {Existing, None}]
  <2>1. ViewKey(old[s]) \in {Existing, None}
    BY DEF ViewKey
  <2>2. CASE req[s] = None
    <3>1. old[s] \in Config
      OBVIOUS
    <3>2. Recorded(old, req)[s] =
             [provider |-> old[s].provider, url |-> old[s].url,
              key |-> ViewKey(old[s])]
      BY <2>2, RecordedFields
    <3>3. QED
      BY <2>1, <3>1, <3>2 DEF Config
  <2>3. CASE req[s] # None
    <3>1. req[s] \in Payload
      BY <2>3 DEF Request
    <3> DEFINE k == IF req[s].key = None THEN ViewKey(old[s])
                                         ELSE Mark(req[s].key)
    <3>2. k \in Marks \cup {Existing, None}
      BY <2>1, <3>1, MarkType DEF Payload
    <3>3. Recorded(old, req)[s] =
             [provider |-> req[s].provider, url |-> req[s].url, key |-> k]
      BY <2>3, RecordedFields
    <3> HIDE DEF k
    <3>4. QED
      BY <3>1, <3>2, <3>3 DEF Payload
  <2>4. QED
    BY <2>2, <2>3
<1>2. DOMAIN Recorded(old, req) = Side
      /\ Recorded(old, req) = [s \in Side |-> Recorded(old, req)[s]]
  BY DEF Recorded, Masked
<1>3. Recorded(old, req) \in Entry
  BY <1>1, <1>2 DEF Entry
<1>4. ASSUME NEW s \in SecretSides(old, req)
      PROVE  Recorded(old, req)[s].key \in Marks
  <2>1. s \in Side /\ req[s] # None /\ req[s].key # None
    BY <1>4 DEF SecretSides
  <2>2. req[s].key \in Key \cup {Empty}
    BY <2>1 DEF Request, Payload
  <2> DEFINE k == IF req[s].key = None THEN ViewKey(old[s])
                                       ELSE Mark(req[s].key)
  <2>3. Recorded(old, req)[s] =
           [provider |-> req[s].provider, url |-> req[s].url, key |-> k]
        /\ k = Mark(req[s].key)
    BY <2>1, RecordedFields
  <2> HIDE DEF k
  <2>4. QED
    BY <2>2, <2>3, MarkType
<1>5. QED
  BY <1>3, <1>4

(* The variables the other invariants do not speak of. *)
HistoryType ==
    /\ last \in Entry \cup {NoEntry}
    /\ told \in [Side -> Marks]
    /\ updates \in Nat /\ faults \in Nat /\ raced \in BOOLEAN
    /\ blurred \subseteq Side

LEMMA InitHistory == Init => HistoryType
<1>1. PICK m : m = <<"not set">> /\ m \in Marks
  BY DEF Marks
<1>2. ASSUME Init PROVE told \in [Side -> Marks]
  BY <1>1, <1>2 DEF Init
<1>3. ASSUME Init PROVE updates \in Nat /\ faults \in Nat
  BY <1>3 DEF Init
<1>4. ASSUME Init
      PROVE  last \in Entry \cup {NoEntry} /\ raced \in BOOLEAN
             /\ blurred \subseteq Side
  BY <1>4 DEF Init
<1>5. QED
  BY <1>2, <1>3, <1>4 DEF HistoryType

LEMMA NextHistory == ConfigTaskInv /\ HistoryType /\ [Next]_vars => HistoryType'
<1> SUFFICES ASSUME ConfigTaskInv, HistoryType, [Next]_vars PROVE HistoryType'
  OBVIOUS
<1> USE DEF HistoryType
<1>1. ASSUME UNCHANGED <<last, told>>, updates' \in {updates, updates + 1},
             faults' \in {faults, faults + 1}, raced' \in BOOLEAN,
             blurred' \subseteq Side
      PROVE  HistoryType'
  BY <1>1
<1>2. ASSUME NEW a \in Admin, Record(a)
      PROVE  HistoryType'
  <2>1. PICK old, req, S : old = task[a].old /\ req = task[a].req
                           /\ S = SecretSides(old, req)
    OBVIOUS
  <2>2. task[a] # None
    BY <1>2 DEF Record, At
  <2>3. old \in [Side -> Config] /\ req \in Request
    BY <2>1, <2>2 DEF ConfigTaskInv, ConfigInv, TaskOK
  <2>4. /\ last' = Recorded(old, req)
        /\ told' = [s \in Side |-> IF s \in S THEN Recorded(old, req)[s].key
                                              ELSE told[s]]
        /\ blurred' \subseteq Side /\ UNCHANGED <<updates, faults, raced>>
    BY <1>2, <2>1 DEF Record, Recorded
  <2>5. QED
    BY <2>1, <2>3, <2>4, RecordedType
<1>3. ASSUME NEW p \in Process, SeedCheck(p)
      PROVE  HistoryType'
  <2>1. (raced \/ (table = {} /\ \E q \in Process : boot[q] = "insert"))
           \in BOOLEAN
    OBVIOUS
  <2>2. QED
    BY <1>1, <1>3, <2>1 DEF SeedCheck, InTrail
<1>4. ASSUME NEW p \in Process, SeedInsert(p)
      PROVE  HistoryType'
  BY <1>1, <1>4 DEF SeedInsert, InTrail
<1>5. ASSUME NEW A, Cut(A)
      PROVE  HistoryType'
  BY <1>1, <1>5 DEF Cut, InTrail
<1>6. ASSUME NEW a \in Admin, NEW req, Read(a, req) \/ Write(a)
      PROVE  HistoryType'
  BY <1>1, <1>6 DEF Read, Write, InTrail
<1>7. CASE CliEnds \/ UNCHANGED vars
  BY <1>1, <1>7 DEF CliEnds, InTrail, vars
<1>8. QED
  BY <1>2, <1>3, <1>4, <1>5, <1>6, <1>7 DEF Next, Raises, Restart, CliDies

(* LLMConfig rows, the updates' locals, the trail and the bookkeeping stay *)
(* in their types: a merge of any row with any payload is a row, and what  *)
(* record writes of it is an event.                                        *)
THEOREM LlmTypes == Spec => []TypeInv
<1>1. Init => ConfigTaskInv /\ SeedInv /\ HistoryType
  BY InitConfig, InitSeed, InitHistory
<1>2. ConfigTaskInv /\ SeedInv /\ HistoryType /\ [Next]_vars
         => (ConfigTaskInv /\ SeedInv /\ HistoryType)'
  BY NextConfig, NextSeed, NextHistory DEF ConfigTaskInv
<1>3. ConfigTaskInv /\ SeedInv /\ HistoryType => TypeInv
  BY DEF ConfigTaskInv, ConfigInv, TaskType, SeedInv, HistoryType, TypeInv
<1>4. QED
  BY <1>1, <1>2, <1>3, PTL DEF Spec

-----------------------------------------------------------------------------
(* What the trail tells. *)

(* The latest event that names side s tells its key. *)
KeyTold(c, s) == told[s] = Mark(c.key)

FieldsTold(c, s) ==
    last # NoEntry => last[s].provider = c.provider /\ last[s].url = c.url

(* An update that no other overlapped is the only one, and knows the row.  *)
AloneInv ==
    \A a \in Admin : task[a] # None /\ task[a].alone =>
        /\ \A b \in Admin : task[b] # None => b = a
        /\ At(a, "write") => task[a].old \in table
        /\ At(a, "audit") => /\ table = {Merged(task[a].old, task[a].req)}
                             /\ \A s \in Side \ blurred :
                                   KeyTold(task[a].old[s], s)

(* While no update stands between its write and its event, the trail tells *)
(* the rows; there is nothing to tell before there is a row.               *)
TellsInv ==
    /\ table = {} =>
          last = NoEntry /\ \A s \in Side : told[s] = <<"not set">>
    /\ (\A a \in Admin : ~At(a, "audit")) =>
          \A d \in table, s \in Side \ blurred :
             KeyTold(d[s], s) /\ FieldsTold(d[s], s)

LEMMA NextAlone ==
    AloneInv /\ TellsInv /\ ConfigTaskInv /\ [Next]_vars => AloneInv'
<1> SUFFICES ASSUME AloneInv, TellsInv, TaskType, [Next]_vars PROVE AloneInv'
  BY DEF ConfigTaskInv
<1> USE DEF At, KeyTold
(* Nobody new, and who goes on is where he was, with less blurred at most. *)
<1>1. ASSUME table' = table, told' = told, blurred' \in {blurred, Side},
             \A a \in Admin : task'[a] \in {task[a], None}
      PROVE  AloneInv'
  BY <1>1 DEF AloneInv
<1>2. ASSUME NEW A, Cut(A)
      PROVE  AloneInv'
  BY <1>1, <1>2 DEF Cut, InTrail
<1>3. ASSUME UNCHANGED <<table, task, told, blurred>>
      PROVE  AloneInv'
  BY <1>1, <1>3
<1>4. ASSUME NEW p \in Process, SeedInsert(p)
      PROVE  AloneInv'
  <2>1. ASSUME NEW a \in Admin, task'[a] # None
        PROVE  ~task'[a].alone
    <3>1. task[a] \in Task /\ task'[a] = [task[a] EXCEPT !.alone = FALSE]
      BY <1>4, <2>1 DEF SeedInsert, TaskType
    <3>2. QED
      BY <3>1 DEF Task
  <2>2. QED
    BY <2>1 DEF AloneInv
<1>5. ASSUME NEW a \in Admin, NEW req \in [Side -> Offers \cup {None}],
             Read(a, req)
      PROVE  AloneInv'
  <2>1. PICK d \in table : task' = [b \in Admin |->
            IF b = a THEN [pc |-> "write", old |-> d, req |-> req,
                           alone |-> Active = {}]
            ELSE IF task[b] = None THEN None
            ELSE [task[b] EXCEPT !.alone = FALSE]]
    BY <1>5 DEF Read
  <2>2. table' = table
    BY <1>5 DEF Read
  <2>3. ASSUME NEW b \in Admin, b # a, task'[b] # None
        PROVE  ~task'[b].alone /\ Active # {}
    <3>1. task[b] \in Task /\ task'[b] = [task[b] EXCEPT !.alone = FALSE]
          /\ task[b] # None
      BY <2>1, <2>3 DEF TaskType
    <3>2. QED
      BY <3>1 DEF Task, Active
  <2>4. task'[a].pc = "write" /\ task'[a].old \in table'
        /\ (task'[a].alone => Active = {})
    BY <2>1, <2>2
  <2>5. QED
    BY <2>3, <2>4 DEF AloneInv
<1>6. ASSUME NEW a \in Admin, Write(a)
      PROVE  AloneInv'
  <2>1. /\ task[a] \in Task /\ task[a] # None /\ task[a].pc = "write"
        /\ task' = [task EXCEPT ![a].pc = "audit"]
        /\ table' = {Merged(task[a].old, task[a].req)}
        /\ told' = told /\ (task[a].alone => blurred' = blurred)
    BY <1>6 DEF Write, TaskType, InTrail
  <2>2. /\ \A b \in Admin : b # a => task'[b] = task[b]
        /\ task'[a] = [task[a] EXCEPT !.pc = "audit"]
    BY <2>1 DEF TaskType
  <2>3. /\ task'[a].old = task[a].old /\ task'[a].req = task[a].req
        /\ task'[a].alone = task[a].alone /\ task'[a].pc = "audit"
    BY <2>1, <2>2 DEF Task
  <2>4. ASSUME task[a].alone
        PROVE  /\ \A b \in Admin : task'[b] # None => b = a
               /\ \A s \in Side \ blurred' : KeyTold(task[a].old[s], s)'
    <3>1. /\ task[a].old \in table
          /\ \A b \in Admin : task[b] # None => b = a
      BY <2>1, <2>4 DEF AloneInv
    <3>2. \A b \in Admin : ~At(b, "audit")
      BY <2>1, <3>1
    <3>3. \A s \in Side \ blurred : KeyTold(task[a].old[s], s)
      BY <3>1, <3>2 DEF TellsInv
    <3>4. QED
      BY <2>1, <2>2, <2>4, <3>1, <3>3
  <2>5. ASSUME NEW b \in Admin, b # a, task'[b] # None
        PROVE  ~task'[b].alone
    BY <2>1, <2>2, <2>5 DEF AloneInv
  <2>6. QED
    BY <2>1, <2>3, <2>4, <2>5 DEF AloneInv
<1>7. ASSUME NEW a \in Admin, Record(a)
      PROVE  AloneInv'
  <2>1. /\ task[a] # None /\ task' = [task EXCEPT ![a] = None]
    BY <1>7 DEF Record
  <2>2. \A b \in Admin : task'[b] # None => b # a /\ task'[b] = task[b]
    BY <2>1 DEF TaskType
  <2>3. QED
    BY <2>1, <2>2 DEF AloneInv
<1>8. CASE UNCHANGED vars
  BY <1>3, <1>8 DEF vars
<1>9. QED
  BY <1>2, <1>3, <1>4, <1>5, <1>6, <1>7, <1>8
     DEF Next, SeedCheck, CliEnds, CliDies, Restart, Raises, InTrail

(* What an update that nobody overlapped records is what it wrote, but for *)
(* the key of a side whose payload has none: that was told before.         *)
LEMMA RecordTells ==
    ASSUME AloneInv, ConfigTaskInv, NEW a \in Admin, Record(a),
           task[a].alone, NEW d \in table', NEW s \in Side \ blurred'
    PROVE  KeyTold(d[s], s)' /\ FieldsTold(d[s], s)'
<1>0. PICK old, req, S : /\ old = task[a].old /\ req = task[a].req
                         /\ S = SecretSides(old, req)
  OBVIOUS
<1>1. /\ task[a] # None /\ task[a].pc = "audit" /\ table' = table
      /\ last' = Recorded(old, req) /\ blurred' = blurred \ S
      /\ told' = [x \in Side |-> IF x \in S THEN Recorded(old, req)[x].key
                                            ELSE told[x]]
  BY <1>0 DEF Record, At, Recorded
<1>2. old \in [Side -> Config] /\ req \in Request /\ s \in Side
  BY <1>0, <1>1 DEF ConfigTaskInv, ConfigInv, TaskOK
<1>3. d = Merged(old, req) /\ (s \notin blurred => KeyTold(old[s], s))
  BY <1>0, <1>1 DEF AloneInv, At
<1>4. CASE req[s] = None
  <2>1. d[s] = old[s] /\ s \notin S
    BY <1>0, <1>2, <1>3, <1>4 DEF Merged, SecretSides
  <2>2. last'[s] = [provider |-> old[s].provider, url |-> old[s].url,
                    key |-> ViewKey(old[s])]
    BY <1>1, <1>2, <1>4, RecordedFields
  <2>3. told'[s] = told[s] /\ KeyTold(old[s], s)
    BY <1>1, <1>2, <1>3, <2>1
  <2>4. QED
    BY <2>1, <2>2, <2>3 DEF KeyTold, FieldsTold
<1>5. CASE req[s] # None
  <2>1. req[s] \in Payload /\ old[s] \in Config
    BY <1>2, <1>5 DEF Request
  <2>2. /\ d[s].provider = req[s].provider /\ d[s].url = req[s].url
        /\ d[s].key = NewKey(old[s], req[s])
    BY <1>2, <1>3, <1>5, <2>1, AppliedFields DEF Merged
  <2> DEFINE k == IF req[s].key = None THEN ViewKey(old[s])
                                       ELSE Mark(req[s].key)
  <2>3. last'[s] = [provider |-> req[s].provider, url |-> req[s].url,
                    key |-> k]
    BY <1>1, <1>2, <1>5, RecordedFields
  <2>4. s \in S <=> req[s].key # None
    BY <1>0, <1>2, <1>5 DEF SecretSides
  <2>5. CASE req[s].key = None
    <3>1. told'[s] = told[s] /\ KeyTold(old[s], s)
      BY <1>1, <1>2, <1>3, <2>4, <2>5
    <3>2. d[s].key = old[s].key
      BY <2>2, <2>5 DEF NewKey
    <3>3. KeyTold(d[s], s)'
      BY <3>1, <3>2 DEF KeyTold
    <3> HIDE DEF k
    <3>4. QED
      BY <2>2, <2>3, <3>3 DEF FieldsTold
  <2>6. CASE req[s].key # None
    <3>1. told'[s] = Mark(req[s].key)
      <4>1. k = Mark(req[s].key)
        BY <2>6
      <4>2. told'[s] = last'[s].key
        BY <1>1, <1>2, <2>4, <2>6
      <4> HIDE DEF k
      <4>3. QED
        BY <2>3, <4>1, <4>2
    <3>2. Mark(d[s].key) = Mark(req[s].key)
      <4>1. d[s].key = IF req[s].key = Empty THEN None ELSE req[s].key
        BY <2>2, <2>6 DEF NewKey
      <4>2. Mark(None) = Mark(Empty)
        BY DEF Mark
      <4>3. QED
        BY <4>1, <4>2
    <3> HIDE DEF k
    <3>3. QED
      BY <2>2, <2>3, <3>1, <3>2 DEF KeyTold, FieldsTold
  <2>7. QED
    BY <2>5, <2>6
<1>6. QED
  BY <1>4, <1>5

LEMMA NextTells ==
    AloneInv /\ TellsInv /\ ConfigTaskInv /\ SeedInv /\ [Next]_vars => TellsInv'
<1> SUFFICES ASSUME AloneInv, TellsInv, ConfigTaskInv, SeedInv, [Next]_vars
             PROVE  TellsInv'
  OBVIOUS
<1>0. TaskType
  BY DEF ConfigTaskInv
<1> USE <1>0 DEF At, KeyTold, FieldsTold
(* An update that stays keeps its place; one at its event that goes blurs. *)
<1>1. ASSUME UNCHANGED <<table, last, told>>, blurred' \in {blurred, Side},
             blurred' = Side \/ \A a \in Admin : At(a, "audit") => At(a, "audit")'
      PROVE  TellsInv'
  BY <1>1 DEF TellsInv
<1>2. ASSUME NEW A, Cut(A)
      PROVE  TellsInv'
  BY <1>1, <1>2 DEF Cut, InTrail
<1>3. ASSUME UNCHANGED <<table, task, last, told, blurred>>
      PROVE  TellsInv'
  BY <1>1, <1>3
<1>4. ASSUME NEW p \in Process, SeedInsert(p)
      PROVE  TellsInv'
  <2>1. /\ table' = table \cup {Seed} /\ UNCHANGED <<last, told>>
        /\ table # {} => blurred' = Side
    BY <1>4 DEF SeedInsert, InTrail
  <2>2. CASE table = {}
    <3>1. \A s \in Side : Seed[s].key = None
      BY DEF Seed
    <3>2. \A s \in Side : told[s] = Mark(None)
      BY <2>2 DEF TellsInv, Mark
    <3>3. last' = NoEntry
      BY <2>1, <2>2 DEF TellsInv
    <3>4. NoEntry' = NoEntry
      BY DEF NoEntry
    <3>5. QED
      BY <2>1, <2>2, <3>1, <3>2, <3>3, <3>4 DEF TellsInv
  <2>3. CASE table # {}
    BY <2>1, <2>3 DEF TellsInv
  <2>4. QED
    BY <2>2, <2>3
<1>5. ASSUME NEW a \in Admin, NEW req \in [Side -> Offers \cup {None}],
             Read(a, req)
      PROVE  TellsInv'
  <2>1. task[a] = None /\ UNCHANGED <<table, last, told, blurred>>
    BY <1>5 DEF Read, InTrail
  <2>2. ASSUME NEW b \in Admin, At(b, "audit")
        PROVE  At(b, "audit")'
    <3>1. task[b] \in Task /\ task'[b] = [task[b] EXCEPT !.alone = FALSE]
      BY <1>5, <2>1, <2>2 DEF Read, TaskType
    <3>2. task'[b] \in Task /\ task'[b].pc = "audit"
      BY <2>2, <3>1 DEF Task
    <3>3. QED
      BY <3>2, NoneAssumption
  <2>3. QED
    BY <1>1, <2>1, <2>2
<1>6. ASSUME NEW a \in Admin, Write(a)
      PROVE  TellsInv'
  <2>1. /\ task[a] \in Task /\ task'[a] = [task[a] EXCEPT !.pc = "audit"]
        /\ table' # {}
    BY <1>6 DEF Write, TaskType
  <2>2. task'[a] \in Task /\ task'[a].pc = "audit"
    BY <2>1 DEF Task
  <2>3. QED
    BY <2>1, <2>2, NoneAssumption DEF TellsInv
<1>7. ASSUME NEW a \in Admin, Record(a)
      PROVE  TellsInv'
  <2>1. table' = table /\ table # {} /\ (~task[a].alone => blurred' = Side)
    BY <1>7 DEF Record, SeedInv
  <2>2. CASE task[a].alone
    BY <1>7, <2>1, <2>2, RecordTells DEF TellsInv
  <2>3. CASE ~task[a].alone
    BY <2>1, <2>3 DEF TellsInv
  <2>4. QED
    BY <2>2, <2>3
<1>8. CASE UNCHANGED vars
  BY <1>3, <1>8 DEF vars
<1>9. QED
  BY <1>2, <1>3, <1>4, <1>5, <1>6, <1>7, <1>8
     DEF Next, SeedCheck, CliEnds, CliDies, Restart, Raises, InTrail

LEMMA InitTells == Init => AloneInv /\ TellsInv
BY DEF Init, AloneInv, TellsInv

LlmInv == ConfigTaskInv /\ SeedInv /\ AloneInv /\ TellsInv

LEMMA LlmInvHolds == Spec => []LlmInv
<1>1. Init => LlmInv
  BY InitConfig, InitSeed, InitTells DEF LlmInv
<1>2. LlmInv /\ [Next]_vars => LlmInv'
  BY NextConfig, NextSeed, NextAlone, NextTells DEF LlmInv, ConfigTaskInv
<1>3. QED
  BY <1>1, <1>2, PTL DEF Spec

(* Whenever no update is under way, the events of AdminAuditService tell   *)
(* the providers, addresses and keys LLMConfig holds, on every side that   *)
(* no overlap, second seeding or lost event blurred: secret_audit_fields   *)
(* names a key exactly when _apply_fields may change it.                   *)
THEOREM TrailAlwaysTellsConfig == Spec => []TrailTellsConfig
<1>1. LlmInv => TrailTellsConfig
  BY DEF LlmInv, TellsInv, KeyTold, FieldsTold, TrailTellsConfig, Active, At
<1>2. QED
  BY <1>1, LlmInvHolds, PTL

(* update writes back the whole row it read; if no other update overlapped *)
(* it, the side its payload does not name stays what it was.               *)
THEOREM SidesOnlyChangeOnPurpose == Spec => SidesChangeOnPurpose
<1>1. LlmInv /\ [Next]_vars
         => [\A a \in Admin, s \in Side :
                At(a, "write") /\ At(a, "audit")' /\ task[a].alone
                /\ task[a].req[s] = None
                => {d[s] : d \in table'} \subseteq {d[s] : d \in table}]_vars
  <2> SUFFICES ASSUME LlmInv, [Next]_vars, NEW a \in Admin, NEW s \in Side,
                      At(a, "write"), At(a, "audit")', task[a].alone,
                      task[a].req[s] = None
               PROVE  {d[s] : d \in table'} \subseteq {d[s] : d \in table}
    OBVIOUS
  <2>1. TaskType /\ AloneInv
    BY DEF LlmInv, ConfigTaskInv
  <2>2. CASE table' = table
    BY <2>2
  <2>3. ASSUME NEW p \in Process, SeedInsert(p)
        PROVE  FALSE
    <3>1. task[a] \in Task /\ task'[a] = [task[a] EXCEPT !.alone = FALSE]
      BY <2>1, <2>3 DEF SeedInsert, At, TaskType
    <3>2. QED
      BY <3>1 DEF Task, At
  <2>4. ASSUME NEW b \in Admin, Write(b)
        PROVE  b = a
    BY <2>1, <2>4 DEF Write, At, TaskType
  <2>5. CASE Write(a)
    <3>1. task[a].old \in table
      BY <2>1 DEF AloneInv, At
    <3>2. table' = {Merged(task[a].old, task[a].req)}
      BY <2>5 DEF Write
    <3>3. Merged(task[a].old, task[a].req)[s] = task[a].old[s]
      BY DEF Merged
    <3>4. QED
      BY <3>1, <3>2, <3>3
  <2>6. QED
    BY <2>2, <2>3, <2>4, <2>5 DEF Next, SeedCheck, CliEnds, CliDies, Restart,
       Cut, Read, Record, Raises, vars
<1>2. QED
  BY <1>1, LlmInvHolds, PTL DEF Spec, SidesChangeOnPurpose

=============================================================================
