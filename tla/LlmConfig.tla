----------------------------- MODULE LlmConfig -----------------------------
(***************************************************************************)
(* LLMService on the LLMConfig singleton, with the audit trail's masking   *)
(* of the api keys and the seeding at bootstrap.  An update reads the row, *)
(* merges its payload into it, writes the whole row, records the change    *)
(* and reads the row back: four awaits, no lock and no version.            *)
(***************************************************************************)
EXTENDS Integers, FiniteSets

CONSTANTS
    Side,      \* inference, embedding
    Admin,     \* PUT /admin/llm requests that may be under way
    Url, Key,  \* values of base_url and of api_key
    Offers,    \* bound: the payloads of one side an administrator may send
    Empty,     \* ""
    Existing,  \* "<existing>", the audit view's word for a stored key
    None,
    MaxUpdates, MaxFaults   \* bounds

ASSUME DistinctAssumption ==
    /\ {Empty, None} \cap (Url \cup Key) = {}
    /\ Existing \notin Key \cup {Empty, None}
    /\ Empty # None
ASSUME OffersAssumption ==
    Offers \subseteq [provider : {"ollama", "openai-compatible", "openai"},
                     url : Url \cup {Empty}, key : Key \cup {Empty, None}]
ASSUME UrlAssumption == Url # {}
ASSUME BoundsAssumption == MaxUpdates \in Nat /\ MaxFaults \in Nat

VARIABLES
    table,   \* the LLMConfig rows; rows that are equal count as one
    boot,    \* ensure_admin_schema, in the Hub and in the CLI
    task,    \* the updates
    last,    \* the latest AdminAuditEvent: its after
    told,    \* what the latest event that masks a side's api key says of it
    updates, faults,
    raced,   \* history: both processes found the table empty
    cleared, \* history: the sides whose stored key an update cleared
    blurred  \* history: the sides of which the trail may be wrong

vars == <<table, boot, task, last, told, updates, faults,
          raced, cleared, blurred>>

-----------------------------------------------------------------------------
(* The provider catalog.  Every provider requires "model", every update    *)
(* gives one, and it goes where base_url goes: it is left out.             *)

Provider == {"ollama", "openai-compatible", "openai"}
NeedsUrl == {"ollama", "openai-compatible"}
TakesKey == {"openai-compatible", "openai"}
NeedsKey == {"openai"}

(* One side of the row, key None for no api_key_encrypted; and of a        *)
(* request, key None for a payload without api_key.                        *)
Config == [provider : Provider, url : Url \cup {Empty}, key : Key \cup {None}]
Payload == [provider : Provider, url : Url \cup {Empty},
            key : Key \cup {Empty, None}]

(* Variant: only a field that is absent counts as missing. *)
AcceptsEmpty(old, p) ==
    /\ p.key # None => p.provider \in TakesKey
    /\ p.provider \in NeedsKey => p.key # None \/ old.key # None

(* _validate_payload_keys, _validate_required_fields. *)
Accepts(old, p) ==
    /\ p.key # None => p.provider \in TakesKey
    /\ p.provider \in NeedsUrl => p.url # Empty
    /\ p.provider \in NeedsKey => p.key \in Key \/ old.key # None

(* Variant: a provider that takes no key ends the stored one. *)
AppliedDropping(old, p) ==
    [provider |-> p.provider, url |-> p.url,
     key |-> IF p.key \in Key THEN p.key
             ELSE IF p.key = Empty \/ p.provider \notin TakesKey THEN None
             ELSE old.key]

(* _apply_fields: a key that is not given is kept, whatever the provider. *)
Applied(old, p) ==
    [provider |-> p.provider, url |-> p.url,
     key |-> IF p.key = None THEN old.key
             ELSE IF p.key = Empty THEN None ELSE p.key]

(* Variant: the row is rebuilt from the defaults. *)
MergedAfresh(old, req) ==
    [s \in Side |-> IF req[s] = None
                    THEN [provider |-> "ollama", url |-> old[s].url,
                          key |-> None]
                    ELSE Applied(old[s], req[s])]

Merged(old, req) ==
    [s \in Side |-> IF req[s] = None THEN old[s] ELSE Applied(old[s], req[s])]

-----------------------------------------------------------------------------
(* The audit trail. *)

(* _audit_view: the fields of the row's provider, without the key's value. *)
View(doc) ==
    [s \in Side |-> [doc[s] EXCEPT
        !.key = IF doc[s].provider \in TakesKey /\ @ # None THEN Existing
                                                            ELSE None]]

(* _apply_fields on the view: key None if the document has no such field. *)
Changed(view, req) ==
    [s \in Side |-> IF req[s] = None THEN view[s]
        ELSE [req[s] EXCEPT !.key = IF @ = None THEN view[s].key ELSE @]]

(* Variant: a key that has not been stored before is not listed. *)
StoredSecretSides(old, req) ==
    {s \in Side : req[s] # None /\ req[s].key # None /\ old[s].key # None}

(* secret_audit_fields: the sides whose payload has an api_key. *)
SecretSides(old, req) == {s \in Side : req[s] # None /\ req[s].key # None}

(* Variant: the value stands in for its fingerprint. *)
MarkPlainly(v) == IF v \in {Empty, None} THEN <<"not set">> ELSE v

(* _mark_secret: a fingerprint, which tells one key from another. *)
Mark(v) == IF v \in {Empty, None} THEN <<"not set">> ELSE <<"set", v>>

(* _mask_secrets. *)
Masked(view, S) ==
    [s \in Side |-> [view[s] EXCEPT !.key = IF s \in S /\ @ # None
                                            THEN Mark(@) ELSE @]]

Marks == {<<"not set">>} \cup ({"set"} \X (Key \cup {Existing}))

(* A fingerprint is no key. *)
ASSUME MarkAssumption == Marks \cap (Key \cup {Empty}) = {}

Entry == [Side -> [provider : Provider, url : Url \cup {Empty},
                   key : Marks \cup {Existing, None}]]
NoEntry == [s \in Side |-> None]

-----------------------------------------------------------------------------
(* old is the row an update read, alone that no other update overlapped    *)
(* it (history).                                                           *)
Task == [pc : {"write", "audit"}, old : [Side -> Config],
         req : [Side -> Payload \cup {None}], alone : BOOLEAN]

ASSUME NoneAssumption == None \notin Task

Process == {"hub", "cli"}

TypeInv ==
    /\ table \subseteq [Side -> Config]
    /\ boot \in [Process -> {"down", "insert", "up"}]
    /\ task \in [Admin -> Task \cup {None}]
    /\ last \in Entry \cup {NoEntry}
    /\ told \in [Side -> Marks]
    /\ updates \in Nat /\ faults \in Nat /\ raced \in BOOLEAN
    /\ cleared \subseteq Side /\ blurred \subseteq Side

Init ==
    /\ table = {}
    /\ boot = [p \in Process |-> "down"]
    /\ task = [a \in Admin |-> None]
    /\ last = NoEntry
    /\ told = [s \in Side |-> <<"not set">>]
    /\ updates = 0 /\ faults = 0
    /\ raced = FALSE /\ cleared = {} /\ blurred = {}

Active == {a \in Admin : task[a] # None}
At(a, pc) == task[a] # None /\ task[a].pc = pc
InTrail == UNCHANGED <<last, told>>

-----------------------------------------------------------------------------
(* ensure_admin_schema. *)

(* Variant: the configuration is seeded whether or not there is one. *)
SeedCheckNot(p) ==
    /\ boot[p] = "down"
    /\ boot' = [boot EXCEPT ![p] = "insert"]
    /\ raced' = (raced \/ "insert" \in {boot[q] : q \in Process})
    /\ UNCHANGED <<table, task, updates, faults, cleared, blurred>> /\ InTrail

(* Is there a configuration? *)
SeedCheck(p) ==
    /\ boot[p] = "down"
    /\ boot' = [boot EXCEPT ![p] = IF table = {} THEN "insert" ELSE "up"]
    /\ raced' = (raced \/ (table = {} /\ \E q \in Process : boot[q] = "insert"))
    /\ UNCHANGED <<table, task, updates, faults, cleared, blurred>> /\ InTrail

Seed == [s \in Side |-> [provider |-> "ollama", key |-> None,
                         url |-> CHOOSE u \in Url : TRUE]]

(* INSERT INTO LLMConfig, however long after the check. *)
SeedInsert(p) ==
    /\ boot[p] = "insert"
    /\ boot' = [boot EXCEPT ![p] = "up"]
    /\ table' = table \cup {Seed}
    /\ task' = [a \in Admin |-> IF task[a] = None THEN None
                                ELSE [task[a] EXCEPT !.alone = FALSE]]
    /\ blurred' = IF table = {} THEN blurred ELSE Side
    /\ UNCHANGED <<updates, faults, raced, cleared>> /\ InTrail

(* The CLI's process ends; its next run checks again. *)
CliEnds ==
    /\ boot["cli"] = "up"
    /\ boot' = [boot EXCEPT !["cli"] = "down"]
    /\ UNCHANGED <<table, task, updates, faults, raced, cleared, blurred>>
    /\ InTrail

-----------------------------------------------------------------------------
(* LLMService.update. *)

(* The row is read and the payload checked against it.  An update that is  *)
(* refused changes nothing.  Bound MaxUpdates.                             *)
Read(a, req) ==
    /\ boot["hub"] = "up"
    /\ task[a] = None
    /\ updates < MaxUpdates
    /\ \E s \in Side : req[s] # None
    /\ \E d \in table :
          /\ \A s \in Side : req[s] # None => Accepts(d[s], req[s])
          /\ task' = [b \in Admin |->
                IF b = a THEN [pc |-> "write", old |-> d, req |-> req,
                               alone |-> Active = {}]
                ELSE IF task[b] = None THEN None
                ELSE [task[b] EXCEPT !.alone = FALSE]]
    /\ updates' = updates + 1
    /\ UNCHANGED <<table, boot, faults, raced, cleared, blurred>> /\ InTrail

Clears(a) == {s \in Side : /\ task[a].req[s] # None
                           /\ task[a].req[s].key = Empty
                           /\ task[a].old[s].key # None}

(* UPDATE LLMConfig CONTENT ... WHERE id = 'default': every row. *)
Write(a) ==
    /\ At(a, "write")
    /\ table' = {Merged(task[a].old, task[a].req)}
    /\ task' = [task EXCEPT ![a].pc = "audit"]
    /\ cleared' = cleared \cup Clears(a)
    /\ blurred' = IF task[a].alone THEN blurred ELSE Side
    /\ UNCHANGED <<boot, updates, faults, raced>> /\ InTrail

(* AdminAuditService.record; before is no more than View(old).  The row is *)
(* then read back for the reply, which changes nothing.                    *)
Record(a) ==
    LET t == task[a]
        S == SecretSides(t.old, t.req)
        after == Masked(Changed(View(t.old), t.req), S)
    IN  /\ At(a, "audit")
        /\ last' = after
        /\ told' = [s \in Side |-> IF s \in S THEN after[s].key ELSE told[s]]
        /\ task' = [task EXCEPT ![a] = None]
        /\ blurred' = IF t.alone THEN blurred \ S ELSE Side
        /\ UNCHANGED <<table, boot, updates, faults, raced, cleared>>

Cut(A) ==
    /\ faults < MaxFaults /\ faults' = faults + 1
    /\ task' = [a \in Admin |-> IF a \in A THEN None ELSE task[a]]
    /\ blurred' = IF \E a \in A : At(a, "audit") THEN Side ELSE blurred
    /\ UNCHANGED <<table, updates, raced, cleared>> /\ InTrail

(* A call to ArcadeDB raises. *)
Raises(a) == task[a] # None /\ Cut({a}) /\ UNCHANGED boot

(* The Hub stops and starts, or the CLI's process dies. *)
Restart == Cut(Active) /\ boot' = [boot EXCEPT !["hub"] = "down"]
CliDies == boot["cli"] = "insert" /\ Cut({})
           /\ boot' = [boot EXCEPT !["cli"] = "down"]

Next ==
    \/ \E p \in Process : SeedCheck(p) \/ SeedInsert(p)
    \/ CliEnds \/ CliDies \/ Restart
    \/ \E a \in Admin :
          \/ \E req \in [Side -> Offers \cup {None}] : Read(a, req)
          \/ Write(a) \/ Record(a) \/ Raises(a)

Spec == Init /\ [][Next]_vars

-----------------------------------------------------------------------------
(* Every configuration ever stored has the fields its providers require,   *)
(* through all switches of provider and all overlapping updates: a key     *)
(* stored for one provider serves the next, and only an update that        *)
(* cleared a stored key can leave OpenAI without one.                      *)
RequiredFieldsFilled ==
    \A d \in table, s \in Side :
        /\ d[s].provider \in NeedsUrl => d[s].url # Empty
        /\ d[s].provider \in NeedsKey => d[s].key # None \/ s \in cleared

(* No api key is in the audit trail as such, be it a first key or another. *)
NoKeyInTrail ==
    last # NoEntry => \A s \in Side : last[s].key \notin Key \cup {Empty}

(* While no update is under way, the trail tells the configuration: the    *)
(* latest event the providers and addresses, the latest event that names   *)
(* it each key, even if providers without a key came in between.  Updates  *)
(* that overlapped, or ended before their event, may blur it.              *)
TrailTellsConfig ==
    Active = {} /\ last # NoEntry =>
        \A d \in table, s \in Side \ blurred :
            /\ last[s].provider = d[s].provider
            /\ last[s].url = d[s].url
            /\ told[s] = Mark(d[s].key)

(* There is one configuration, and no restart and no create-admin puts the *)
(* defaults beside what an administrator saved, unless Hub and CLI first   *)
(* met on the empty table.                                                 *)
OneConfiguration == Cardinality(table) <= 1 \/ raced

(* An update that overlaps no other changes no side it does not name. *)
SidesChangeOnPurpose ==
    [][\A a \in Admin, s \in Side :
          At(a, "write") /\ At(a, "audit")' /\ task[a].alone
          /\ task[a].req[s] = None
          => {d[s] : d \in table'} \subseteq {d[s] : d \in table}]_vars

=============================================================================
