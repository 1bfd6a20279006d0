# Lehen Hub: TLA+ models and proofs

Lehen's *Hub* (`src/hub`, Python, FastAPI over ArcadeDB) decides who may connect
to which integration and keeps the tokens of those connections. The *Edge*
(`src/edge`, Tauri and React) is the user's desktop application. This directory
models the Hub in four specifications that share no variables:

- **the ledger** (`Hub`): connections, the two gates in front of them, the cascades
  that revoke connections when a gate closes, the records that say who did what;
- **the tokens** (`TokenLifecycle`): what becomes of the credentials of a connection
  as they expire, are refreshed, revoked and wiped;
- **the admin surface** (`AdminAccess`): the key cache behind bearer tokens, the
  break-glass account, and the hook that disables it;
- **the LLM configuration** (`LlmConfig`): one document, updated by whoever is first.

Contents: [the system](#the-system), [the modules](#the-modules),
[how the code becomes actions](#how-the-code-becomes-actions),
[the runs](#the-runs), [disagreements found](#disagreements-found),
[the proofs](#the-proofs), [what is not modelled](#what-is-not-modelled),
[the plan](#the-plan).

Paths below are relative to `src/hub/src/lehen_hub` unless they begin with `src/`.

## The system

| Component | State | Operations | What makes it correct |
|---|---|---|---|
| **Connection ledger** `user/connections_service.py`, `api/me_connections.py` | `IntegrationConnection` rows (never deleted; *live* while `disconnected_at` is null), `ConsentEvent` rows | `grant`, `initiate_grant`, `complete_grant`, `revoke`, `revoke_all_for_instance`, `revoke_for_users_no_longer_authorized`, `get_valid_access_token` | at most one live row per user, instance and account; ids unique; tokens belong to the row's user and account; every change of a row leaves a consent event; nothing live behind a closed gate |
| **Integration instances** `admin/integrations_service.py` (gate 1) | `IntegrationInstance` rows with an `enabled` flag | `create`, `update`, `delete` | a disable or delete revokes what is connected; a retry finishes what a crash cut short |
| **SIAM mapping** `admin/siam_service.py` (gate 2) | the `SIAMMapping` row: role to instances | `get`, `replace` | a replace revokes what it no longer authorizes; one mapping is saved |
| **Admin audit trail** `admin/audit_service.py`, `crypto/audit_fingerprint.py` | `AdminAuditEvent` rows | `record` | the latest event tells the state; secrets are fingerprints |
| **OAuth helper** `auth/oauth.py`, `integrations/source_adapter.py` | none of its own: the state envelope carries user, instance, PKCE verifier and time of issue, encrypted | build the URL, encode and decode a state, exchange a code, refresh | a state completes only its user's connection to its instance, and only while young |
| **Database client and bootstrap** `storage/arcade.py`, `storage/bootstrap.py` | the HTTP client; document types, no unique index | `query`, `command`, schema creation, seeding | bootstrap repeatable |
| **Local admin** `admin/local_admin_service.py`, `auth/local_jwt.py`, `auth/dependencies.py`, `cli.py` | the `LocalAdmin` row (password, enabled, failed attempts, lockout), login events, sliding windows and an auto-disable flag in process memory | login, auto-disable on the first SIAM admin login, rotation from the command line | no token without an enabled, unlocked row; lockout after the threshold; a limit per address and per username; the bootstrap account is disabled once a SIAM administrator is in |
| **JWKS cache and token verification** `auth/jwks.py`, `auth/jwt.py`, `auth/identity_provider.py` | keys, time of fetch, negative window, a lock | `get_keys`, `warm`, `invalidate` | one fetch per expiry; no fetch in a negative window (it is not kept, see the [disagreements](#disagreements-found)); keys never older than the TTL |
| **MeService** `user/me_service.py` | `LoginEvent` rows | the user's view of instances and connections | shows an instance only if both gates are open |
| **LLM configuration** `admin/llm_service.py`, `llm/providers.py` | the `LLMConfig` singleton with secrets per side | get, replace | a masked secret keeps its value; an unmasked one replaces it |
| **Type registry** `integrations/registry.py` | a static table | validation, cardinality | a `single` type has one active connection per user |
| **Secret encryption** `crypto/secrets.py` | the master key | encrypt, decrypt (AES-GCM) | a library's |
| **HTTP application** `main.py`, `config.py`, `logging.py`, `api/` | `app.state` | wiring, routes | both cascades are wired to the services that close the gates |
| **Web pages** `admin_ui/app.js`, `user_ui/app.js` | forms | calls of the API | |
| **Edge** `src/edge/src`, `src/edge/src-tauri/src` | the bearer, the pending connect instance, pending PKCE flows in session storage, keyring entries | login, connect, deep links | a callback is applied to the flow and the instance it was started for |
| **Operations** `src/ops` | a Keycloak realm, containers | set-up scripts | |

**Interactions.** An HTTP request becomes one coroutine in the Hub's event loop.
It reads and writes ArcadeDB with one HTTP call per statement and keeps what it
read in local variables. `main.py:134-143` hands two functions of
`UserConnectionsService` to `IntegrationsService` and `SIAMService`, which call
them after closing a gate. `complete_grant` calls the identity provider in
between. No lock guards the tables, and there is no transaction and no unique index: two coroutines
may alternate at every `await`, and a coroutine may end at every `await` when the
process stops or a statement raises.

The other three groups meet the same event loop. `get_valid_access_token` reads a
row, asks the source system for fresh tokens and writes the answer into whatever
the row has become. Bearer tokens are verified with keys fetched under an
`asyncio.Lock`, the one lock of the Hub. The first SIAM administrator a process sees
disables the local account, while the `create-admin` command, a process of its own,
writes the same row. An LLM update writes a whole document it read earlier.

**What is hard.** A check and the write it protects are several awaits apart
(duplicate and INSERT, gate and INSERT, the highest sequence number and INSERT).
`update` and `replace` write documents they read earlier. A cascade is a query and
then two statements per row. The effect that matters (*the instance is disabled,
so nobody is connected to it*) spans two services and two tables. Users may
post any state, code and instance they have seen. `PROJECT.json` lists each
hazard with its line and the properties that watch it.

## The modules

| Module | Models | Extends |
|---|---|---|
| `HubDb` | the tables, the requests under way, queries, and one turn of a revoke loop | |
| `Connections` | `UserConnectionsService` as users see it: grant, the two-step OAuth grant, revoke; the identity provider (external) | `HubDb` |
| `AdminCascades` | `IntegrationsService`, `SIAMService`, the two cascades | `HubDb` |
| `Hub` | all of them interleaving, requests cut short, fairness, the properties, the refinement mapping | `Connections`, `AdminCascades` |
| `Ledger` | the abstract specification: two gates and a set of active connections, closing a gate disconnects in the same step | |
| `Warrants` | the abstract specification that every interleaving keeps to: a request earns what it does step by step (gate, mapping, duplicate query, insert, log; order, sentence, close, log) | |
| `MCHub` | values for the constants | `Hub` |
| `HubProofs` | type correctness | `Hub`, `TLAPS` |
| `HubTrailProofs` | completeness of the consent trail | `HubProofs` |
| `HubGrantProofs` | what grants insert: what breaks their uniqueness and what does not, and whose tokens a row holds | `HubTrailProofs` |
| `HubAdminProofs` | what one administrator achieves: the sweeps of both cascades, the admin trail | `HubGrantProofs` |
| `HubWarrantProofs` | what every interleaving keeps to: the refinement of `Warrants` | `HubGrantProofs` |
| `TokenLifecycle` | exchange and insert, `get_valid_access_token`, revocations, `GET /me` over one user's connections to one instance; the source system (external) | |
| `MCTokens` | symmetry | `TokenLifecycle` |
| `TokenProofs` | its invariants | `TokenLifecycle`, `TLAPS` |
| `HubClock` | the clock and the event budget of the admin surface | |
| `JwksCache` | `JWKSCache` and the key lookup of `decode_and_verify`; the identity provider's key set (external) | `HubClock` |
| `LocalAdmin` | `LocalAdminService.login` with both rate limits and lockout, for accounts of several names; the `create-admin` command | `HubClock` |
| `AdminAccess` | both, joined by `require_admin` and its auto-disable hook, in a process that restarts | `JwksCache`, `LocalAdmin` |
| `MCAdmin` | symmetry | `AdminAccess` |
| `AdminProofs` | its invariants: keys, lock, one fetch per expiry, auto-disable, lockout, rate limit | `AdminAccess`, `FiniteSetTheorems`, `TLAPS` |
| `LlmConfig` | `LLMService.update`, the provider catalog, the masking of api keys in the trail, the seeding at bootstrap | |
| `MCLlm` | the payloads offered | `LlmConfig` |
| `LlmProofs` | its invariants and action property | `LlmConfig`, `FiniteSetTheorems`, `TLAPS` |

A definition whose comment begins with *Variant* is no part of the model. It is a
plausible mistake in the definition that follows it; `PROJECT.json` pairs it with
the property that notices it.

### State

The ledger:

| Variable | In the code |
|---|---|
| `instances[i]` | the set of `enabled` flags of the `IntegrationInstance` rows with id `i`: `{}` when there is no row, two values when two creates raced |
| `siam` | the set of mappings of the `SIAMMapping` rows (one row, or two after a race of first saves); a mapping is a function from roles to sets of instances. A role that maps to nothing and a role that is absent are the same |
| `conns` | the `IntegrationConnection` rows in the order of insertion. `live` is `disconnected_at IS NULL`; `creds` stands for the token blob by the authorization code it was exchanged for; `seq` is `connection_seq`; a row's id is user, instance and seq together, as in `_connection_id` |
| `consents` | `ConsentEvent` rows. A repeated identical event is one element; timestamps are left out |
| `trail` | what the latest `AdminAuditEvent` of each instance and of the mapping says |
| `flows[f]` | what the state named `f` decrypts to: the user and the instance |
| `codes` | authorization codes issued by the identity provider and not yet redeemed |
| `task[t]` | the local variables of the request in slot `t`; `pc` names the await it is at |
| `faults` | requests cut short so far |
| `disabledAt`, `orphanedAt` | history, for the properties only: how many rows existed when the flag of an instance was last cleared, or when its last role was unmapped |
| `racing`, `raced` | history: the grants that met a rival between the duplicate query and the INSERT, and the rows such grants inserted |

The tokens:

| Variable | In the code |
|---|---|
| `rows[c]` | the rows of one user and one instance by id, with the decrypted token blob in `creds` |
| `Tokens` | a blob: `until` is its `expires_at`, `refresh` whether it has a refresh token, `key` the master key it is encrypted under. `fam`, `gen` and `real` are the source system's view: the consent, the number of the refresh token, the end of the access token. `timely` is history: the answer stated `expires_in` and, if it was the answer to a code exchange, took no longer than `clock_skew_seconds` |
| `key` | the master key of the running process |
| `idp[f]` | what the source system honours of consent `f` |
| `call[t]` | the local variables of a `get_valid_access_token`; `now` is the clock it read, which `refresh_access_token` is passed |
| `grant` | the user's `complete_grant` from the exchange on: `life` is the lifetime it will believe, `issued` the moment the code was redeemed |
| `me` | the user's `GET /me` |
| `spoiled`, `clean` | history, for `StaleMeansDead` and `WipedStaysWiped` |

The admin surface:

| Variable | In the code |
|---|---|
| `jwks` | `_keys` (`have` is FALSE for `None`), `_fetched_at`, `_negative_until` |
| `holder` | who holds `_lock`; requests at `wait` are its queue |
| `published`, `removedAt` | the identity provider's keys, and (history) when a key left them |
| `req[t]` | a request with a SIAM bearer token, from `get_current_user` to the end of `require_admin` |
| `account[u]` | the `LocalAdmin` row of username `u`; a password is the number of the `create-admin` run that set it |
| `hits`, `login`, `cli` | the times in the sliding windows of addresses and usernames, the logins under way, the `create-admin` under way and the username it was given |
| `flag` | `app.state.local_admin_disable_state` |
| `admitted[u]`, `fails[u]`, `mixed[u]`, `reset` | history, for the properties; `reset` is about the bootstrap account |

The LLM configuration:

| Variable | In the code |
|---|---|
| `table` | the set of `LLMConfig` rows. Both sides in one record, a field the provider lacks included, since `_apply_fields` leaves it in the document |
| `boot` | where `ensure_admin_schema` stands in the Hub and in a `create-admin` run |
| `task[a]` | an update under way: the row it read and its payload |
| `last`, `told` | the `after` of the latest audit event; what the latest event that names a side's key says of it |
| `raced`, `cleared`, `blurred` | history |

### How the code becomes actions

An action is the code between two awaits: the statement awaited, and the local
computation up to the next. Reads take the table as it is in that step and
nothing else is locked. Where the code takes `rows[0]` of a query without
`ORDER BY`, the action takes any row.

The ledger:

| Code | Actions |
|---|---|
| `grant` | `GrantFetch` (instance, gate 1), `GrantGate` (mapping, gate 2), `CheckDuplicate`, `ReadNextSeq`, `InsertRow`, `RecordGranted` |
| `initiate_grant` | `InitiateFetch`, `MintState` |
| `complete_grant` | `CompleteFetch` (state and gate 1), `CompleteGate`, `Exchange` (code, identity, health), then as `grant` from `CheckDuplicate` on |
| `revoke` | `RevokeQuery`, then `RevokeRow` and `RevokeEvent` per row |
| `IntegrationsService.create` | `CreateCheck`, `CreateInsert`, `CreateAudit` |
| `IntegrationsService.update` | `UpdateRead`, `UpdateWrite`, `UpdateAudit`, then the cascade if the flag it *read* was true and the one it wrote is false |
| `IntegrationsService.delete` | `DeleteRead`, the cascade, `DeleteRow`, `DeleteAudit` |
| `revoke_all_for_instance` | `CascadeQuery`, then `CascadeRow` and `CascadeEvent` per row |
| `SIAMService.replace` | `SiamRead`, `SiamCheck` (is there a row), `SiamWrite`, `SiamReadBack`, `SiamAudit`, then `SiamQuery` and `SiamRow`, `SiamEvent` per row |
| a stop, a restart, a statement that raises | `CutShort` |
| the identity provider | `IdpAuthorize`: somebody opens the URL of a flow and signs in; the URL can be opened again |

The tokens:

| Code | Actions |
|---|---|
| `complete_grant` behind its gates | `IdpIssues` (the source redeems the code), `ReceiveGrant` (`_post_token_endpoint` reads the clock and computes `expires_at`), then `RefuseDuplicate` or `Insert`; `GrantFails` at any time |
| `get_valid_access_token` | `Fetch` (row, decryption, expiry test), `LookUpInstance`, `IdpRefreshes` / `IdpRefuses` / `AnswerLost`, `Persist` (`_persist_tokens`) or `MarkStale` (`_mark_stale`) |
| `revoke` and the cascades, per row | `RevokeRow` keeps the credentials, `WipeRow` clears them |
| `GET /me` | `OpenMe`, `ListConnections` |
| a statement that raises; a restart, perhaps with another `LEHEN_MASTER_KEY` | `CallRaises`, `Restart` |

The admin surface:

| Code | Actions |
|---|---|
| `get_current_user`, `decode_and_verify`, `get_keys` | `Bearer`, then `Wake`, `IdpServes`, `Receive`, `FetchFails` as far as needed; `LookUp` is the part after the keys, `invalidate` and the second call of `get_keys` included |
| `require_admin` | `Gate`, `Reply` |
| `_maybe_disable_local_admin`, `disable_on_siam_admin_login` | `DisableFetch`, `DisableWrite`, `DisableEvent`; `DisableRaises` |
| `LocalAdminService.login` | `LoginArrives` (both limits), `LoginFetch` (every decision), `RecordFailure` or `RecordSuccess`, `LoginEvent`; `LoginRaises` |
| `create-admin`, for any username | `CliStarts`, `CliWrites`, `CliEnds` |
| start-up | `Restart` (with `warm`) |

The LLM configuration:

| Code | Actions |
|---|---|
| `ensure_admin_schema` | `SeedCheck`, `SeedInsert`; `CliEnds`, `CliDies` |
| `LLMService.update` | `Read` (with `_validate_payload_keys` and `_validate_required_fields`), `Write`, `Record`; `Raises` |
| start and stop | `Restart` |

Choices a reader should know:

- A request that is rejected at its first await has changed nothing and is a
  stutter, not a step. So is a state rejected for its age: the 600 s limit only
  shrinks what `CompleteFetch` accepts, and the properties hold without it.
- A slot is reused when its request ends. The number of slots bounds how many
  requests overlap, not how many there are.
- `Exchange` is one step although the code awaits three calls (token endpoint,
  identity, health): none of them touches the Hub's state. It may fail after the
  code was redeemed.
- `revoke` has a parameter `external_subject` that no caller in `src/` sets; the
  action disconnects all live rows of the user on the instance, as the route does.
- `revoke` leaves `encrypted_credentials` in place, the cascades clear them; the
  argument `wipe` of `VisitRow` tells the two apart.
- The roles of a user are fixed. The Hub reads them from each token; a user whose
  roles change is a user with other roles from then on.
- In the ledger `status` follows `disconnected_at`; `stale` and the credentials'
  contents are `TokenLifecycle`'s. Nothing in `src/` calls `get_valid_access_token`
  yet; it is modelled as the tools it was written for would call it, any number of
  times at once.
- In `TokenLifecycle` a user has one grant at a time. What `complete_grant` does
  after the token answer (identity, health, duplicate query, sequence number, INSERT)
  is one step there, `Insert`, any number of ticks after `ReceiveGrant`: no other
  action makes a row live, so the query and the INSERT agree. The ledger has these
  awaits apart, and grants of one user that overlap.
- An answer of the token endpoint or the key endpoint may take any time. The HTTP
  clients' 10 s and 5 s bound each phase (connect, each read), not the whole answer,
  so no property may rest on them.
- A token answer may leave out `expires_in`; the Hub then believes `DefaultLife`
  (3600 s, `auth/oauth.py:313`), whatever lifetime the source gave the token.
- A row read by `GET /me` is shown or not depending on the gates, which are any
  choice there. Only which rows of the list exist matters.
- `AdminAccess` has requests for the admin surface only. A request for the user
  surface uses the cache in the same way and ends without the hook: it counts as
  one that is refused for its role.
- A request with a local token has its signature, expiry and scope checked and
  changes nothing: it is not a step.
- `asyncio.Lock` wakes the longest waiter; `Wake` picks any, which allows more.
- `model` goes where `base_url` goes and is required everywhere: it is left out.
- `last` and `told` are the ends of the trail, not the trail. Equal `LLMConfig` rows
  count as one, which `OneConfiguration` states as a limit: two identical seeds look
  like one until one of them changes, and an UPDATE changes both.

## The runs

| Run | Question | Instance | Distinct states |
|---|---|---|---|
| `hub_admin` | do the cascades reach every connection there was, do the trails tell the truth, and does anything but two grants that meet break uniqueness, while a user connects and disconnects? | 1 user with 2 slots, 1 instance, 1 administrator, 2 rows, no request cut short | 1.8 million |
| `hub_oauth` | can any mixture of states, codes, users and instances store foreign tokens? | 2 users, 2 instances, 2 accounts, 2 flows, 2 rows, 1 request cut short | 779 thousand |
| `hub_serial` | does a Hub that serves one request at a time implement the abstract ledger? | 2 users with different roles, 2 roles, 1 OAuth flow, 2 rows | 944 thousand |
| `hub_progress` | does every request end, does a disable take effect, and does a Hub whose requests overlap implement `Warrants`? | 2 users in one slot, 1 administrator, 2 rows, fairness | 382 thousand |
| `tokens` | what becomes of revoked, wiped and stale rows, in any order of events? | 2 connections of 1 mailbox, 2 consents, 2 calls, 1 refresh token rotation per consent, 1 failure, a clock that stands still | 5.5 million |
| `token_times` | which stored tokens are handed out without a refresh, whatever their lifetime and whenever the answers come? | 1 connection, 2 calls, lifetimes 1 and 3, a default of 3, 5 clock readings | 4.3 million |
| `admin_access` | can a removed key, a lost flag, a race of logins or a restart open the admin surface, and do the limits hold? | 2 keys, 2 requests, 2 logins, 2 addresses, 1 username, 3 clock readings, 4 events | 2.0 million |
| `llm` | what do overlapping updates, switches of provider and restarts leave, and what does the trail say of it? | both sides, 2 administrators, 6 payloads a side, 3 updates, 1 failure | 1.4 million |

What each property of those runs says:

- `ConsentCoversConnection`: each row has its `granted` event or its own request is
  at the statement that writes it. `RevocationLeavesTrace`: each disconnected row
  has an event that says why, or a loop is about to write it.
- `DisableSweepsAll`: from the write of the flag on, each connection that existed
  at the write is either disconnected or still ahead of a cascade under way. It is
  the strongest statement the code supports: a grant past its gates may land
  later (see `v_disable_race`). `OrphaningSweepsAll` is its counterpart for mappings.
- `TrailTellsState`: when no admin request is under way the latest audit event of a
  target agrees with the database.
- `UniqueActive`, `UniqueIds`: two live rows of one user, instance and account, or
  two rows of one id, were both inserted by grants that met between the duplicate
  query and the INSERT (`raced`). That is the one gap in the uniqueness the
  docstrings promise (`v_dup_active` shows it): overlaps elsewhere, revokes between
  the awaits and stops do not add another.
- `CredentialsBelongToFlow`: the tokens in a row were issued in a flow its own user
  started for its own instance, and belong to the account the row names.
- `NoLiveOnDisabled`, `DisableRetryRevokes`, `ImplementsLedger`: what a serial Hub
  keeps. In `ImplementsLedger` a connection counts as closed when its revocation is
  decided (the query of a revoke, the write of a disable or a mapping, the arrival
  of a delete), and each handler is then one step of `Ledger` and stutters.
- `ImplementsWarrants`: what survives of that when requests overlap and stop. A
  row is inserted only by a request that itself passed gate 1, gate 2 and the
  duplicate query in this order; a row is disconnected only by its user's revoke or by
  a cascade that a disable, a delete or a mapping gave cause to, and only if the
  query of that loop saw it live; a `ConsentEvent` is written only by the request
  that did what it says. `Warrants` promises no more than that: gates may close
  between a check and an INSERT.
- `RequestsEnd`, `DisableTakesEffect`: liveness.
- `ServableIsValid`: a token that would be served without a refresh is still
  honoured, provided its answer stated the lifetime and, for a code exchange, took no
  longer than `clock_skew_seconds`. The proviso is `timely`: the `expires_at` of an
  exchange counts from the answer's arrival, and nothing bounds that. A refresh may
  take any time, because its `expires_at` counts from the clock read before it. Without
  the first half of the proviso it is false (see the disagreements).
- `DisconnectedIsFinal`: no refresh or stale mark that lands late makes a revoked
  row `connected` again, so it serves no later call (a call already under way may
  still return its token; and the mark may make the row `stale`, see `MeShowsHeld`).
  `WipedStaysWiped`: wiped credentials come back only through a call that was
  refreshing the row when it was wiped; `_persist_tokens` does not look at
  `disconnected_at`, so in that one case they do.
- `StaleMeansDead`: a live connection is `stale` only if it could not be refreshed,
  or for a cause the property names: two calls refreshing one rotating token, a lost
  or failed call, the instance, an answer without a refresh token, another master key.
- `MeShowsHeld`: `GET /me` leaves out what was revoked before it was asked for,
  whatever its status says.
- `KeysAreRecent`: no key is usable `ttl_seconds` after its removal, because the age
  counts from the request and not from the answer. `CurrentKeyAccepted`: a token
  whose key was published all along is never refused for an unknown key.
  `LockHeldByFetcher`: the lock is held by the request that is fetching and by no
  other. `OneFetchPerExpiry`: while the provider is being asked, the cache
  holds nothing that could be returned instead, so a request that queued behind a
  successful fetch does not repeat it, invalidations included.
- `SiamAdminDisablesLocal`: a process that has let a SIAM administrator in leaves the
  bootstrap account missing or disabled, except after a `create-admin` since
  (`reset`). The exception is where the code and its documentation part (see the disagreements).
- `AdmissionsBounded`, `LockoutCounts`: however logins overlap and from whichever
  addresses they come, no window admits more than `Limit` of them for one username (with
  two addresses the address limit alone would admit twice as many); the
  lockout count is exact while logins to an account do not overlap (`RecordFailure`
  writes a count read earlier, so overlapping failures can count as one: `mixed`).
- `RequiredFieldsFilled`, `OneConfiguration`, `SidesChangeOnPurpose`,
  `TrailTellsConfig`, `NoKeyInTrail`: the stored configuration and the trail. Of two
  updates that overlap the later write wins as a whole: one of the changes is lost
  although the trail has both. Such updates leave `alone`, and what they blur is
  named in `blurred`.

The three of `hub_admin` that concern administrators hold with one administrator
at work. With two they do not: `update` writes back the document it read, so a
disable can be written by a request that read `false`, and `replace` audits and
cascades from mappings that another administrator has meanwhile replaced. Two
further limits follow from the code and are not claimed: a state is not remembered
after its use, so until it expires it completes one connection per code issued for
it; and a stop between the INSERT of a connection and that of its consent event
leaves a connection without one.

**Bounds.** `MaxRows = 2` lets a user reconnect after a revoke (the sequence
number moves, a dead row stays) and lets a cascade loop over two rows with other
requests between its turns. A grant starts only if its row will fit
(`RoomForRow`). Two user slots suffice for each race between users, since a race
here is between one check and one write; the administrator is the third actor.
One instance suffices where the instances do not interact (only the mapping
relates them); `hub_oauth` has two, because a state may be posted to the wrong
one. `MaxFaults` bounds the requests cut short. In `tokens` one
mailbox and two connections allow a re-connect beside a dead row, two consents one
exchange more than there can be live rows, and two calls every race of refreshes. Its
clock stands still, because with a lifetime of one tick and a skew of one tick
every token is due for a refresh at once, and the four properties speak of the order of
events only. `token_times` is about time: a lifetime of 1 is over while the default of 3
is still believed, five readings let an answer come after the skew and after the
end of its token, and two calls may refresh one row in either order. In `admin_access` the event
budget `MaxEvents` counts what the outside does (requests, logins, rotations,
failures, commands, restarts) and leaves the Hub's own steps free; four allow a
rotation against two requests and a failure, two failed logins and a third, a
disable and a `create-admin` beside it; `Limit` 1, `Threshold` 2 put a boundary in
reach, and two addresses let pass what the limit of the one username must refuse. One
username is enough for the run, since accounts share nothing but the addresses' windows;
the theorems are for any number. In `llm` three updates let an administrator set a key, change the provider and
change it back while another one writes; the six payloads are one of each kind the
validation tells apart. Symmetry: `tokens` permutes connections, consents and
calls, `admin_access` keys, requests, logins and addresses, `llm` sides and
administrators, all interchangeable there; `hub_admin`
permutes user slots and `hub_oauth` accounts and flows. `CHECK_DEADLOCK FALSE` appears where the
bounds end the behaviour: with the rows and flows used up and no administrator, or the budget of events or
updates spent, nothing is left to do. `tokens` and `token_times` are checked for deadlock: `GET /me` can
always be asked again.

**Fairness.** `FairSpec` is weak fairness of `Continues(t)` for each slot: the event
loop resumes every runnable coroutine and every HTTP client in the Hub has a
timeout for each read, so a request under way takes its next step (an answer that
trickles in for ever is left out). Users, administrators and
the identity provider have none. Weak fairness suffices because nothing another
request does can disable the next step of a request.

## Disagreements found

Each is a run with one property, quoted in `PROJECT.json` with the line that
promises it.

| Run | What happens |
|---|---|
| `v_dup_active` | Two overlapping connects of one user both find no live row and both insert. |
| `v_disable_race` | A grant passes gate 1, an administrator disables the instance, the cascade's query returns, the grant inserts: a live connection on a disabled instance. |
| `v_disable_retry` | A disable stops after writing the flag. The repeated request reads `false`, sees no transition and revokes nothing. |
| `v_siam_roles` | An administrator moves an instance from one role to another. The cascade asks whether *some* role still maps it, so a user without that role stays connected. |

Besides, without a run of its own (the models contain the first five; the property
named is worded so that it does not claim the opposite):

- *A token whose lifetime was not stated is taken to live an hour.*
  `_post_token_endpoint` defaults a missing `expires_in` to 3600
  (`auth/oauth.py:313`), and `get_valid_access_token`, which promises "a valid access
  token" (`connections_service.py:613-614`), hands the token out after its end if the source
  gave it less. `ServableIsValid` leaves such tokens out (`timely`).
- *A stale connection cannot be re-connected.* `connections_service.py:615-616` and
  `src/docs/sprint2_design.md:130` have the user re-connect a stale connection. The
  duplicate query looks at `disconnected_at` alone, so the re-connect is refused
  (`RefuseDuplicate`) until the user has revoked the row.
- *Requests fetch inside the negative window.* `auth/jwks.py:3-5` promises that a flapping
  provider does not get one call per request. `get_keys` looks at the window before
  it waits for the lock and not afterwards (`Wake`), so each request queued behind a failing
  fetch fetches again; and `invalidate` on an unknown kid clears the window
  (`LookUp`), so the second look fetches inside it.
  `OneFetchPerExpiry` is about successful fetches.
- *The auto-disable does not fire again.* `src/docs/admin-bootstrap.md:123` says that after an
  emergency `create-admin` the next sign-in via SIAM turns the local account off
  again. The hook has settled its flag with the first SIAM administrator of the
  process and returns at once (`auth/dependencies.py:272-273`), so the account
  stays enabled until the Hub restarts. This is the exception `reset` of
  `SiamAdminDisablesLocal`.
- *An account of another name is never disabled.* `create-admin --username other` writes a row that
  can log in like the bootstrap account. The command prints that "the local-admin path
  auto-disables" (`cli.py:78-79`), but `disable_on_siam_admin_login` looks for the username
  `admin` only (`local_admin_service.py:263`). `SiamAdminDisablesLocal` is about that one.
- *A required key may be cleared.* `llm/providers.py:8` requires a key for OpenAI. An
  explicit `""` passes `_validate_required_fields` if one is stored
  (`llm_service.py:206-210`), and `_apply_fields` then clears it. This is the
  exception `cleared` of `RequiredFieldsFilled`.
- *An optional secret set to `""`* is encrypted by `_split_config`
  (`integrations_service.py:324-331`) and shown as set, while its audit mark says *not
  set*.
- `IntegrationsService.update` writes the fetched document back with the record
  attributes ArcadeDB added to it, which `LLMService` strips before it writes.

## The proofs

Every property the passing runs check is also a theorem, except liveness and three of
`hub_serial` (see the end of this section). Each theorem
holds for every choice of the constants that satisfies the named assumptions of its
specification. For the ledger those are `HubDb`'s (any users, roles, instances, slots,
seeds and bounds; `None` is none of the values it stands in for); for the tokens that
skew, lifetimes and bounds are naturals and `None` is none of the values it stands in for; for the
admin surface that the periods are naturals and `TTL`, `Threshold` and `Lockout`
positive; for the LLM configuration that there is a URL, that payloads are payloads,
that `None` is no update (`NoneAssumption`), and that no fingerprint is a key
(`MarkAssumption`, the abstraction of the HMAC).

| Theorem | Statement |
|---|---|
| `TypeCorrect` | `Spec => []TypeInv` |
| `ConsentAlwaysCovers` | `Spec => []ConsentCoversConnection` |
| `RevocationAlwaysTraced` | `Spec => []RevocationLeavesTrace` |
| `ActiveIsUnique` | `Spec => []UniqueActive` |
| `IdsAreUnique` | `Spec => []UniqueIds` |
| `CredentialsAlwaysBelong` | `Spec => []CredentialsBelongToFlow` |
| `TrailAlwaysTells` | `OneAdmin => (Spec => []TrailTellsState)` |
| `DisableAlwaysSweeps` | `OneAdmin => (Spec => []DisableSweepsAll)` |
| `OrphaningAlwaysSweeps` | `OneAdmin => (Spec => []OrphaningSweepsAll)` |
| `HubImplementsWarrants` | `Spec => ImplementsWarrants` |
| `TokenTypes` | `Spec => []TypeInv` (of `TokenLifecycle`) |
| `TokensServedAreValid` | `Spec => []ServableIsValid` |
| `RevokedIsFinal` | `Spec => []DisconnectedIsFinal` |
| `WipedForGood` | `Spec => []WipedStaysWiped` |
| `StaleAlwaysMeansDead` | `Spec => []StaleMeansDead` |
| `PageAlwaysShowsHeld` | `Spec => []MeShowsHeld` |
| `AdminTypes` | `Spec => []TypeInv` (of `AdminAccess`) |
| `KeysAlwaysRecent` | `Spec => []KeysAreRecent` |
| `LockAlwaysHeldByFetcher` | `Spec => []LockHeldByFetcher` |
| `CurrentKeyAlwaysAccepted` | `Spec => []CurrentKeyAccepted` |
| `OneFetchAlwaysPerExpiry` | `Spec => []OneFetchPerExpiry` |
| `SiamAdminAlwaysDisablesLocal` | `Spec => []SiamAdminDisablesLocal` |
| `LockoutAlwaysCounts` | `Spec => []LockoutCounts` |
| `AdmissionsAlwaysBounded` | `Spec => []AdmissionsBounded` |
| `LlmTypes` | `Spec => []TypeInv` (of `LlmConfig`) |
| `RequiredAlwaysFilled` | `Spec => []RequiredFieldsFilled` |
| `ConfigurationIsOne` | `Spec => []OneConfiguration` |
| `KeysNeverInTrail` | `Spec => []NoKeyInTrail` |
| `TrailAlwaysTellsConfig` | `Spec => []TrailTellsConfig` |
| `SidesOnlyChangeOnPurpose` | `Spec => SidesChangeOnPurpose` |

**Hypotheses.** One remains: `OneAdmin`, for the sweeps and the admin trail. It says
that there is one administrator, who waits for each answer. With two, `update`
writes back a document the other has changed and `replace` compares mappings the
other has replaced, and the three theorems fail. The code does not enforce it: it describes a
deployment whose administrators take turns. All other theorems allow any number
of users and administrators at work at once, and requests cut short at any await
(the two consent trail properties say so themselves where a stop breaks them).

**The ledger.** Its `TypeInv` is the type invariant with `LocalsOK`: the rows a loop points at exist, and
a request on the path of a grant or a revoke knows its user and instance. Without
it the rows the loops write would have no type. The proof takes the actions one
by one.

The two consent trail properties are inductive given `TypeInv`. Their proofs sort the steps
into kinds (`StepKinds`): quiet ones, the INSERT, the event of a grant, a visit of
a row, the event of a visit, and steps that cut a request short. They then argue
on kinds. What carries them is that a request leaves an await that owes an event
only by writing it. A row two loops visit at once has its event from either: the
event names user, instance and seq, and no UPDATE changes those.

Uniqueness is not inductive. `UniqueInv` adds what a request has learnt and relies
on: after `CheckDuplicate` no live row resembles the one it will insert
unless that row is `raced` and the request `racing`
(`NoDuplicateYet`), and after `ReadNextSeq` its number exceeds every row's of its user and
instance, with the same exception (`SeqIsFresh`); two requests for one user and
instance that are both past the query are both `racing` (`RivalsRace`); and only
user slots run grants (`Serving`). A revoke that frees the account
between the awaits, or a stop that leaves a row behind, keeps all four. Steps are again sorted into kinds
(`GrantSteps`): those that leave the rows and the plans alone, those that sweep a row,
and the three steps of a grant.

`CredentialsBelongToFlow` needs what a request carries from its state check to its
INSERT (`Established`): while it holds a state, that state still names its user
and instance; once it holds an account, the state its code was issued for does.
Both survive because a state, once issued, never says anything else
(`FlowsKept`), and `None` is no state's content (`NoneAssumption`). The proof
rests on two facts about the identity provider that the model assumes: a code is
redeemed only with the verifier of its own flow, and the account is the one that
signed in.

**One administrator.** `GatesInv` says what an admin request may rely on while nobody
else writes the gates (`Knows`, one line per await): the flag it read is still the
flag, the flag it wrote is still there, the mapping it read back is the saved one. It
also says that no id has two rows (`OneVersion`) and that the history marks lie in the past
(`MarksArePast`). The two sweeps are inductive given `GatesInv`: a marked row stays
marked, a step of the cascade either reaches it or keeps it ahead, and the write that
sets a mark is followed by a cascade because `was` told the truth. Rows inserted later
lie above the mark (`RowsOnlyAge`). For `TrailTellsState` the trail may differ from
the tables only between a write and its audit (`TrailInv`). Users interleave with all of this at will.

**Every interleaving.** The refinement of `Warrants` maps the instances that can be fetched
as enabled, the mappings a read may return, the keys of the live rows, the consent
events, and for each slot what its request has earned at the await it is at
(`Earned`, one case per await; `Earnings` unfolds it). Only `TypeInv` is needed beside
it, which is the point: a request relies on nothing but its own earlier
awaits. Rows keep user, instance, sequence number and account for ever (`RowsKept`), so
what another request holds does not change under it (`EarningStays`) and a
step moves the holdings of its own request and of no other (`HoldingsMove`). The
actions are then taken one by one, and each is a step of `Warrants` or changes nothing
it shows. A visit of a loop may disconnect several rows of one id (`Close`
says so), since ids of raced rows may coincide.

**The tokens.** `TokenInv` carries four of the theorems. A call under way names an
existing row and has read the clock in the past (`CallsOK`); a timely token, stored or
in flight, is believed at most `Skew` longer than it is honoured (`RowsOK`, `Sound`),
from which `ServableIsValid` follows, as the skew is taken off; only a live row is
`connected`; a row wiped undisturbed is dead and no call names it (`CleanOK`), which
holds for ever because `Fetch` takes only connected rows.

`StaleMeansDead` needs `StaleState`, which adds three parts. A consent belongs to one connection, and
to none while its grant is on the way (`FamInv`). A call that ended has no row
(`BusyInv`). For a live row that nothing on the property's list has disturbed, row,
call and source agree (`StaleInv`, `Healthy`, `Follows`): one call at most is at work
on it, that call holds the row's own tokens or their successors, and the row's refresh token is the
source's latest unless the successor is about to be written. A refusal can then only mean
that the consent has ended. `PageInv` says that what the page leaves out was
granted and is disconnected, which no late mark or refresh undoes.

**The admin surface.** `AdminInv` adds to the types what an answer on its way means:
a key that was seen, or is cached, and is not published any more was published when
the clock was read before asking (`SeenRecent`, `CachedRecent`). `KeysAreRecent` is then
arithmetic. `SiamAdminDisablesLocal` needs `Shut`, which includes the step between
`DisableWrite` and `DisableEvent`: there the account is shut though the flag does not
say so. A login never enables an account, hence logins may interleave at will.

`CurrentKeyAccepted` is about the second look of `decode_and_verify`. Once a request has emptied the cache, whatever
fills it was asked for later (`Promising`). That holds because nobody holds the lock over
a fresh cache, so a request that could look up its key and miss it is not overtaken by
an older answer. As long as its key is published (`SteadyOK`), the refill holds it.
`OneFetchPerExpiry` is a part of the same invariant: the holder of the lock found the cache
unusable when it took the lock, only the holder fills it, and an invalidation or a
tick makes it no fresher. `LockoutCounts` needs `CountInv`: while no two logins to an account have
overlapped, the count is the account's or, between the row's read and its write, the
one login's. `AdmissionsBounded` needs `LimitInv`, which bounds every window rather
than those of the clock's range: an admission found fewer than `Limit` hits in the
window behind it, and admitted logins are among the hits. The buckets are sequences of times
and `admitted` a set of positions in one, so that this is a statement on the cardinality
of a subset.

**The LLM configuration.** `RequiredFieldsFilled` needs the same of the row each update
has read and that its payload was accepted against that row (`TaskOK`): a write is then
filled whatever has been written since. `OneConfiguration` needs that, unless Hub and
command met on the empty table, whoever is about to insert is alone and the table
still empty (`SeedInv`). `NoKeyInTrail` is a fact about the operators: `View` hides the
stored key, `Changed` brings in a key only on the sides `SecretSides` names, and
`Masked` marks exactly those. For `TrailTellsConfig` an update that no other overlapped
is the only one and knows the row (`AloneInv`), and no update between its write and its
event means a trail that tells every row (`TellsInv`). `SidesChangeOnPurpose` needs
`AloneInv` too: the row an update merges its payload into is the one stored.

**Only model-checked.** The liveness properties `RequestsEnd` and `DisableTakesEffect`
(run `hub_progress`) rest on fairness, and the prover has no rules for `WF_` or `ENABLED`.
`NoLiveOnDisabled`, `ImplementsLedger` and `DisableRetryRevokes` (run `hub_serial`) hold for
a Hub that serves one request at a time and is never stopped, which the code does
not see to: `v_disable_race` and `v_disable_retry` show them false otherwise. They are
checked as the standard the handlers meet one by one, and are not stated as
theorems; what holds without that assumption is `HubImplementsWarrants`. Two
administrators at once are covered by that theorem, the uniqueness theorems and
`CredentialsAlwaysBelong`; no run has two. Likewise the runs of `ImplementsWarrants`,
`UniqueActive` and `UniqueIds` cut no request short, which their theorems allow.

## What is not modelled

- *Signatures, hashing and encryption* are libraries; the models treat a state as
  readable by the Hub alone, and a blob as readable under the key it was written with.
- *Claims of a token* other than its key: issuer, audience and expiry are checked
  without an await and without the Hub's state.
- *The age limit of a state* (600 s, `auth/oauth.py:129`) only shrinks what
  `CompleteFetch` accepts.
- *Display names, scopes, health results* and timestamps other than those of tokens,
  keys, windows and lockouts decide nothing in the modelled handlers. Of an
  instance's configuration only `enabled` is kept.
- *The type registry* is a static table. A connection of a `single` type has the empty
  account, of a `multi` type the identity's: in the models both are values of one set.
- *Database client and schema creation*: `CREATE ... IF NOT EXISTS` may be repeated and
  decides nothing; the seeding of the LLM configuration is modelled (`LlmConfig`).
- *Web pages* send requests and keep no state a request depends on.
- *Edge* keeps the bearer, a pending instance and pending PKCE flows. A callback it
  applies to the wrong instance reaches the Hub as a state posted to another instance,
  and a callback applied twice as a state posted twice: both are among the posts
  `CompleteFetch` allows, so what the Hub makes of them is covered by `hub_oauth`. What
  the user then sees on the Edge is not (`App.tsx:121`, `pkce.ts:55` in the hazards).
- *Settings, logging, the realm set-up and containers* have no state of interest.

## The plan

In order of importance:

1. *(done)* `HubDb`, `Connections`, `AdminCascades`, `Hub`, `Ledger`, `Warrants` and their proofs.
2. *(done)* `TokenLifecycle` with the page of `MeService`.
3. *(done)* `LocalAdmin` and the auto-disable hook.
4. *(done)* `JwksCache`.
5. *(done)* `LlmConfig`, the merge of masked secrets included.
6. `EdgeFlows`: pending flows, deep links, the pending connect instance, sign-out and
   an expired bearer while callbacks are under way.
7. Pure operators with reference definitions: the secrets of `IntegrationsService`, the
   normalisation of a mapping, the age check of a state.
8. *(done)* Proofs: the safety and action properties of the runs that need no serial Hub,
   and the refinement of `Warrants`, which is the statement for several administrators
   that the code does keep.
