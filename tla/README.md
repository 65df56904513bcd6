# Helix server: TLA+ models and proofs

This directory holds the formal models of the hosted tier of the Helix server
(`src/src/`, the package `@helixid/enterprise`) and of the stateful examples
beside it (`src/examples/`).  Each module is a translation of source code; the
`map` of `PROJECT.json` names the lines every definition stands for.

    tlc -workers 2 -config sessions.cfg MCSessions     # check one run
    tlapm SessionsProofs.tla                           # check one proof module

## 1. Inventory

The server is a Fastify application (the demos' own servers use Express).
Requests are handlers that `await`
repository, core and audit calls.  No transaction spans two of those calls and
nothing is locked: **whatever else is in flight may run between two awaits**, in
the same process or in another one on the same database.  State is in the
database (SQLite or Postgres; in-memory drivers serve the tests), in the core
package `@helixid/core` (DIDs, credentials, tokens, challenges, the audit log;
not in this repository), and in per-process secrets.  The examples keep their
state in memory and in JSON files they overwrite in place.

| Component | State it keeps | Operations | Interacts with | Hard part | Correct when |
|---|---|---|---|---|---|
| Sessions (`auth.service.ts`, `refresh-token.drivers.ts`) | `refresh_tokens` rows: owner, expiry, `revokedAt`, `replacedByTokenId` | `issueSession`, `refresh`, `logout`, reuse burn | Accounts (who logs in), audit log | check and rotation are three awaits apart; lost answers; crash between insert and revoke | a burned row is dead for ever; a successor leaves the server after its predecessor is revoked and audited; one usable token per session until requests overlap |
| Accounts (`auth.service.ts`, `provision-issuer-did.ts`, `routes/auth`, `routes/account-did`) | `accounts`, DID documents, encrypted issuer keys, verification tokens | `register`, `login`, Google callback, `verifyEmail`, `resendVerificationEmail`, `did.json` | key custody, e-mail sender, Sessions | look-ups long before inserts; several writes with no transaction; linking | one account per address and per Google id; a DID is backed by a document and a key; `verified` was vouched for |
| Quota (`account-or-admin-guard.ts`, `quota.ts`, `routes/vc`) | none of its own: counts audit events | `resolveAccountOrAdmin`, `assertUnderDailyQuota`, metered routes, `listVCs` | audit log, links | count before, event after and un-awaited; lists cut before they are filtered | overshoot is bounded; one charge per credential, to its owner; what was issued is listed |
| Ownership links (`account-links.repository.ts`, `routes/agent`, `routes/vc`) | three link tables | enrollment tokens, enroll, onboard, verify, issue, revoke, renew | core, Quota | ownership crosses three requests, two of them unauthenticated | a link names the account the item was created for and never moves; only the owner or the operator revokes |
| Storage drivers (`repositories/drivers`) | the rows, in three tiers | the drivers' queries and updates | all repositories | three hand-written copies: column lists, unique indexes, references | the tiers answer alike, up to the indexes the in-memory one lacks |
| Audit-log routes (`routes/audit-log`) | none (the core's log) | three ingestion routes, list, delegation projection | core, links | page cut before the filter; one look-up per record while links are written; claims beside verified facts | an account sees its own records, and of the page all of them; a delegation that was verified, and posted as it was, is shown as such |
| Access and opaque tokens (`tokens.ts`), key custody (`key-custody.ts`), start-up (`server.ts`) | secrets of a process, configured or random; issuer DID | `ensureIssuerDidCached`, listen, sign, verify, encrypt, decrypt | all | concurrent starts with different keys; restart without configured secrets | one issuer key; a start that can succeed does; once every process has the same configured secrets, each accepts what any other made |
| Consent demo, service provider (`sp-shared/`) | grants and status list, in memory and in a JSON file; provisioned keys; browser sessions | accept, revocation, MCP `tools/call`, status list, sign-in and consent pages, seeder | SDK, agent | list read before an await, replaced after; file overwritten in place; messages to another window | scoped tools run only with a grant for them; answered grants and revocations last |
| Consent demo, agent (`agent/`) | wallet file; session and slots in memory; the page's options, questions and pending call | `/api/plan`, `/api/call`, `/api/grants`, the page script, the planners | service provider, LLM | overlapping turns and windows over single slots; a planner that may say anything; restarts | only offered options are booked, once, and never after a refusal; the questions end |
| Travel concierge (`e2e-travel-concierge/`) | persona manifest (file and copy), wallets | onboard, delegate, revoke, chat, protected call | core, MCP server | read, merge, write with no lock; wallet loaded, then written back | a created persona stays; it can act; a revocation stops the oldest credential of a persona, and nothing else |
| Verifier cache example | its cache; the status lists that it and the server keep | fill, prune, answer | API server | an answer stored after the expiry; three caches between a revocation and a grant | never past expiry; once the status lists are renewed, stale only from its own cache |
| Demo pages, LLM providers, Python port, SDKs, example scripts | - | - | - | - | not modelled, see section 7 |

`PROJECT.json` lists the same components with their files and status, and the
hazards at the line where each one bites.

## 2. What is modelled

Every module has the same shape.  A request handler is a process `h \in Handler`
with a program counter `pc[h]` that names the `await` it is at; its JavaScript
locals are functions of `h`.  One action is the code between two awaits together
with the one atomic call that ends it.  `Abort(h)` is a call that rejects, a
process that dies or an answer that is lost: the handler ends, what it wrote
stays.  A request that is refused before it writes anything (unknown or expired
token, wrong password) changes no modelled state and has no action.
Rows are numbered in insertion order; ids, hashes, passwords and key bytes are
abstracted to these numbers.  Variables marked *history* record what happened
for the properties to speak of and guard nothing.  Operators marked *Mutant* are
plausible bugs, used by nothing but the mutants of `PROJECT.json`.

| Module | Models | State and code |
|---|---|---|
| `SessionSpec` | what the holder of a refresh token is promised | `held`, `accepted`, `ended`, `raced`: sessions as families of tokens, without table or handlers |
| `Sessions` | `issueSession`, `refresh`, `logout` and the table drivers; implements `SessionSpec` (`Promise`) | `issued` .. `expired`: the columns; `rotationLog`: `REFRESH_TOKEN_ROTATED` events; `delivered`: raw tokens a client has; `Login`, `RefreshLive`, `RefreshReused`, `LogoutFind` are the read that starts a request, `CreateRow`, `RevokeReplaced`, `AuditRotated`, `Burn`, `LogoutRevoke`, `Respond` the awaits after it |
| `AccountColumns` | the values of an account's columns, for *Accounts* and the tiers | constants only |
| `Accounts` | the auth routes, Google sign-in and linking, DID provisioning, e-mail verification | columns of `accounts`; `didDocs`, `keys`: the DID and key tables; `mailed`: tokens that reached a mailbox; `Register` .. `VerifyEmail` start requests with their validation, `InsertAccount`, `CreateDid`, `CreateKey`, `SetIssuerDid`, `LinkGoogleId`, `MarkEmailVerified`, `SetVerificationToken`, `SendMail` are the awaits |
| `Quota` | the guard in front of `POST /v1/vcs`, the route, the un-awaited audit write, `GET /v1/vcs` | `log`: `ACCOUNT_VC_ISSUED` rows of the last 24 h; `pending`: writes under way; `recent`: credentials of the last 24 h; `AgeVc`, `AgeEvent` slide the window |
| `Ownership` | the link tables and every route that reads or writes them | one `links` for the three tables (one class, three keys); `known`: keys that left the server; `heir`: on whose behalf an item was created |
| `AuditLog` | composes `Ownership` with the log it leaves, the ingestion routes and the list | `trail`: the log; `flying`: un-awaited events; `asking`: list requests between page and answer; `VpVerification`: a presentation is verified and any `Body` is posted of it; `Truthful` bodies are those of a caller that posts what was verified; `Summary`: the delegation projection |
| `StoreRows`, `PrismaStore`, `SqliteStore`, `MemoryStore` | rows and patches; one module per tier, the same operations | tables and `answer` |
| `Tiers` | the three tiers side by side; what they agree in | three copies of the tables; `clashed` (history): a unique index refused a call |
| `Drivers` | the calls the services make, each of which goes to every tier | `made`, `sent`: ids and verification hashes given out |
| `Server` | processes of `server.ts` over one database, key custody, access tokens | `container`: the environment; `proc`: key and secrets of a process and where its start is; `issuer`, `sealed`, `access`: what outlives it; `Boot(p)` is the start, one action for each await |
| `VerifierCache` | the verifier example; composed with `Server`, which it asks | `now`, `revokedAt`; `held`: the status list each process keeps; `copy`: the one `verifyVP` keeps (`Fresh` until its lifetime is over); `cache`, `handling` (the await of `verifyVP`) |
| `Consent` | one service provider: accept, revocation, tool gate, file, restart, seeder | `mem`: `SpStore.state` (`bits`: revoked bits of the status list, `grants`); `disk`: the file, or `Damaged`; `burst`: contents of overlapping writes; `valid`: grants signed with the key in use; `Accept`/`IssueGrant`, `Revoke`/`ReplaceStatusList`, `BeginWrite`/`EndWrite`, `Call`/`FetchStatusList`/`RunTool`/`Deny`, `Restart`, `Reseed` |
| `ConsentWindow` | the sign-in and consent pages in their window, and `postMessage` | `window`, `browser` (sessions at the providers), `mail` |
| `TripTalk` | `conversation.ts`: what a message says, slots, next question | operators only |
| `TripPlanner` | `gemini.ts`: a model's answers, their validation, the scripted planner | operators only |
| `TripAgent` | composes the three: page script, `/api/plan`, `/api/call`, `/api/grants` | `turn`: turns of the page between two awaits; `awaiting`, `track`, `asked`, `chips`, `flights`, `hotels`, `pending`: the page's variables; `visit`, `profile`, `grants`: the agent's |
| `Concierge` | the concierge agent, its manifest, wallets and tool gate | `disk`, `burst`, `mem`: the manifest; `wallet`: files that are loaded, appended to and written back; `parent`, `revoked`: the API's credentials; `reached`: revoked ones that no cached status list misses any more |
| `MC*` | instances for TLC | symmetry sets; start states (`MCTripAgent`, `MCVerifierCache`); the posted bodies and two constraints (`MCAuditLog`) |
| `*Proofs` | proofs | see section 6 |

Decisions a reader should know:

- *Accounts* has the unique indexes on `email` and `googleId` of the SQL tiers
  (`server.ts:171-176` opens one of those).  The in-memory driver, on which the
  service's tests run, enforces none; `Drivers` says what that means.
- Sending mail may fail, and then the address got no mail; with the no-op sender
  it always does.
- `Login` in *Sessions* stands for every way a session begins.  The password
  check and the account look-up are in *Accounts*.
- *Quota* starts with accounts whose e-mail is verified, because
  `resolveAccountOrAdmin` refuses the others before it counts.  It charges
  against `Limit`; `POST /enrollment-tokens` is the same code with another event
  type and limit.  Credentials obtained by enrolling are not metered by the code.
- In *Ownership* the core may accept any token or challenge any number of times.
  The properties hold nevertheless, so none of them rests on the single use the
  core is said to enforce.  Renewal is an operator's call and its result is
  linked to nobody, as in the code.
- *AuditLog*: the core logs when it creates, before the link is written; the log
  is in order of arrival.  `delegatedTo` falls back to the agent's or the
  subject's DID, which are one here.  A verifier's event carries no `vcId`, so
  only the operator is shown it.  `Body` is any set of posts: the route stores
  what it is given, whatever the result says, and the model does too.  An empty
  `delegationChain` counts as none.
- *Drivers* makes the calls the services can make, so an update names an existing
  row; for those of *Accounts* section 6 proves it.  Only Postgres has foreign keys (`migration.sql:308-311`); the in-memory
  tier hands out live row objects where SQL hands out copies, which no caller can
  tell as none keeps a row across an update and reads it again.
- *Server*: a random value is one nothing else in use was made with; the model
  draws the same one for all (`CHOOSE`).  A new environment makes the container
  anew, so the process that had the old one ends; access tokens end when their
  TTL is over.
- *VerifierCache* has one clock, of which a fetch takes less than a unit.  The
  server keeps a status list in each process (`server.ts:184`, `:203-204`).  With
  Redis the core has a second tier for it, which is left out: how much longer a
  list then lives is up to the core.  That the client keeps a list too is what
  the endpoint allows (`docs/public-surfaces.md:23`) and an assumption about the
  SDK.  `Revoke` may or may not drop the list of the process that served it.
- In *Consent* the SDK draws a random index out of 131072 for each grant
  (`sp-shared/identity.ts`), so the status list is the set of grants whose bit is
  set.  `Revoke` is the operation the demo's isolation test performs on the
  store; no route calls it.  `Call` presents any grant that was ever answered,
  the grant of another provider, or none, which covers whatever a wallet selects.
  `verifyVP` is modelled by what the gate relies on: it refuses a presentation
  that the current key did not sign or whose grant is revoked in the list
  fetched, and narrows the agent's scopes by this provider's grant.  The seeder
  is assumed to run while the provider is down, as the compose file orders it.
- In *TripAgent* a model may answer any text, search or booking, validated as in
  the code; `FallbackValidated` proves that this covers the scripted planner.
  Messages are what the patterns read in them: chips, suggestions, options, and
  typed messages with a city to fly to, a corrected city, or nothing of interest.
  A user who types more freely than that is left out, and so are `modify_booking`
  and logout (no page offers it).
- *Concierge* follows the two personas that delegation concerns; a third takes no
  part in any of the updates except as an entry that travels along.
  `AgentWallet.create` loads the wallet of the file if there is one
  (`docs/public-surfaces.md:99`), and enrolling appends to it: a persona that is
  onboarded again, because its entry was lost, holds both credentials.  Two
  requests that load one wallet each write it back as they loaded it, with their
  own credential behind.  `ListsExpire` says that every cached status list was
  renewed; in between, a presentation of what was revoked may still verify.

## 3. Runs

| Run | Instance | Asks |
|---|---|---|
| `sessions` | 2 accounts, 2 handlers, 3 tokens | what holds in every interleaving (`BurnIsFinal`, `HandoverComplete`, `SurvivorsBounded`, the inductive `IInv`), what more holds until two requests of an account overlap (`OneUsableTokenPerSession`, `LogoutEndsSession`), and that both together are `SessionSpec` (`KeepsPromise`) |
| `sessions_reuse_race` | 1 account, 2 handlers, 4 tokens | a documented promise concurrency breaks (finding) |
| `accounts` | 2 addresses, 1 Google id, 2 handlers, 2 accounts, 2 mails | identities stay unique, DIDs stay backed, verification stays honest |
| `quota` | 2 accounts, 2 handlers, limit 1, list limit 2, page 2, 4 credentials, 1 pending event | how far the limit is overshot, who is charged, what is never charged, what is not listed |
| `ownership` | 2 accounts, 2 handlers, 3 items | ownership through token, challenge and credential |
| `auditlog` | 2 accounts, 1 handler, 1 list request, 2 items, 1 posted event of 6 kinds about a verified chain of 3 or a rejected presentation, pages of 0 (refused) and 2 | whose records an account is shown, and what it is shown of a delegation |
| `drivers` | 2 accounts, 1 Google id, 1 mail, 2 refresh tokens, 1 link | whether the three tiers do the same |
| `verifiercache` | 2 processes, 2 keys, 1 configured and 4 random secrets, 1 account, 2 crashes or changes of configuration, 1 presentation, 2 requests, lists kept for 1 unit at either end, 3 units | starts that race and restart (`OneIssuerKey`, `MatchingServes`); what is granted through three caches (`LateIsCached`); that a deployment heals once it is configured (`SecretsHeal`) |
| `consent` | 2 handlers, 2 grants, 2 scopes | tools run only with a grant for them; grants and revocations last unless two updates crossed (`crossed`) or a start found the file cut short (`cut`) |
| `tripagent` | 2 turns in flight, 2 cities, 2 unsolicited messages, 2 selections, 2 bookings, 1 fault, 1 unread window message | slots under overlapping turns; what is booked, how often, and against what the page said; that the questions end |
| `concierge` | 2 requests in flight, 4 in all, 4 credentials, 1 fault | who stays in the manifest, who can act, what a revocation stops (`LateIsLater`) |
| `concierge_revoked` | the same, no fault | a statement of the page that does not hold (finding) |

Bounds and why they suffice.  A race needs two handlers on one row.  Except for
the liveness properties, section 6 proves what the passing runs check for every
value of the bounds, so an instance need only be large enough to refute what is
false.

- *sessions*: three tokens give a login, a rotation and a second rotation of
  either; with two handlers `SurvivorsBounded` allows one survivor while three
  tokens make room for two.
- *accounts*: two addresses and one Google id are the least in which an identity
  can be claimed twice and an address confused with another.
- *quota*: with a limit of 1, four credentials reach the overshoot of two racing
  handlers and one outstanding event; the list limit of 2 cuts the list.
- *ownership*: three items are the longest chain (token, challenge, credential).
- *auditlog*: a page of 2 out of a trail of up to 4 is cut; the route in flight
  writes its link before, between or after the look-ups of the page.  A behaviour
  is followed until its list request is answered (the constraint `Unanswered`):
  the properties speak of answers only, and further requests would start from
  the states the first one already started from.  A presentation is posted as the last record of its log
  (`PostedLast`): what its record shows depends on no other.  The bodies
  (`MCBody`) are a chain alone, every field of it, what a rejected presentation attempted, the
  same with the chain it claims, fields that contradict the chain, and a result
  the route refuses.
- *drivers*: a second account makes every unique index refuse something; a token
  can be succeeded by another, and the link be written twice.
- *verifiercache*: two processes with different keys are a race for the issuer
  DID; one crash, failed listen or reconfiguration hits every step of it, and a
  second one leaves what was drawn or configured before behind.  Four random
  values are a pair of processes and what dead ones left.  Servers and verifier
  disturb each other only through the lists that processes keep and lose, so the
  run explores them from two kinds of start (`MCInit`): an empty database with a
  verifier that has nothing left to grant, and a deployment that is up, with one
  trouble to come and a verifier at work.  Three units of time
  are what a revocation needs to outlive both lists and be seen too late.  `VerifierProofs`
  is about `Spec`, from the empty start and with every bound.
- *consent*: two grants are one to revoke and one whose signing or writing
  collides with it; each carries the required scope `s1`, which the agent lacks,
  and may carry `s2`, so a call can fail on the grant, on the ceiling, or pass.
- *tripagent* explores talk and bookings from starts of their own: the login page
  with no booking to come, two unsolicited messages or one and a fault; and a
  page on which a trip was gathered by typed answers and a flight and a hotel
  are shown, with two options to select by a user signed in at both providers, or
  one option, one fault and sign-in to come.  All are states the demo reaches,
  with histories (`crossed`, `declined` ...) empty.  Questions about slots need
  the first, questions about bookings the second.  A long conversation that mixes
  both at full bounds is not explored.
- *concierge*: four requests are two that make the personas, and two that overlap
  over them; four credentials are those of both personas, a child, and one of a
  persona that is enrolled again.

Accounts and handlers are interchangeable model values, hence the symmetry; so
are Google ids and addresses.  Rows, mails, items and credentials are numbers and
are not permuted.  The two runs with liveness use no symmetry.

Deadlock is checked in every run: a handler can always abort or a page be quiet
(`Quiet`, `Rest`), so a state without a successor would be a fault of the model.

## 4. Fairness and refinement

Most specifications are `Init /\ [][Next]_vars`: a handler may stop at every
await, and the code has no retry, timer or recovery pass that would finish its
work, so it justifies no fairness.  `UnprovisionedIsOrphaned` states the safety
side of that: what is left undone is left by a request that failed.  Two do state
fairness:

- *VerifierCache* (with *Server*): weak fairness of `Boot(p)`.  The container is
  `restart: unless-stopped`, and a start goes on to listen or ends.
  `MatchingServes` says that a process whose key is that of the stored issuer DID
  ends up listening, even when it lost the race to create it and died.  And weak
  fairness of `ExpireAccess(s)`: access tokens have a TTL.  `SecretsHeal` says
  that nothing else is needed: once every container has the issuer's key and the
  same configured secret, each process comes to accept every access token and to
  open every account's key sealed with that secret.  It promises nothing before,
  because a process without configured secrets draws its own (`server.ts:220`).
- *TripAgent*: weak fairness of the steps of requests, which end because the HTTP
  clients answer or reject and `phraseQuestion` races a timeout of 3.5 seconds;
  of `Answer`, a user who goes on answering what is asked; and of reloading a
  page whose agent has forgotten the session.  `QuestionsEnd` is the termination
  that `conversation.ts` claims of its questions, under that cooperation.

`Sessions` implements `SessionSpec` by the refinement mapping `Promise`: a token
is held once it was delivered, accepted while it is neither revoked nor expired,
of the session of its root; an ended session is one that was logged out or whose
root a burn covered.  Every step of a handler is a step of the promise or a
stutter.  The promise is strict chains for accounts whose requests never
overlapped and, from the first overlap on, only what a race leaves true.

`Accounts` implements `Drivers` by the mapping `Calls` of `AccountsProofs`: each
tier holds the service's rows, with NULL for a missing value and for the absence
of a row, and no refresh token or link.  Every write of a handler is then a call
that every tier performs, and every other step leaves the tables as they are.
This joins the two models of one table: the service is modelled over rows that
simply exist, the tiers are compared under calls that were written down by hand,
and the theorem says that no call of the service was forgotten.  It leaves out
calls a unique index refuses, which change nothing in *Accounts*.  The mapping is
not part of a run, because the product of tables and handlers repeats *accounts*
state for state.

## 5. Disagreements with the documentation

Two documented statements have a run whose only property is the statement, and a
`finding` in `PROJECT.json` with the quotation.

- *Reuse detection forces re-login everywhere.*  `refresh` reads the row and
  inserts its successor in a later call.  A refresh in flight while another
  request burns the account inserts a live token after the burn.  What does hold
  is `BurnIsFinal` (nothing that existed at the burn is ever usable, proved) and
  `SurvivorsBounded` (at most one survivor per other request in flight).
- *"Try the same booking now; HelixID should refuse the VP."*  The concierge
  revokes the first credential of a wallet, the oldest, while a persona that was
  delegated to, or that was enrolled a second time, acts with a later one.
  `LateIsLater` says that this is the only way a revocation is outlived once it
  has reached every status list.

Others are stated by what does hold, or were met on the way:

- *An account gets an issuer DID on creation.*  If the request fails before
  `setIssuerDid`, the account signs in with none and no later path provisions one
  (`UnprovisionedIsOrphaned`).
- *A free account is under its daily quota.*  Racing requests share the last
  slot; `OvershootBounded` says by how much.
- *The grant and the status list are persisted together, so that the revocation
  is not lost on restart.*  A file cut short by a crash counts as missing and
  two updates that cross lose one of them; `WithdrawnIsDurable` and
  `AnsweredIsDurable` say that nothing else does.
- A delegation that was attempted "can never be mistaken" for one that was made
  (`routes/audit-log/index.ts:62-64`).  That is up to who posts: a body with
  result `rejected` that carries a `delegationChain` or the fields of one is
  stored (`:255-274`) and shown (`:424-427`) as if it were verified.
  `DelegationShown` therefore speaks of `Truthful` posts, which keep what was
  only claimed in the `attempted` fields: those are shown as what they are, over
  other posts, pages and links in flight.
- `sp-shared/app.ts:572-573` says the correlation id is carried through to the
  grant; the redirect after sign-in (`:595`) drops it.
- The year of a typed date is read as a hotel budget (`conversation.ts:177`), so
  the hotel track may never ask for one: the value `"year"` of `hotelBudget`.
- "Must not resolve both endpoints to the same city" (`conversation.ts`): a
  suggestion tapped twice because its answer was lost can make the origin the
  destination too (`conversation.ts:209-212`), and so can a user who, unasked,
  names the city they start in, be it by tapping twice a hotel whose id holds its
  city (`:200-213`, the history `homeward`).  `TwoEnds` says that nothing else
  does; two cities suffice to check it and section 6 proves it for any number.
- The scripted planner joins every earlier message to the present one
  (`gemini.ts:174-178`): once the user said "book" it books the first option
  again for as long as that is remembered.
- The unattended demo taps the first element of its log that matches
  (`web.ts:603-605`), which may be one of an earlier step.

## 6. Proofs

The theorems hold for every set of accounts, handlers, processes, scopes, cities
and personas, and for every bound on rows, failures and requests.  They rest on
nothing but the named assumptions of the modules: a bound is a natural number,
`None` is not an account, required scopes exist.  The theorems on the tiers take
`DriversAssumption`, which TLC evaluates in *drivers*, and the one that relates
*Accounts* to them takes `NullIsNoValue`: `None` is neither a number nor a row.  `IsFiniteSet(Handler)` is assumed
where handlers are counted (*Sessions*, *Quota*).

| Module | Proves | Inductive invariant |
|---|---|---|
| `SessionsProofs` | all properties of *Sessions*; that it implements `SessionSpec` | `IInv`; `SInv` relative to it; `CountOK` |
| `AccountsProofs` | all of *Accounts*; all of *Drivers*; that *Accounts* makes the calls of *Drivers* | `IInv`: `TablesOK`, `HandlerOK`; `TiersIInv`; `CallsInv` |
| `QuotaProofs` | all of *Quota* | `IInv`; `CountOK` relative to it |
| `OwnershipProofs` | all of *Ownership* and *AuditLog*; that the composition implements *Ownership* | `IInv`; `AuditInv` relative to it |
| `VerifierProofs` | all safety of *Server* and *VerifierCache* | `ServerInv`; `VerifierInv` |
| `ConsentProofs` | all of *Consent* | `IInv`; `DInv` relative to it |
| `TripProofs` | all safety of *TripAgent*; `FallbackValidated` | `IInv`; `TalkInv` |
| `ConciergeProofs` | all of *Concierge* but the statement of the page that fails | `IInv` |

Each module has a lemma for `Init`, lemmas for the steps, `NextIInv` (or its
like), and then the theorems.  The `IInv` of *Sessions*, *Ownership* and *Consent*
is checked by their runs too.  The properties are not inductive by themselves;
what has to be added is the argument.

- *Sessions, every interleaving.*  `HandoverComplete` speaks of delivered tokens,
  but what makes it true is what a handler has done before it responds:
  `HandlersOK` ties each handler's `tok` and `new` to the table at every await,
  `LineageOK` orders rows by `parent`, `FreshRows` says a row not yet inserted
  carries nothing, and `BurnedRowsExist` keeps a burn from covering rows of the
  future.  `RevokedForever` is an action property read off the steps.
- *Sessions, one request at a time.*  An account whose requests never overlapped
  has at most one handler (`SoleHandler`), and that handler knows the state of the
  one session it works on (`SerialOK`): what it found is usable until it revokes
  it, and from then to the answer no token of the session is.
- *Sessions, the promise.*  Under the mapping of section 4 initial states are
  initial, and one lemma per action shows a step of `SessionSpec` or a stutter;
  `HandOut`, the only hard one, needs `SInv` for accounts that never raced.
- *Sessions, survivors.*  A survivor of a burn was created by a request that held
  a burned token when the burn ran (`Pending`).  Such a request creates one row
  and no new one begins, so survivors and pending requests together are fewer
  than the handlers: one of those ran the burn.
- *Accounts.*  The tables say nothing of a handler between its writes, so
  `HandlerOK` does: the provisioning comes in order (document, key, account), no
  other row holds the token a handler is about to mail, and what it will verify
  or link is the address of its row.
- *The tiers.*  `SqlSame`: the tables of Postgres and SQLite are equal after every
  call, because each patch names only columns SQLite's update knows and a key or
  token is stored for an account that exists, so that no reference refuses what
  SQLite accepts.  `MemorySame`: the in-memory tables equal them until a call is
  refused; a look-up by a unique column finds at most one row (`TierRowsOK`,
  `TierKeysOK`), so the first that one tier meets is the one the other chooses.
- *Accounts and the tiers.*  `AccountsMakeTheseCalls` needs of the service what
  the tiers cannot see (`CallsInv`): a handler about to insert or link has values
  for the columns, an update names a row because `HandlerOK` does, a verification
  token is new because `generated` only grows, and one handler at most provisions
  a row (`CallerOK`), so that its key is stored once.
- *Quota.*  A credential is at every moment with exactly one of a handler, an
  outstanding write, a row of the log, a lost event, or nobody (`Apart`,
  `HandlerOK`, `SoleHandler`).  `CountOK` bounds what is charged and in flight
  by the limit, the handlers and the outstanding writes: the last request that
  passed the check saw its account below the limit.
- *Ownership.*  `HandlersOK` carries the account through the awaits: what the
  handler will link is the account the item is created on behalf of
  (`OnBehalfOf`), which rests on `KnownIsLinked` for the item presented.
  `LinksNeverMove` is an action property.
- *AuditLog.*  Every step of the composition is a step of *Ownership* or leaves it
  as it is (`AuditLogImplementsRoutes`), so the theorems above hold in it and its
  invariant may use theirs.  `RecordOK`: what a record says of an account
  is true from the moment it is logged, and so is what it says of a delegation if
  the post was truthful (`VerdictRecord`).  `ReaderOK`: a list request
  has kept only what is its account's, and what it owes its account (`due`) it has
  kept or has yet to look up.
- *Server and VerifierCache.*  `Settled`: a process past the look-up holds the key
  of the stored document, however it came by it.  `ListsOK`: a status list names
  what was revoked before it was made (`Names`), whichever process made it and
  whoever keeps it, so that a list still in use by the time a revocation outlived
  both lifetimes names it and `verifyVP` rejects (`VerifyRejects`); `RequestsOK`
  carries this from the start of a request over its awaits to the grant.
- *Consent, every interleaving.*  `RunsAreConsented` needs that what a call
  presents was answered (`HandlersOK`), and that an answered grant was signed, so
  that a later grant does not change its scopes; `StoreOK` carries this through
  memory, file, overlapping writes, restarts and the seeder.
- *Consent, durability.*  While no two updates crossed and no start found the file
  cut short (`Calm`), an update has the store to itself (`SoleUpdate`): what it
  read is what it replaces, and what it writes is what the memory holds.
- *TripAgent.*  `FallbackValidated` is about operators: every plan of the scripted
  planner is one the validation of a model's answer lets through, which is why
  the runs need only the model's plans.  For bookings, `ShownOK` and `BookingsOK`
  follow an option and a booking on the way: a booking that is neither made nor
  declined is in one place, a turn between its reply and its call, or `pending`.
  For the slots, `DatesOK` says that a dated message on its way answers the
  question about that date on its own leg, and `OpenOK` and `EndsOK` that what is
  asked is not known yet and that the start of the trip is not on its way as its
  end.  The theorems are about `Spec`, from the login page; the run starts where
  the bounds leave room (section 3).
- *Concierge.*  A request that is alone with a persona knows its wallet
  (`WalletOK`); an update that lacks nothing (`stale`) keeps who is listed, who is
  about to be, and who is able to act (`ManifestOK`, `CleanOK`), because whoever
  is not stale when an update lands writes the same.  Wallets, loaded or on file,
  are in the order their credentials were made (`Rising`; `MadeStays`: what was
  made stays as it is), even where one written back has lost another's.  So the
  first, which is revoked, is the oldest the persona holds (`WithdrawnOK`).

Only model-checked:

- `QuestionsEnd`, `MatchingServes` and `SecretsHeal`: liveness is out of the
  prover's reach, as is anything about `ENABLED`.
- Induction over data is out of reach too; no theorem needs it, and no module
  declares a `RECURSIVE` operator.

## 7. Not modelled

- The core package and the SDKs (not in the repository): only what the code uses
  of them appears, marked external in the map.
- Cryptography (`key-custody.ts`, the signatures of `tokens.ts`) beyond the round
  trip under one secret, the framing of tokens, rate limits, status codes.
- Wiring in `server.ts`: plugins, choice of storage, the Redis tier of its cache,
  shutdown order.  The time a fetch takes (section 2).
- HTML, wording of prompts and answers, the providers of language models (a model
  may answer anything).
- Of the consent demo: audit events of the providers, logout, `modify_booking`,
  the itinerary, the planner's history as text, the driver of the unattended
  demo.  The hosted copies of the service provider and of the agent's modelled
  files are identical; `bootstrap-sps.ts` and `onboard-agent.ts` take the place
  of the seeder there.
- Of the concierge: text and rounds of a chat, scopes, the tools' data, the
  seeder as a second process.  The hosted copy differs in serving the page
  (`agent/server.ts`) and in its configuration.
- The Python ports of the demos: they repeat the TypeScript, but serve requests
  on threads, so a dictionary may change between any two statements there.  A
  model of that would be another set of interleavings over the same operations.
- The verifier session bridge and the other example scripts: straight-line calls
  of the SDK.

## 8. Plan

Every safety invariant and action property of the passing runs is a theorem, and
so are the three refinements (*Sessions* of its promise, *AuditLog* of the
ownership routes, *Accounts* of the calls to the tiers).  Still to come, in order:

1. The calls that *Sessions* and *Ownership* make, as refinements of `Drivers` like
   that of *Accounts*; the three mappings together would cover every call of
   `Drivers`.
2. The Python port as interleavings of its own (section 7).
3. Liveness, which stays with TLC.
