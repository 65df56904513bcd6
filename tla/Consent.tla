------------------------------ MODULE Consent ------------------------------
(***************************************************************************)
(* One service provider of the consent demo: the grants it issues on the    *)
(* user's consent, the status list that revokes them, the file both are     *)
(* kept in, the key it signs them with, and the scope gate in front of its  *)
(* tools (examples/e2e-consent-demo/sp-shared/app.ts, store.ts, serve.ts,   *)
(* identity.ts, seed/seed.ts).                                              *)
(*                                                                          *)
(* A handler has one action per await.  The store's state is one object in  *)
(* the memory of the process; a flush overwrites the file in place, which   *)
(* is cut short from the moment it is opened until it is written.  The      *)
(* process may die at any moment and starts again from the file.            *)
(*                                                                          *)
(* issueGrant, revokeGrant and verifyVP are the SDK's.  Each grant has a    *)
(* random index of its own in the status list: the list is the set of the   *)
(* grants whose bit is set.  An updated list is made from the list given.   *)
(***************************************************************************)
EXTENDS Naturals, FiniteSets

CONSTANTS
    Handler,    \* requests that can be in flight at once
    Scope,      \* the catalog of scopes
    Required,   \* scopes every selection must contain (accept-terms)
    ToolScope,  \* scopes some tool requires
    Ceiling,    \* privilegeScopes of the agent's own credential
    MaxGrants   \* bound: grants ever issued

ASSUME ConsentAssumption ==
    /\ Required \subseteq Scope /\ Required # {}
    /\ ToolScope \subseteq Scope
    /\ Ceiling \subseteq Scope
    /\ MaxGrants \in Nat

Grant == 1 .. MaxGrants

NoGrant == 0                 \* the presentation holds the agent's credential only

Foreign == MaxGrants + 1     \* it holds a grant of another service provider

State == [bits : SUBSET Grant, grants : SUBSET Grant]

Damaged == [bits |-> {}, grants |-> {NoGrant}]   \* not JSON

VARIABLES
    issued,    \* grants signed so far: 1 .. issued
    scopes,    \* the scopes of each
    mem,       \* SpStore.state
    disk,      \* the file
    burst,     \* contents of the writes that overlap on the file now
    valid,     \* grants signed with the key the provider serves in its did.json
    pc,        \* the await each handler is at
    seen,      \* local: the bits of the status list it read
    subject,   \* local: the grant it issued, revokes or was presented
    chosen,    \* local: the scopes accepted, or the tool's required scope
    late,      \* local: the grant presented had been withdrawn before the call
    answered,  \* grants that reached the agent: POST accept answered 201
    withdrawn, \* grants whose revocation completed
    runs,      \* history: tool runs, <<grant presented, required scope>>
    lateRun,   \* history: a late call ran a tool
    crossed,   \* history: a store update began while another was in flight
    cut        \* history: a start found the file damaged

store == <<mem, disk, burst, valid>>
locals == <<pc, seen, subject, chosen, late>>
history == <<runs, lateRun, crossed, cut>>
vars == <<issued, scopes, store, locals, answered, withdrawn, history>>

PC == {"idle", "sign", "flip", "mkdir", "write", "fetch", "decide"}

Updating(h) == pc[h] \in {"sign", "flip", "mkdir", "write"}

TypeOK ==
    /\ issued \in 0 .. MaxGrants
    /\ scopes \in [Grant -> SUBSET Scope]
    /\ mem \in State
    /\ disk \in State \union {Damaged}
    /\ burst \subseteq State
    /\ valid \subseteq Grant
    /\ pc \in [Handler -> PC]
    /\ seen \in [Handler -> SUBSET Grant]
    /\ subject \in [Handler -> Grant \union {NoGrant, Foreign}]
    /\ chosen \in [Handler -> SUBSET Scope]
    /\ late \subseteq Handler
    /\ answered \subseteq Grant
    /\ withdrawn \subseteq Grant
    /\ runs \subseteq (Grant \union {NoGrant, Foreign}) \X Scope
    /\ lateRun \in BOOLEAN
    /\ crossed \in BOOLEAN
    /\ cut \in BOOLEAN

Fresh == [bits |-> {}, grants |-> {}]

Init ==
    /\ issued = 0
    /\ scopes = [g \in Grant |-> {}]
    /\ mem = Fresh
    /\ disk = Fresh
    /\ burst = {}
    /\ valid = {}
    /\ pc = [h \in Handler |-> "idle"]
    /\ seen = [h \in Handler |-> {}]
    /\ subject = [h \in Handler |-> NoGrant]
    /\ chosen = [h \in Handler |-> {}]
    /\ late = {}
    /\ answered = {}
    /\ withdrawn = {}
    /\ runs = {}
    /\ lateRun = FALSE
    /\ crossed = FALSE
    /\ cut = FALSE

-----------------------------------------------------------------------------
(* Handler control.                                                         *)

Goto(h, label) == pc' = [pc EXCEPT ![h] = label]

Start(h, label, bits, g, S) ==
    /\ pc[h] = "idle"
    /\ Goto(h, label)
    /\ seen' = [seen EXCEPT ![h] = bits]
    /\ subject' = [subject EXCEPT ![h] = g]
    /\ chosen' = [chosen EXCEPT ![h] = S]

Finish(h) ==
    /\ Goto(h, "idle")
    /\ seen' = [seen EXCEPT ![h] = {}]
    /\ subject' = [subject EXCEPT ![h] = NoGrant]
    /\ chosen' = [chosen EXCEPT ![h] = {}]
    /\ late' = late \ {h}

-----------------------------------------------------------------------------
(* POST /api/consent/accept                                                 *)

\* A selection without a required scope is refused and changes nothing.  The
\* status list is read when the grant is signed.
Accept(h, S) ==
    /\ Required \subseteq S
    /\ Start(h, "sign", mem.bits, NoGrant, S)
    /\ crossed' = (crossed \/ \E k \in Handler : Updating(k))
    /\ UNCHANGED <<issued, scopes, store, late, answered, withdrawn, runs, lateRun, cut>>

\* Mutant: only the list is replaced.
RecordListOnly(g, bits) == [bits |-> bits, grants |-> mem.grants]

\* recordGrant: the grant is pushed and the list is replaced in memory.
Record(g, bits) == [bits |-> bits, grants |-> mem.grants \union {g}]

\* issueGrant has signed; recordGrant up to its first await.
IssueGrant(h) ==
    /\ pc[h] = "sign"
    /\ issued < MaxGrants
    /\ LET g == issued + 1 IN
        /\ issued' = g
        /\ scopes' = [scopes EXCEPT ![g] = chosen[h]]
        /\ mem' = Record(g, seen[h])
        /\ valid' = valid \union {g}
        /\ subject' = [subject EXCEPT ![h] = g]
    /\ Goto(h, "mkdir")
    /\ UNCHANGED <<disk, burst, seen, chosen, late, answered, withdrawn, history>>

(* Revocation by the operator: getStatusList, revokeGrant,                  *)
(* replaceStatusList.  Only a grant the store still knows can be revoked.   *)

Revoke(h, g) ==
    /\ g \in mem.grants \ mem.bits
    /\ Start(h, "flip", mem.bits, g, {})
    /\ crossed' = (crossed \/ \E k \in Handler : Updating(k))
    /\ UNCHANGED <<issued, scopes, store, late, answered, withdrawn, runs, lateRun, cut>>

\* Mutant: the list read is written back as it was.
ReplaceUnflipped(h) ==
    /\ pc[h] = "flip"
    /\ mem' = [mem EXCEPT !.bits = seen[h]]
    /\ Goto(h, "mkdir")
    /\ UNCHANGED <<issued, scopes, disk, burst, valid, seen, subject, chosen, late,
                   answered, withdrawn, history>>

ReplaceStatusList(h) ==
    /\ pc[h] = "flip"
    /\ mem' = [mem EXCEPT !.bits = seen[h] \union {subject[h]}]
    /\ Goto(h, "mkdir")
    /\ UNCHANGED <<issued, scopes, disk, burst, valid, seen, subject, chosen, late,
                   answered, withdrawn, history>>

-----------------------------------------------------------------------------
(* flush: mkdir, then writeFile of the state as it is when mkdir returns.   *)

Writing == {h \in Handler : pc[h] = "write"}

BeginWrite(h) ==
    /\ pc[h] = "mkdir"
    /\ burst' = IF Writing = {} THEN {mem} ELSE burst \union {mem}
    /\ disk' = Damaged
    /\ Goto(h, "write")
    /\ UNCHANGED <<issued, scopes, mem, valid, seen, subject, chosen, late, answered,
                   withdrawn, history>>

\* What writes that overlapped leave behind: the last to land, or a mixture.
Landed == burst \union (IF Cardinality(burst) > 1 THEN {Damaged} ELSE {})

\* The write ends and the request is answered.
EndWrite(h) ==
    /\ pc[h] = "write"
    /\ IF Writing = {h} THEN disk' \in Landed /\ burst' = {} ELSE UNCHANGED <<disk, burst>>
    /\ IF chosen[h] = {}
       THEN withdrawn' = withdrawn \union {subject[h]} /\ UNCHANGED answered
       ELSE answered' = answered \union {subject[h]} /\ UNCHANGED withdrawn
    /\ Finish(h)
    /\ UNCHANGED <<issued, scopes, mem, valid, history>>

-----------------------------------------------------------------------------
(* POST /api/mcp, tools/call of a tool that requires a scope.  Without a    *)
(* presentation the call is answered CONSENT_REQUIRED at once.              *)

Call(h, s, p) ==
    /\ s \in ToolScope
    /\ p \in answered \union {NoGrant, Foreign}
    /\ Start(h, "fetch", {}, p, {s})
    /\ late' = IF p \in withdrawn THEN late \union {h} ELSE late
    /\ UNCHANGED <<issued, scopes, store, answered, withdrawn, history>>

\* verifyVP reads this provider's status list: GET /status-list/1.
FetchStatusList(h) ==
    /\ pc[h] = "fetch"
    /\ seen' = [seen EXCEPT ![h] = mem.bits]
    /\ Goto(h, "decide")
    /\ UNCHANGED <<issued, scopes, store, subject, chosen, late, answered, withdrawn, history>>

\* Mutant: revocation is not looked at.
VerifiesSignature(h) == subject[h] \in Grant \union {NoGrant, Foreign}

\* verifyVP refuses a presentation with a grant that is revoked or was signed
\* with another key; the effective scopes are the agent's own, narrowed by a
\* grant of this provider.
Verifies(h) == subject[h] \notin seen[h] /\ subject[h] \in valid \union {NoGrant, Foreign}

EffectiveScopes(p) == IF p \in Grant THEN Ceiling \intersect scopes[p] ELSE Ceiling

\* Mutant: the effective scopes alone decide.
MayRunAnyScope(p, S) == S \subseteq EffectiveScopes(p)

\* A grant this provider issued is presented and the scope is effective.
MayRun(p, S) == p \in Grant /\ S \subseteq EffectiveScopes(p)

RunTool(h) ==
    /\ pc[h] = "decide"
    /\ Verifies(h)
    /\ MayRun(subject[h], chosen[h])
    /\ runs' = runs \union ({subject[h]} \X chosen[h])
    /\ lateRun' = (lateRun \/ h \in late)
    /\ Finish(h)
    /\ UNCHANGED <<issued, scopes, store, answered, withdrawn, crossed, cut>>

Deny(h) ==
    /\ pc[h] = "decide"
    /\ ~Verifies(h) \/ ~MayRun(subject[h], chosen[h])
    /\ Finish(h)
    /\ UNCHANGED <<issued, scopes, store, answered, withdrawn, history>>

-----------------------------------------------------------------------------
(* Failures.                                                                *)

\* A call rejects: 500.  A write that fails leaves the file damaged.
Abort(h) ==
    /\ pc[h] # "idle"
    /\ burst' = IF Writing \subseteq {h} THEN {} ELSE burst
    /\ Finish(h)
    /\ UNCHANGED <<issued, scopes, mem, disk, valid, answered, withdrawn, history>>

\* Mutant: what was read is not parsed.
OpenedAnyhow == disk

\* SpStore.open: the file's state, or an empty one if it cannot be read.
Opened == IF disk = Damaged THEN Fresh ELSE disk

\* The process dies and a start finds that state; open flushes an empty one.
Boot(found) ==
    /\ mem' = found
    /\ disk' = found
    /\ burst' = {}
    /\ cut' = (cut \/ disk = Damaged)
    /\ pc' = [h \in Handler |-> "idle"]
    /\ seen' = [h \in Handler |-> {}]
    /\ subject' = [h \in Handler |-> NoGrant]
    /\ chosen' = [h \in Handler |-> {}]
    /\ late' = {}
    /\ UNCHANGED <<issued, scopes, answered, withdrawn, runs, lateRun, crossed>>

Restart == Boot(Opened) /\ UNCHANGED valid

\* Mutant: every run of the seeder provisions anew.
Always == TRUE

\* provisionSpIdentity cannot read the identity or the state, and takes them
\* for missing.
Unprovisioned == disk = Damaged

\* The provider dies and the seeder runs before it starts again: a generated
\* key and an empty state replace what could not be read.
Reseed ==
    /\ Unprovisioned
    /\ Boot(Fresh)
    /\ valid' = {}

HandlerStep(h) ==
    \/ IssueGrant(h) \/ ReplaceStatusList(h) \/ BeginWrite(h) \/ EndWrite(h)
    \/ FetchStatusList(h) \/ RunTool(h) \/ Deny(h)

Next ==
    \/ \E h \in Handler :
        \/ \E S \in SUBSET Scope : Accept(h, S)
        \/ \E g \in Grant : Revoke(h, g)
        \/ \E s \in Scope, p \in Grant \union {NoGrant, Foreign} : Call(h, s, p)
        \/ HandlerStep(h)
        \/ Abort(h)
    \/ Restart
    \/ Reseed

Spec == Init /\ [][Next]_vars

-----------------------------------------------------------------------------
(* Properties.                                                              *)

\* A scoped tool runs only with a grant this provider issued, that a user was
\* given an answer for, that carries the tool's scope, and within the agent's
\* own authority, whatever is revoked, lost or restarted meanwhile.
RunsAreConsented ==
    \A r \in runs :
        /\ r[1] \in answered
        /\ r[2] \in scopes[r[1]] \intersect Ceiling

\* The strengthening that makes it inductive: only signed grants are answered,
\* and a handler works on a signed grant or presents an answered one.
HandlersOK ==
    /\ answered \subseteq 1 .. issued
    /\ \A h \in Handler :
        /\ pc[h] \in {"flip", "mkdir", "write"} => subject[h] \in 1 .. issued
        /\ pc[h] \in {"fetch", "decide"} => subject[h] \in answered \union {NoGrant, Foreign}

\* Grants the store knows were signed.
StoreOK ==
    /\ mem.grants \subseteq 1 .. issued
    /\ \A written \in burst : written.grants \subseteq 1 .. issued
    /\ disk = Damaged \/ disk.grants \subseteq 1 .. issued

IInv == TypeOK /\ HandlersOK /\ StoreOK /\ RunsAreConsented

Calm == ~crossed /\ ~cut

\* Unless two updates crossed or the file was found cut short, a grant that was
\* answered verifies and is known to the provider, and still is after the
\* seeder ran again and the provider was restarted: it can be used and revoked.
AnsweredIsDurable ==
    Calm =>
        /\ answered \subseteq mem.grants \intersect valid
        /\ disk # Damaged => answered \subseteq disk.grants

\* Likewise a completed revocation is served, and survives a restart.
WithdrawnIsDurable ==
    Calm =>
        /\ withdrawn \subseteq mem.bits
        /\ disk # Damaged => withdrawn \subseteq disk.bits

\* Likewise no call that began after a revocation completed runs a tool with
\* the grant revoked.
NoLateRun == Calm => ~lateRun

=============================================================================
