----------------------------- MODULE Concierge -----------------------------
(***************************************************************************)
(* The agent of the travel concierge (examples/e2e-travel-concierge): its   *)
(* personas, their wallets, and the requests that enrol, delegate, revoke   *)
(* and act (agent/server.ts, personas/store.ts, personas/enroll.ts,         *)
(* agent/tools/protectedCall.ts, agent/chat/runChatTurn.ts, the gate of     *)
(* mcp-server/server.ts).                                                   *)
(*                                                                          *)
(* A persona is an entry of the manifest file and an encrypted wallet file; *)
(* the agent keeps a copy of the manifest in memory.  Every update reads    *)
(* the manifest, merges and overwrites it in place, in three awaits and     *)
(* without a lock; a file that cannot be parsed counts as empty.  The SDK   *)
(* (wallets, enrolment, delegation) is modelled as it is used here: each    *)
(* call on a wallet file is one step, and writes the wallet as it was       *)
(* loaded.  Who verifies a presentation may read the status lists from a    *)
(* cache.  Personas that no request concerns, the seeded one among them,    *)
(* are left out, and so is the text of a chat.                              *)
(***************************************************************************)
EXTENDS Naturals, FiniteSets, Sequences, SequencesExt

CONSTANTS
    Handler,    \* requests that can be in flight at the agent at once
    None,       \* nobody
    Absent,     \* a persona that is not in the manifest
    Damaged,    \* a file JSON.parse refuses
    Source,     \* DELEGATION_SOURCE_ID
    Target,     \* DELEGATION_TARGET_ID
    Custom,     \* persona ids that POST /onboard-agent is called with
    MaxSerial,  \* bound: credentials ever made
    MaxRequests,\* bound: requests ever served
    MaxFaults   \* bound: failed calls and crashes

ASSUME ConciergeAssumption ==
    /\ Cardinality({Source, Target, None}) = 3
    /\ Custom \subseteq {Source, Target}
    /\ MaxSerial \in Nat \ {0}
    /\ MaxRequests \in Nat
    /\ MaxFaults \in Nat

Id == {Source, Target}

\* Credentials are numbered in the order they are made.
Serial == 1 .. MaxSerial

\* A manifest entry is its activeCredentialId (0: unset, the wallet's first);
\* names, scopes and paths only travel with it.
Manifest == [Id -> {Absent, 0} \union Serial]

NoPersonas == [i \in Id |-> Absent]

ASSUME MarkerAssumption == Damaged \notin Manifest /\ Absent \notin {0} \union Serial

VARIABLES
    made,      \* credentials made so far: 1 .. made
    parent,    \* the credential a delegated credential narrows, 0 for the others
    fits,      \* the ensureDelegationPersona input a credential satisfies
    revoked,   \* credentials revoked at the HelixID API
    reached,   \* those of them that no cached status list misses any more
    wallet,    \* wallet files: the credentials in order
    disk,      \* personas.json
    burst,     \* contents of the overlapping writes to it
    mem,       \* personas, the agent's copy
    pc,        \* the await each request is at
    req,       \* the local variables of each request
    clean,     \* history: personas last changed by one complete request, alone
    listed,    \* history: personas whose creation was acknowledged
    withdrawn, \* history: pairs of a credential a persona held when its revocation was
               \* acknowledged and the credential that was revoked
    late,      \* history: those a tool ran with once the revocation had reached every list
    stale,     \* history: updates that lack what another one landed meanwhile
    fresh,     \* history: the file was last changed by an update the agent kept
    served,    \* requests so far
    faults     \* failed calls and crashes so far

api == <<made, parent, fits, revoked, reached>>
files == <<wallet, disk, burst>>
local == <<pc, req>>
verdict == <<clean, listed, withdrawn, late, stale, fresh>>
count == <<served, faults>>
vars == <<api, files, mem, local, verdict, count>>

PC == {"idle", "inspect", "create", "enroll", "loadFrom", "loadTo", "delegate", "addCredential",
       "read", "write", "land", "assign", "loadRevoke", "revoke", "complete", "loadTool", "mcp"}

Op == {"none", "onboard", "ensureNew", "ensureOld", "delegate", "revoke", "chat"}

\* The route, the persona, the wallet in memory, the credential found or made,
\* the manifest to be written, and (history) whether no other request worked
\* on the persona meanwhile.
Request == [op : Op, id : Id \union {None}, loaded : Seq(Serial), cred : {0} \union Serial,
            merged : Manifest, alone : BOOLEAN]

NoRequest == [op |-> "none", id |-> None, loaded |-> <<>>, cred |-> 0,
              merged |-> NoPersonas, alone |-> TRUE]

TypeOK ==
    /\ made \in 0 .. MaxSerial
    /\ parent \in [Serial -> {0} \union Serial]
    /\ fits \in [Serial -> Id \union {None}]
    /\ revoked \subseteq Serial /\ reached \subseteq revoked
    /\ wallet \in [Id -> Seq(Serial)]
    /\ disk \in Manifest \union {Damaged}
    /\ burst \subseteq Manifest
    /\ mem \in Manifest
    /\ pc \in [Handler -> PC]
    /\ req \in [Handler -> Request]
    /\ clean \subseteq Id /\ listed \subseteq Id
    /\ withdrawn \subseteq Serial \X Serial /\ late \subseteq withdrawn
    /\ stale \subseteq Handler /\ fresh \in BOOLEAN
    /\ served \in 0 .. MaxRequests /\ faults \in 0 .. MaxFaults

\* main: loadPersonas, before the agent listens.
Init ==
    /\ made = 0
    /\ parent = [c \in Serial |-> 0]
    /\ fits = [c \in Serial |-> None]
    /\ revoked = {} /\ reached = {}
    /\ wallet = [i \in Id |-> <<>>]
    /\ disk = NoPersonas
    /\ burst = {}
    /\ mem = disk
    /\ pc = [h \in Handler |-> "idle"]
    /\ req = [h \in Handler |-> NoRequest]
    /\ clean = {}
    /\ listed = {}
    /\ withdrawn = {}
    /\ late = {}
    /\ stale = {}
    /\ fresh = TRUE
    /\ served = 0 /\ faults = 0

-----------------------------------------------------------------------------
(* Control.                                                                 *)

Goto(h, label) == pc' = [pc EXCEPT ![h] = label]

\* A request comes in.
Arrive(h) ==
    /\ pc[h] = "idle"
    /\ served < MaxRequests
    /\ served' = served + 1

Changing == {"onboard", "ensureNew", "ensureOld", "delegate"}

\* h turns to persona i with the given route and credential; whoever else works
\* on i is no longer alone with it.
Enter(h, route, i, c, label) ==
    LET others == {q \in Handler \ {h} : req[q].id = i /\ req[q].op \in Changing} IN
    /\ Goto(h, label)
    /\ req' = [q \in Handler |->
                IF q = h THEN [NoRequest EXCEPT !.op = route, !.id = i, !.cred = c,
                                                !.alone = (others = {})]
                ELSE [req[q] EXCEPT !.alone = @ /\ q \notin others]]

Finish(h) ==
    /\ Goto(h, "idle")
    /\ req' = [req EXCEPT ![h] = NoRequest]

\* h found or made the credential c and awaits the next call.
Take(h, c, label) ==
    /\ Goto(h, label)
    /\ req' = [req EXCEPT ![h].cred = c]

\* ensureDelegationPersona(i), against the agent's copy m of the manifest.
Ensure(h, i, m) ==
    IF m[i] = Absent
    THEN Enter(h, "ensureNew", i, 0, "create")
    ELSE Enter(h, "ensureOld", i, m[i], "inspect")

\* POST /delegation-demo-agents ensures Source, then Target; the other routes
\* answer.
Proceed(h, m) ==
    IF req[h].op \in {"ensureNew", "ensureOld"} /\ req[h].id = Source
    THEN Ensure(h, Target, m)
    ELSE Finish(h)

-----------------------------------------------------------------------------
(* The persona registry.                                                    *)

\* readManifest: a file that cannot be read or parsed holds no personas.
Read(file) == IF file = Damaged THEN NoPersonas ELSE file

Updating == {h \in Handler : pc[h] \in {"write", "land", "assign"}}

Writing == {h \in Handler : pc[h] = "land"}

\* The merge: activeCredentialId is set by updatePersona, not by addPersona.
Merge(h, m) ==
    [m EXCEPT ![req[h].id] = IF req[h].op \in {"ensureOld", "delegate"} THEN req[h].cred ELSE 0]

\* updatePersona throws for a persona that is not in the file.
Known(h, m) == req[h].op \in {"ensureOld", "delegate"} => m[req[h].id] # Absent

\* Mutant: the agent merges into its own copy instead of reading again.
ReadMemory(h) == mem

\* await readManifest()
ReadFile(h) == Read(disk)

\* readManifest and merge.
ReadManifest(h) ==
    /\ pc[h] = "read"
    /\ LET m == ReadFile(h) IN
        IF Known(h, m)
        THEN /\ req' = [req EXCEPT ![h].merged = Merge(h, m)]
             /\ Goto(h, "write")
        ELSE Finish(h)
    /\ stale' = IF disk = Damaged /\ pc'[h] = "write" THEN stale \union {h} ELSE stale
    /\ UNCHANGED <<api, files, mem, clean, listed, withdrawn, late, fresh, count>>

\* writeFile truncates the file ...
BeginWrite(h) ==
    /\ pc[h] = "write"
    /\ disk' = Damaged
    /\ burst' = (IF Writing = {} THEN {} ELSE burst) \union {req[h].merged}
    /\ Goto(h, "land")
    /\ UNCHANGED <<api, wallet, mem, req, verdict, count>>

\* ... and fills it; of writes that overlapped, one content is left or a
\* mixture of both.  Whoever read before lacks this update; a stale update
\* may have undone any other.
Land(h) ==
    LET overlapped == burst # {req[h].merged}
        lossy == overlapped \/ h \in stale IN
    /\ pc[h] = "land"
    /\ disk' \in IF overlapped THEN burst \union {Damaged} ELSE burst
    /\ burst' = IF Writing = {h} THEN {} ELSE burst
    /\ stale' = stale \union {q \in Updating : overlapped \/ req[q].merged # req[h].merged}
    /\ fresh' = TRUE
    /\ clean' = IF lossy THEN {}
                ELSE IF ~req[h].alone THEN clean \ {req[h].id}
                ELSE clean \union {req[h].id}
    /\ listed' = IF lossy THEN {} ELSE listed
    /\ Goto(h, "assign")
    /\ UNCHANGED <<api, wallet, mem, req, withdrawn, late, count>>

\* Mutant: the merged manifest is written but not kept.
KeptOld(h) == mem

Kept(h) == req[h].merged

\* personas = merged, in the same turn of the event loop as what follows.
Assign(h) ==
    /\ pc[h] = "assign"
    /\ mem' = Kept(h)
    /\ listed' = IF h \in stale THEN listed ELSE listed \union {req[h].id}
    /\ fresh' = (fresh /\ h \notin stale)
    /\ stale' = stale \ {h}
    /\ Proceed(h, mem')
    /\ UNCHANGED <<api, files, clean, withdrawn, late, count>>

-----------------------------------------------------------------------------
(* Enrolment: enrollPersona, entered by POST /onboard-agent and             *)
(* POST /delegation-demo-agents.                                            *)

\* hasPersona
Onboard(h, i) ==
    /\ Arrive(h)
    /\ mem[i] = Absent
    /\ Enter(h, "onboard", i, 0, "create")
    /\ UNCHANGED <<api, files, mem, verdict, faults>>

DemoAgents(h) ==
    /\ Arrive(h)
    /\ Ensure(h, Source, mem)
    /\ UNCHANGED <<api, files, mem, verdict, faults>>

\* The first credential of the wallet that satisfies the input: one or none.
Matching(w, i) ==
    {w[k] : k \in {n \in DOMAIN w : fits[w[n]] = i /\ \A j \in 1 .. n - 1 : fits[w[j]] # i}}

\* AgentWallet.load: a matching credential is made the active one, if it is
\* not; without one the persona is enrolled afresh.
Inspect(h) ==
    /\ pc[h] = "inspect"
    /\ LET match == Matching(wallet[req[h].id], req[h].id) IN
        IF match = {}
        THEN Goto(h, "create") /\ UNCHANGED req
        ELSE IF req[h].cred \in match
        THEN Proceed(h, mem)
        ELSE \E c \in match : Take(h, c, "read")
    /\ UNCHANGED <<api, files, mem, verdict, count>>

\* AgentWallet.create: the wallet of the file, or a new file with an empty one.
CreateWallet(h) ==
    /\ pc[h] = "create"
    /\ req' = [req EXCEPT ![h].loaded = wallet[req[h].id]]
    /\ Goto(h, "enroll")
    /\ UNCHANGED <<api, files, mem, verdict, count>>

\* Mutant: the wallet file is replaced by one with the new credential only.
OnlyEnrolled(h) == <<made'>>

\* The wallet as it was loaded, with the new credential behind what it holds.
WithEnrolled(h) == Append(req[h].loaded, made')

\* client.enroll: the credential is issued, and the wallet that holds it too is
\* written over whatever the file holds by now.
Enroll(h) ==
    /\ pc[h] = "enroll"
    /\ made < MaxSerial
    /\ made' = made + 1
    /\ fits' = [fits EXCEPT ![made'] = IF req[h].op = "onboard" THEN None ELSE req[h].id]
    /\ wallet' = [wallet EXCEPT ![req[h].id] = WithEnrolled(h)]
    /\ clean' = IF req[h].alone THEN clean ELSE clean \ {req[h].id}
    /\ req' = [req EXCEPT ![h].cred = made', ![h].loaded = <<>>]
    /\ Goto(h, "read")
    /\ UNCHANGED <<parent, revoked, reached, disk, burst, mem,
                   listed, withdrawn, late, stale, fresh, count>>

-----------------------------------------------------------------------------
(* POST /delegate-agent: both personas are in the agent's copy.             *)

Delegate(h) ==
    /\ Arrive(h)
    /\ mem[Source] # Absent /\ mem[Target] # Absent
    /\ Enter(h, "delegate", Target, 0, "loadFrom")
    /\ UNCHANGED <<api, files, mem, verdict, faults>>

\* AgentWallet.load(fromPersona.walletFile); findDelegationSourceCredential:
\* only a credential enrolled for Source may be narrowed, and none can twice.
LoadFrom(h) ==
    /\ pc[h] = "loadFrom"
    /\ LET sources == Matching(wallet[Source], Source) IN
        IF sources = {} THEN Finish(h) ELSE \E c \in sources : Take(h, c, "loadTo")
    /\ UNCHANGED <<api, files, mem, verdict, count>>

\* AgentWallet.load(toPersona.walletFile)
LoadTo(h) ==
    /\ pc[h] = "loadTo"
    /\ req' = [req EXCEPT ![h].loaded = wallet[Target]]
    /\ Goto(h, "delegate")
    /\ UNCHANGED <<api, files, mem, verdict, count>>

\* delegate: a child of the source's credential, unless its status list says
\* that it was revoked.
MakeChild(h) ==
    /\ pc[h] = "delegate"
    /\ made < MaxSerial
    /\ req[h].cred \notin reached
    /\ made' = made + 1
    /\ parent' = [parent EXCEPT ![made'] = req[h].cred]
    /\ Take(h, made', "addCredential")
    /\ UNCHANGED <<fits, revoked, reached, files, mem, verdict, count>>

\* toWallet.addCredential: the wallet as it was loaded, with the child, over
\* whatever the file holds by now.
WithChild(h) == [wallet EXCEPT ![Target] = Append(req[h].loaded, req[h].cred)]

AddCredential(h) ==
    /\ pc[h] = "addCredential"
    /\ wallet' = WithChild(h)
    /\ clean' = IF req[h].alone THEN clean ELSE clean \ {Target}
    /\ req' = [req EXCEPT ![h].loaded = <<>>]
    /\ Goto(h, "read")
    /\ UNCHANGED <<api, disk, burst, mem, listed, withdrawn, late, stale, fresh, count>>

-----------------------------------------------------------------------------
(* POST /revoke-agent.                                                      *)

Revoke(h, i) ==
    /\ Arrive(h)
    /\ mem[i] # Absent
    /\ Enter(h, "revoke", i, 0, "loadRevoke")
    /\ UNCHANGED <<api, files, mem, verdict, faults>>

\* Mutant: the credential added last is revoked.
Newest(w) == w[Len(w)]

\* wallet.credentials[0]
First(w) == w[1]

\* AgentWallet.load; a wallet without credentials ends the request.
LoadRevoke(h) ==
    /\ pc[h] = "loadRevoke"
    /\ LET w == wallet[req[h].id] IN
        IF w = <<>>
        THEN Finish(h)
        ELSE /\ req' = [req EXCEPT ![h].loaded = w, ![h].cred = First(w)]
             /\ Goto(h, "revoke")
    /\ UNCHANGED <<api, files, mem, verdict, count>>

\* client.revokeVC, and the answer that the persona's credential is revoked.
\* A child has no entry in a status list: the API refuses.
RevokeVC(h) ==
    /\ pc[h] = "revoke"
    /\ parent[req[h].cred] = 0
    /\ revoked' = revoked \union {req[h].cred}
    /\ withdrawn' = withdrawn \union (ToSet(req[h].loaded) \X {req[h].cred})
    /\ Finish(h)
    /\ UNCHANGED <<made, parent, fits, reached, files, mem, clean, listed, late, stale, fresh, count>>

-----------------------------------------------------------------------------
(* POST /chat to Target: runChatTurn.  The text of the conversation and the *)
(* limit of four rounds are left out.                                       *)

\* The turn keeps the persona's entry as it is now.
Chat(h) ==
    /\ Arrive(h)
    /\ mem[Target] # Absent
    /\ Enter(h, "chat", Target, mem[Target], "complete")
    /\ UNCHANGED <<api, files, mem, verdict, faults>>

\* provider.complete answers with text and the turn ends ...
CompleteText(h) ==
    /\ pc[h] = "complete"
    /\ Finish(h)
    /\ UNCHANGED <<api, files, mem, verdict, count>>

\* ... or with a call of a protected tool.
CompleteCall(h) ==
    /\ pc[h] = "complete"
    /\ Goto(h, "loadTool")
    /\ UNCHANGED <<api, files, mem, req, verdict, count>>

\* callProtectedTool: the persona's active credential, or the wallet's first.
\* If the wallet does not hold it, the turn throws.
LoadTool(h) ==
    /\ pc[h] = "loadTool"
    /\ LET w == wallet[Target]
           active == req[h].cred IN
        IF w # <<>> /\ active \in {0} \union ToSet(w)
        THEN /\ req' = [req EXCEPT ![h].loaded = <<IF active = 0 THEN w[1] ELSE active>>]
             /\ Goto(h, "mcp")
        ELSE Finish(h)
    /\ UNCHANGED <<api, files, mem, verdict, count>>

\* The time that status lists may be cached for has passed since the last
\* revocation.
ListsExpire ==
    /\ reached # revoked
    /\ reached' = revoked
    /\ UNCHANGED <<made, parent, fits, revoked, files, mem, local, verdict, count>>

\* Whether the presentation of c may verify: a delegated one by its chain.
Verifies(c) == IF parent[c] = 0 THEN c \notin reached ELSE parent[c] \notin reached

\* The gate of the MCP server: the tool runs or is denied, by the API's verdict
\* (for a delegated presentation that of the local chain check) or by scope;
\* the model is asked again.
McpTool(h) ==
    LET c == req[h].loaded[1] IN
    /\ pc[h] = "mcp"
    /\ \/ UNCHANGED late
       \/ Verifies(c) /\ late' = late \union (withdrawn \intersect ({c} \X reached))
    /\ req' = [req EXCEPT ![h].loaded = <<>>]
    /\ Goto(h, "complete")
    /\ UNCHANGED <<api, files, mem, clean, listed, withdrawn, stale, fresh, count>>

-----------------------------------------------------------------------------
(* Failures.                                                                *)

\* The API refuses the call: a revoked credential is not narrowed, a child
\* has no status to revoke; or the bound MaxSerial is reached.
Refused(h) ==
    \/ pc[h] \in {"enroll", "delegate"} /\ made = MaxSerial
    \/ pc[h] = "delegate" /\ req[h].cred \in revoked
    \/ pc[h] = "revoke" /\ parent[req[h].cred] # 0

\* A call rejects (or its answer is lost): the request ends where it is.  A
\* failed write leaves the file damaged; after the write nothing is awaited.
Abort(h) ==
    /\ pc[h] \notin {"idle", "assign"}
    /\ faults < MaxFaults \/ Refused(h)
    /\ faults' = IF Refused(h) THEN faults ELSE faults + 1
    /\ Finish(h)
    /\ burst' = IF Writing = {h} THEN {} ELSE burst
    /\ stale' = stale \ {h}
    /\ UNCHANGED <<api, wallet, disk, mem, clean, listed, withdrawn, late, fresh, served>>

\* The agent dies with every request in it and starts again: loadPersonas.  A
\* file being written is left damaged.
Restart ==
    /\ faults < MaxFaults
    /\ faults' = faults + 1
    /\ mem' = Read(disk)
    /\ pc' = [h \in Handler |-> "idle"]
    /\ req' = [h \in Handler |-> NoRequest]
    /\ burst' = {}
    /\ fresh' = (disk # Damaged)
    /\ stale' = {}
    /\ UNCHANGED <<api, wallet, disk, clean, listed, withdrawn, late, served>>

\* Every request was answered, and the bound allows no more.
Rest ==
    /\ served = MaxRequests
    /\ \A h \in Handler : pc[h] = "idle"
    /\ UNCHANGED vars

HandlerStep(h) ==
    \/ Inspect(h) \/ CreateWallet(h) \/ Enroll(h)
    \/ ReadManifest(h) \/ BeginWrite(h) \/ Land(h) \/ Assign(h)
    \/ LoadFrom(h) \/ LoadTo(h) \/ MakeChild(h) \/ AddCredential(h)
    \/ LoadRevoke(h) \/ RevokeVC(h)
    \/ CompleteText(h) \/ CompleteCall(h) \/ LoadTool(h) \/ McpTool(h)

Next ==
    \/ \E h \in Handler :
        \/ DemoAgents(h)
        \/ \E i \in Custom : Onboard(h, i)
        \/ Delegate(h)
        \/ \E i \in Id : Revoke(h, i)
        \/ Chat(h)
        \/ HandlerStep(h)
        \/ Abort(h)
    \/ ListsExpire
    \/ Restart
    \/ Rest

Spec == Init /\ [][Next]_vars

-----------------------------------------------------------------------------
(* Properties.                                                              *)

\* A persona whose creation was acknowledged stays in the manifest, whatever
\* requests fail, crash or restart, until an update lands that had read the
\* file before another landed or while it could not be parsed.
ListedForever ==
    disk # Damaged => \A i \in listed : disk[i] # Absent

\* Between updates the agent acts on what the file says, if the last update
\* lacked none.
MemoryIsCurrent ==
    fresh /\ Updating = {} /\ disk # Damaged => mem = disk

\* A persona last changed by one complete request can act: its wallet holds
\* the credential it is to present.
CanAct ==
    disk # Damaged =>
        \A i \in clean : disk[i] # Absent =>
            wallet[i] # <<>> /\ disk[i] \in {0} \union ToSet(wallet[i])

\* Once a revocation was acknowledged and has reached every status list, no
\* tool runs with the revoked credential, and of what else the persona held then
\* only with what was made later: whoever loads the wallet and writes it back
\* meanwhile, its oldest credential stays the first, the one that is revoked.
LateIsLater == \A p \in late : p[2] < p[1]

\* "Revoked ... Try the same booking now; HelixID should refuse the VP."
RevokedCannotAct == late = {}

=============================================================================
