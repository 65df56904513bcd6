---------------------------- MODULE VerifierCache ----------------------------
(***************************************************************************)
(* A verifier that keeps its verification results                           *)
(* (examples/verifier-vp-cache-cycle.ts), against the API server.  Requests  *)
(* overlap at verifyVP; presentations expire and their credentials are       *)
(* revoked at any time.  verifyVP is the SDK's: local but for the status     *)
(* list, which it keeps after a fetch; the process it is fetched from keeps  *)
(* it too (statusListCache of server.ts, one for each process: Redis is left *)
(* out).  One clock; a fetch takes less than its unit.                       *)
(***************************************************************************)
EXTENDS Server

CONSTANTS
    Vp,        \* presentations, each with an id of its own
    Request,   \* requests that can be in flight at the verifier at once
    ServerTtl, \* STATUS_LIST_CACHE_L1_TTL_SECONDS
    ClientTtl, \* how long verifyVP uses a status list it fetched
    MaxTime    \* bound: the clock

ASSUME ClockAssumption == ServerTtl \in Nat /\ ClientTtl \in Nat /\ MaxTime \in Nat

Time == 0 .. MaxTime

VARIABLES
    now,
    expired,   \* presentations past their expirationDate
    revokedAt, \* when the credential of a presentation was revoked
    held,      \* statusListCache of each process
    copy,      \* the status list verifyVP keeps
    cache,     \* verificationCache
    handling,  \* the requests: pc, presentation, and whether its credential's
               \* revocation had outlived every status list when the request came in
    granted    \* history: the last grant

lists == <<revokedAt, held, copy>>
verifierVars == <<now, expired, lists, cache, handling, granted>>
vars == <<serverVars, verifierVars>>

\* The presentations a status list names, and when it was made or fetched.
List == [at : Time, list : SUBSET Vp]

NoRequest == [pc |-> "idle", vp |-> None, late |-> FALSE]

\* source: the cache, or verify; past: the presentation has expired.
Grant == [vp : Vp, source : {"cache", "verify"}, late : BOOLEAN, past : BOOLEAN]

TypeOK ==
    /\ ServerTypeOK
    /\ now \in Time
    /\ expired \subseteq Vp
    /\ revokedAt \in [Vp -> Time \union {None}]
    /\ held \in [Process -> List \union {None}]
    /\ copy \in List \union {None}
    /\ cache \subseteq Vp
    /\ handling \in [Request -> [pc : {"idle", "verify", "store"}, vp : Vp \union {None},
                                 late : BOOLEAN]]
    /\ granted \in Grant \union {None}

VerifierInit ==
    /\ now = 0
    /\ expired = {}
    /\ revokedAt = [v \in Vp |-> None]
    /\ held = [p \in Process |-> None]
    /\ copy = None
    /\ cache = {}
    /\ handling = [r \in Request |-> NoRequest]
    /\ granted = None

Init == ServerInit /\ VerifierInit

Revoked == {v \in Vp : revokedAt[v] # None}

\* Revoked for longer than both copies of a status list are used.
Outlived(v) == v \in Revoked /\ revokedAt[v] + ServerTtl + ClientTtl < now

Record(v, source, late) ==
    granted' = [vp |-> v, source |-> source, late |-> late, past |-> v \in expired]

\* pruneCache
Pruned == cache \ expired

\* handleVerifierRequest up to its await: a presentation in the cache is
\* granted at once.
Present(r, v) ==
    /\ handling[r].pc = "idle"
    /\ cache' = Pruned
    /\ IF v \in Pruned
       THEN Record(v, "cache", Outlived(v)) /\ UNCHANGED handling
       ELSE /\ handling' = [handling EXCEPT ![r] = [pc |-> "verify", vp |-> v, late |-> Outlived(v)]]
            /\ UNCHANGED granted
    /\ UNCHANGED <<serverVars, now, expired, lists>>

\* Mutant: a list that is kept is used for ever.
AnyAge(entry, ttl) == entry # None

\* A list that is kept is used for ttl.
Fresh(entry, ttl) == entry # None /\ now - entry.at =< ttl

\* GET /v1/status-list/:listId at p: the list p keeps, or one of what is revoked.
Answer(p) ==
    IF Fresh(held[p], ServerTtl) THEN held[p] ELSE [at |-> now, list |-> Revoked]

\* verifyVP fetches the status list from whichever process answers.
Fetch(r) ==
    /\ handling[r].pc = "verify" /\ handling[r].vp \notin expired
    /\ ~Fresh(copy, ClientTtl)
    /\ \E p \in Up :
        /\ held' = [held EXCEPT ![p] = Answer(p)]
        /\ copy' = [at |-> now, list |-> Answer(p).list]
    /\ UNCHANGED <<serverVars, now, expired, revokedAt, cache, handling, granted>>

\* verifyVP: by then the verifier has a list.
VerifyVP(v) == v \notin expired /\ Fresh(copy, ClientTtl) /\ v \notin copy.list

\* verifyVP decides; a rejection ends the request, and so does a list that no
\* process answers with.
Verify(r) ==
    /\ handling[r].pc = "verify"
    /\ handling[r].vp \in expired \/ Fresh(copy, ClientTtl) \/ Up = {}
    /\ handling' = IF VerifyVP(handling[r].vp)
                   THEN [handling EXCEPT ![r].pc = "store"]
                   ELSE [handling EXCEPT ![r] = NoRequest]
    /\ UNCHANGED <<serverVars, now, expired, lists, cache, granted>>

\* ... and the await ends: the result is kept and the request granted.
Store(r) ==
    /\ handling[r].pc = "store"
    /\ cache' = cache \union {handling[r].vp}
    /\ Record(handling[r].vp, "verify", handling[r].late)
    /\ handling' = [handling EXCEPT ![r] = NoRequest]
    /\ UNCHANGED <<serverVars, now, expired, lists>>

Tick ==
    /\ now < MaxTime
    /\ now' = now + 1
    /\ UNCHANGED <<serverVars, expired, lists, cache, handling, granted>>

Expire(v) ==
    /\ v \notin expired
    /\ expired' = expired \union {v}
    /\ UNCHANGED <<serverVars, now, lists, cache, handling, granted>>

\* POST /v1/vcs/:vcId/revoke, at some process, which may drop the list it keeps.
Revoke(v) ==
    /\ v \notin Revoked
    /\ revokedAt' = [revokedAt EXCEPT ![v] = now]
    /\ \E p \in Up : held' \in {held, [held EXCEPT ![p] = None]}
    /\ UNCHANGED <<serverVars, now, expired, copy, cache, handling, granted>>

\* The list a process keeps ends with it.
Server ==
    /\ ServerNext
    /\ held' = [p \in Process |-> IF proc'[p].pc = "down" THEN None ELSE held[p]]
    /\ UNCHANGED <<now, expired, revokedAt, copy, cache, handling, granted>>

Next ==
    \/ Server
    \/ \E r \in Request :
        \/ \E v \in Vp : Present(r, v)
        \/ Fetch(r) \/ Verify(r) \/ Store(r)
    \/ \E v \in Vp : Expire(v) \/ Revoke(v)
    \/ Tick

\* The container restarts a process that ended, and a start goes on to listen
\* or ends; access tokens expire.
Fairness ==
    /\ \A p \in Process : WF_serverVars(Boot(p))
    /\ \A s \in SecretValue : WF_serverVars(ExpireAccess(s))

Spec == Init /\ [][Next]_vars /\ Fairness

-----------------------------------------------------------------------------
(* Properties.                                                              *)

\* "Do not serve cached entries past expiry", not even one stored after its
\* presentation expired; and once a revocation is older than the two lifetimes of
\* a status list together, whichever process answers or was started anew, a
\* request is granted only from the verifier's own cache: for at most as long as
\* the presentation had left.
LateIsCached ==
    granted # None =>
        /\ granted.source = "cache" => ~granted.past
        /\ granted.late => granted.source = "cache"

=============================================================================
