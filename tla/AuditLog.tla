------------------------------ MODULE AuditLog ------------------------------
(***************************************************************************)
(* The audit log as its readers see it: what is written while the routes of  *)
(* Ownership run, what verifiers, agents and service providers post, and the *)
(* list a hosted account or the operator is answered                         *)
(* (routes/audit-log/index.ts).                                              *)
(*                                                                           *)
(* The core logs what it creates and revokes with the key of the item and    *)
(* without an account.  A list request fetches one page of the log and then  *)
(* looks up, record by record, whose each is: the look-ups of one page are   *)
(* made at once and each sees the links of its own moment.                   *)
(***************************************************************************)
EXTENDS Ownership, Sequences, FiniteSets, Integers

CONSTANTS
    Reader,    \* list requests
    Limit,     \* page sizes asked for
    MaxPosts,  \* bound: events posted
    MaxTrail,  \* bound: length of the log up to which revocations and posts are made
    Depth,     \* lengths of the delegation chains presented
    Body       \* what is posted to /vp-verification

Absent == 0    \* a field that is undefined: items, DIDs and credentials count from 1
NoDepth == -1  \* ... and a depth, which counts from 0; a negative one is as good as none

\* delegationChain is <<>> where there is none; an empty one is never sent.
BodyShape ==
    [result : STRING, subjectDid : Nat,
     delegationChain : Seq([vcId : Nat, subjectDid : Nat]),
     delegatedFrom : Nat, delegatedTo : Nat, parentVcId : Nat, delegationDepth : Int,
     attemptedParentVcId : Nat, attemptedDelegatedFrom : Nat]

ASSUME AuditAssumption ==
    /\ Limit \subseteq Nat
    /\ MaxPosts \in Nat /\ MaxTrail \in Nat /\ Depth \subseteq Nat \ {0}
    /\ Body \subseteq BodyShape

VARIABLES
    trail,    \* audit_log rows, oldest first
    flying,   \* events logged without await that have not arrived
    posts,    \* events posted so far
    asking    \* local to each list request, with its answer

auditVars == <<trail, flying, posts, asking>>
allVars == <<vars, auditVars>>

-----------------------------------------------------------------------------
(* Records.                                                                 *)

\* The credential at depth n of a chain is held by agent n; the two names differ.
Vc(n) == 10 + n

Entry(n) == [vcId |-> Vc(n), subjectDid |-> n]

Chain == {[i \in 1 .. n |-> Entry(i)] : n \in Depth}

NoEntry == [vcId |-> Absent, subjectDid |-> Absent]

NoBody ==
    [result |-> "none", subjectDid |-> Absent, delegationChain |-> <<>>,
     delegatedFrom |-> Absent, delegatedTo |-> Absent, parentVcId |-> Absent,
     delegationDepth |-> NoDepth, attemptedParentVcId |-> Absent,
     attemptedDelegatedFrom |-> Absent]

NoPayload ==
    [event |-> "none", accountId |-> None, vcId |-> Absent, tokenIdHash |-> Absent,
     subjectDid |-> Absent, delegationChain |-> <<>>, delegatedFrom |-> Absent,
     delegatedTo |-> Absent, parentVcId |-> Absent, delegationDepth |-> NoDepth,
     attemptedParentVcId |-> Absent, attemptedDelegatedFrom |-> Absent,
     post |-> NoBody, verified |-> <<>>]   \* history: what was posted of a presentation, and
                                           \* the chain the verifier accepted, if it did

\* What the core logs of item i.
CoreEvent(i, k) ==
    IF k = "token"
    THEN [NoPayload EXCEPT !.event = "ENROLLMENT_TOKEN_GENERATED", !.tokenIdHash = i]
    ELSE [NoPayload EXCEPT !.event = "VC_ISSUED", !.vcId = i]

\* The second event of a route that has a quota.
QuotaEvent(h) ==
    IF route[h] = "generate"
    THEN [NoPayload EXCEPT !.event = "ACCOUNT_ENROLLMENT_TOKEN_GENERATED",
                           !.accountId = acct[h], !.tokenIdHash = output[h]]
    ELSE [NoPayload EXCEPT !.event = "ACCOUNT_VC_ISSUED",
                           !.accountId = acct[h], !.vcId = output[h]]

INGESTIBLE_EVENTS ==
    {"VC_ISSUED", "VC_PRESENTED", "VP_VERIFIED", "VP_REJECTED", "AUTHZ_GRANTED",
     "AUTHZ_DENIED", "TOOL_INVOKED", "CONSENT_GRANTED", "CONSENT_REVOKED"}

NoRequest ==
    [pc |-> "idle", account |-> None, page |-> {}, got |-> {}, due |-> {}]

AuditInit ==
    /\ Init
    /\ trail = <<>>
    /\ flying = {}
    /\ posts = 0
    /\ asking = [r \in Reader |-> NoRequest]

-----------------------------------------------------------------------------
(* The routes of Ownership, with what they log.                             *)

Unlogged(h) ==
    /\ \/ \E c \in Account \union {None} :
            \/ Generate(h, c) \/ Issue(h, c)
            \/ \E i \in Item : RequestRevoke(h, c, i)
       \/ \E i \in Item : Enroll(h, i) \/ Onboard(h, i) \/ OnboardVerify(h, i) \/ Renew(h, i)
       \/ Respond(h)
       \/ Abort(h)
    /\ UNCHANGED auditVars

Create(h) ==
    /\ CoreCreates(h)
    /\ trail' = IF Creates(route[h]) = "challenge" THEN trail
                ELSE Append(trail, CoreEvent(made', Creates(route[h])))
    /\ UNCHANGED <<flying, posts, asking>>

LinkAndCharge(h) ==
    /\ LinkItem(h)
    /\ flying' = IF route[h] \in {"generate", "issue"} THEN flying \union {QuotaEvent(h)} ELSE flying
    /\ UNCHANGED <<trail, posts, asking>>

RevokeLogged(h) ==
    /\ RevokeVC(h)
    /\ Len(trail) < MaxTrail
    /\ trail' = Append(trail, [NoPayload EXCEPT !.event = "VC_REVOKED", !.vcId = input[h]])
    /\ UNCHANGED <<flying, posts, asking>>

\* An event that nobody waited for arrives, or is lost.
Arrive(e) ==
    /\ e \in flying
    /\ flying' = flying \ {e}
    /\ trail' \in {trail, Append(trail, e)}
    /\ UNCHANGED <<vars, posts, asking>>

-----------------------------------------------------------------------------
(* Ingestion.  A body is a record of what it holds; the envelope of each     *)
(* route names the fields it takes over, and the others are dropped.         *)

\* requireAdmin: the operator's key, no account.
MayPost(c) == c = None

Logged(c, payload) ==
    /\ MayPost(c)
    /\ posts < MaxPosts /\ Len(trail) < MaxTrail
    /\ posts' = posts + 1
    /\ trail' = Append(trail, payload)
    /\ UNCHANGED <<vars, flying, asking>>

\* Every field of the body is kept, whatever the result.
Verdict(body) ==
    [NoPayload EXCEPT !.event = IF body.result = "success" THEN "VP_VERIFIED" ELSE "VP_REJECTED",
                      !.subjectDid = body.subjectDid,
                      !.delegationChain = body.delegationChain,
                      !.delegatedFrom = body.delegatedFrom,
                      !.delegatedTo = body.delegatedTo,
                      !.parentVcId = body.parentVcId,
                      !.delegationDepth = body.delegationDepth,
                      !.attemptedParentVcId = body.attemptedParentVcId,
                      !.attemptedDelegatedFrom = body.attemptedDelegatedFrom]

\* POST /vp-verification, of a presentation whose chain was verified (<<>>: of
\* one that was rejected).  Nothing relates the body to it.
VpVerification(c, body, chain) ==
    /\ body.subjectDid # Absent /\ body.result \in {"success", "rejected"}
    /\ Logged(c, [Verdict(body) EXCEPT !.post = body, !.verified = chain])

\* POST /consent-granted, of a credential a service provider issued.
ConsentGranted(c, vcId) ==
    Logged(c, [NoPayload EXCEPT !.event = "CONSENT_GRANTED", !.vcId = vcId, !.subjectDid = 1])

\* Mutant: the body is spread into the payload.
Spread(body) ==
    [NoPayload EXCEPT !.event = body.event, !.accountId = body.accountId, !.vcId = body.vcId,
                      !.subjectDid = 1]

\* The fixed envelope of POST /events knows no accountId.
Envelope(body) ==
    [NoPayload EXCEPT !.event = body.event, !.vcId = body.vcId, !.subjectDid = 1]

\* POST /events
Activity(c, body) ==
    /\ body.event \in INGESTIBLE_EVENTS
    /\ Logged(c, Envelope(body))

-----------------------------------------------------------------------------
(* GET /v1/audit-log                                                        *)

\* limit must be an integer between 1 and 500
normalizeLimit(l) == {n \in {l} : n \in 1 .. 500}

\* The newest l records after position since, of one event type or of any.
Page(event, since, l) ==
    LET match == {i \in DOMAIN trail : i > since /\ event \in {"any", trail[i].event}} IN
    {i \in match : Cardinality({j \in match : j > i}) < l}

\* Records that are due to account a: about an item it was handed.
Due(S, a) ==
    {i \in S : \E x \in {trail[i].vcId, trail[i].tokenIdHash} : x \in known /\ heir[x] = a}

List(r, a, event, since, l) ==
    /\ asking[r].pc = "idle"
    /\ \E n \in normalizeLimit(l) :
        LET page == Page(event, since, n) IN
        asking' = [asking EXCEPT ![r] =
            IF a = None \/ page = {}
            THEN [pc |-> "answered", account |-> a, page |-> {}, got |-> page, due |-> {}]
            ELSE [pc |-> "lookup", account |-> a, page |-> page, got |-> {}, due |-> Due(page, a)]]
    /\ UNCHANGED <<vars, trail, flying, posts>>

Linked(item, a) == item # Absent /\ item \in Item /\ links[item] = a

IsOf(rec, a) == rec.accountId = a \/ Linked(rec.vcId, a) \/ Linked(rec.tokenIdHash, a)

\* One record's look-ups: it is kept or dropped.  The last of the page answers.
Lookup(r, i) ==
    /\ asking[r].pc = "lookup"
    /\ i \in asking[r].page
    /\ asking' = [asking EXCEPT
           ![r].page = @ \ {i},
           ![r].got = IF IsOf(trail[i], asking[r].account) THEN @ \union {i} ELSE @,
           ![r].pc = IF asking[r].page = {i} THEN "answered" ELSE @]
    /\ UNCHANGED <<vars, trail, flying, posts>>

\* The entry before the last, of a chain of two or more.
LeafParent(chain) == IF Len(chain) < 2 THEN NoEntry ELSE chain[Len(chain) - 1]

getDelegationParentVcId(p) ==
    IF p.parentVcId # Absent THEN p.parentVcId ELSE LeafParent(p.delegationChain).vcId

\* Mutant: a rejected presentation's claim fills the gap.
FromOrAttempted(p) ==
    IF p.delegatedFrom # Absent THEN p.delegatedFrom ELSE p.attemptedDelegatedFrom

getDelegatedFrom(p) ==
    IF p.delegatedFrom # Absent THEN p.delegatedFrom ELSE LeafParent(p.delegationChain).subjectDid

getDelegatedTo(p) == IF p.delegatedTo # Absent THEN p.delegatedTo ELSE p.subjectDid

\* Depth 0 is the root's own credential.
getDelegationDepth(p) ==
    IF p.delegationDepth >= 0 THEN p.delegationDepth ELSE Len(p.delegationChain) - 1

\* What the answer holds of a record.
Summary(p) ==
    [delegatedFrom |-> getDelegatedFrom(p), delegatedTo |-> getDelegatedTo(p),
     parentVcId |-> getDelegationParentVcId(p), delegationDepth |-> getDelegationDepth(p),
     attemptedParentVcId |-> p.attemptedParentVcId,
     attemptedDelegatedFrom |-> p.attemptedDelegatedFrom]

-----------------------------------------------------------------------------

Post ==
    \E c \in Account \union {None} :
        \/ \E body \in Body, chain \in Chain \union {<<>>} : VpVerification(c, body, chain)
        \/ ConsentGranted(c, MaxItems + 1)
        \/ \E v \in KnownOf("vc"), a \in Account, e \in {"TOOL_INVOKED", "ACCOUNT_VC_ISSUED"} :
            Activity(c, [event |-> e, accountId |-> a, vcId |-> v])

AuditNext ==
    \/ \E h \in Handler : Unlogged(h) \/ Create(h) \/ LinkAndCharge(h) \/ RevokeLogged(h)
    \/ \E e \in flying : Arrive(e)
    \/ Post
    \/ \E r \in Reader :
        \/ \E a \in Account \union {None}, l \in Limit :
            List(r, a, "any", 0, l) \/ List(r, a, "VC_ISSUED", 1, l)
        \/ \E i \in asking[r].page : Lookup(r, i)

AuditSpec == AuditInit /\ [][AuditNext]_allVars

-----------------------------------------------------------------------------
(* Properties.                                                              *)

\* An account is answered records about items created on its own behalf and no
\* others, whatever a poster claims; and of the page that was fetched it misses
\* none about an item it had been handed, although links are written after the
\* core has logged and the look-ups overlap with other requests.
OwnTrail ==
    \A r \in Reader : asking[r].pc = "answered" /\ asking[r].account # None =>
        /\ asking[r].due \subseteq asking[r].got
        /\ \A i \in asking[r].got :
            \E x \in {trail[i].vcId, trail[i].tokenIdHash} :
                x \in Item /\ heir[x] = asking[r].account

\* The holder of the last credential of a chain.
Leaf(chain) == IF chain = <<>> THEN NoEntry ELSE chain[Len(chain)]

\* The body says of the chain that was verified nothing but the truth: the chain,
\* any of the fields, or both; and of a rejected presentation what it attempted
\* at most.
Truthful(body, chain) ==
    /\ body.delegationChain \in {<<>>, chain}
    /\ body.delegatedFrom \in {Absent, LeafParent(chain).subjectDid}
    /\ body.parentVcId \in {Absent, LeafParent(chain).vcId}
    /\ body.delegatedTo \in {Absent, Leaf(chain).subjectDid}
    /\ body.delegationDepth \in {NoDepth, Len(chain) - 1}
    /\ chain # <<>> => body.subjectDid = Leaf(chain).subjectDid

\* The summary of a record shows the verified delegation, as much of it as the
\* body told: all of it if the chain was sent, be it the chain alone.
ShownAsVerified(p) ==
    LET s == Summary(p)
        whole == p.post.delegationChain # <<>>
        parent == LeafParent(p.verified) IN
    /\ s.delegatedFrom = IF whole \/ p.post.delegatedFrom # Absent THEN parent.subjectDid ELSE Absent
    /\ s.parentVcId = IF whole \/ p.post.parentVcId # Absent THEN parent.vcId ELSE Absent
    /\ s.delegationDepth = IF whole \/ p.post.delegationDepth # NoDepth
                           THEN Len(p.verified) - 1 ELSE NoDepth
    /\ p.verified # <<>> => s.delegatedTo = Leaf(p.verified).subjectDid

\* "an unverified claim can never be mistaken for a verified one", provided the
\* verifier keeps what it did not verify in the attempted fields: an answer then
\* shows the delegation that was verified, however it was described, and none of
\* a presentation that was rejected.  The route does not keep a verifier from
\* posting a rejected presentation with a chain.
DelegationShown ==
    \A r \in Reader : asking[r].pc = "answered" =>
        \A i \in asking[r].got :
            Truthful(trail[i].post, trail[i].verified) => ShownAsVerified(trail[i])

=============================================================================
