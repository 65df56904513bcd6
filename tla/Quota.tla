------------------------------- MODULE Quota -------------------------------
(***************************************************************************)
(* The daily quota of hosted accounts: resolveAccountOrAdmin and            *)
(* assertUnderDailyQuota (services/auth/account-or-admin-guard.ts, quota.ts) *)
(* in front of POST /v1/vcs (routes/vc/index.ts); POST /enrollment-tokens   *)
(* (routes/agent/index.ts) has the same steps with its own event and limit. *)
(*                                                                          *)
(* The guard counts audit events, the route writes the event it will count  *)
(* only after the credential is issued and linked, and does not await the   *)
(* write.  The credential service and the audit log belong to the core      *)
(* package: only what the route relies on is modelled of them.              *)
(***************************************************************************)
EXTENDS Naturals, FiniteSets, Sequences

CONSTANTS
    Account,     \* verified accounts; others are refused before the quota
    Handler,     \* request handlers that can be in flight at once
    Limit,       \* dailyLimit
    ListLimit,   \* rows auditLogRepository.list returns at most (100_000)
    MaxVcs,      \* bound: credentials ever issued
    MaxPending,  \* bound: audit writes outstanding at once
    PageLimit,   \* the limit a caller gives to GET /v1/vcs
    None         \* no account: the operator's admin key

ASSUME QuotaAssumption ==
    /\ Limit \in Nat \ {0}
    /\ ListLimit \in Nat /\ PageLimit \in Nat
    /\ MaxVcs \in Nat
    /\ MaxPending \in Nat
    /\ IsFiniteSet(Handler)
    /\ None \notin Account

Vc == 1 .. MaxVcs

NoVc == 0

VARIABLES
    issued,    \* credentials issued so far: 1 .. issued
    holder,    \* the account each was issued for
    recent,    \* credentials issued within the last 24 hours
    links,     \* vc_account_links
    log,       \* credentials of the ACCOUNT_VC_ISSUED rows of the last 24 hours, oldest first
    pending,   \* credentials whose event is being written
    lost,      \* history: credentials whose event will never be written
    truncated, \* history: a count was taken from a list cut at ListLimit
    answered,  \* history: credentials whose request was answered with 201
    pc,        \* the await each handler is at
    caller,    \* local: accountId
    vc         \* local: the credential issued

core == <<issued, holder, recent>>
locals == <<pc, caller, vc>>
vars == <<core, links, log, pending, lost, truncated, answered, locals>>

PC == {"idle", "quota", "issue", "link", "log", "respond"}

TypeOK ==
    /\ issued \in 0 .. MaxVcs
    /\ holder \in [Vc -> Account \union {None}]
    /\ recent \subseteq 1 .. issued
    /\ links \in [Vc -> Account \union {None}]
    /\ log \in Seq(Vc)
    /\ pending \subseteq Vc
    /\ lost \subseteq Vc
    /\ truncated \in BOOLEAN
    /\ answered \subseteq Vc
    /\ pc \in [Handler -> PC]
    /\ caller \in [Handler -> Account \union {None}]
    /\ vc \in [Handler -> Vc \union {NoVc}]

Init ==
    /\ issued = 0
    /\ holder = [v \in Vc |-> None]
    /\ recent = {}
    /\ links = [v \in Vc |-> None]
    /\ log = <<>>
    /\ pending = {}
    /\ lost = {}
    /\ truncated = FALSE
    /\ answered = {}
    /\ pc = [h \in Handler |-> "idle"]
    /\ caller = [h \in Handler |-> None]
    /\ vc = [h \in Handler |-> NoVc]

Goto(h, label) == pc' = [pc EXCEPT ![h] = label]

Finish(h) ==
    /\ Goto(h, "idle")
    /\ caller' = [caller EXCEPT ![h] = None]
    /\ vc' = [vc EXCEPT ![h] = NoVc]

-----------------------------------------------------------------------------
(* resolveAccountOrAdmin                                                    *)

\* x-admin-api-key matches: no account, no quota.
AdminCall(h) ==
    /\ pc[h] = "idle"
    /\ Goto(h, "issue")
    /\ UNCHANGED <<core, links, log, pending, lost, truncated, answered, caller, vc>>

\* A valid bearer token of an account whose e-mail is verified.
AccountCall(h, a) ==
    /\ pc[h] = "idle"
    /\ Goto(h, "quota")
    /\ caller' = [caller EXCEPT ![h] = a]
    /\ UNCHANGED <<core, links, log, pending, lost, truncated, answered, vc>>

\* auditLogRepository.list({eventType, since, limit}): the newest rows, of all
\* accounts together.
Listed == {i \in DOMAIN log : i + ListLimit > Len(log)}

Counted(a) == Cardinality({i \in Listed : links[log[i]] = a})

\* Mutant: off by one.
UnderQuotaOffByOne(a) == Counted(a) <= Limit

UnderQuota(a) == Counted(a) < Limit

\* assertUnderDailyQuota; over the limit the request ends.
CheckQuota(h) ==
    /\ pc[h] = "quota"
    /\ truncated' = (truncated \/ Len(log) > ListLimit)
    /\ \/ /\ UnderQuota(caller[h])
          /\ Goto(h, "issue")
          /\ UNCHANGED <<caller, vc>>
       \/ ~UnderQuota(caller[h]) /\ Finish(h)
    /\ UNCHANGED <<core, links, log, pending, lost, answered>>

-----------------------------------------------------------------------------
(* POST /v1/vcs                                                             *)

IssueVC(h) ==
    /\ pc[h] = "issue"
    /\ issued < MaxVcs
    /\ LET v == issued + 1 IN
        /\ issued' = v
        /\ holder' = [holder EXCEPT ![v] = caller[h]]
        /\ recent' = recent \union {v}
        /\ vc' = [vc EXCEPT ![h] = v]
    /\ Goto(h, IF caller[h] = None THEN "respond" ELSE "link")
    /\ UNCHANGED <<links, log, pending, lost, truncated, answered, caller>>

\* Mutant: the event is not written for a first credential.
LinkFirstUnmetered(h) ==
    /\ pc[h] = "link"
    /\ links' = [links EXCEPT ![vc[h]] = caller[h]]
    /\ Goto(h, IF \E v \in Vc : links[v] = caller[h] THEN "log" ELSE "respond")
    /\ UNCHANGED <<core, log, pending, lost, truncated, answered, caller, vc>>

\* Mutant: the link is not awaited, and fails.
LinkUnwritten(h) ==
    /\ pc[h] = "link"
    /\ Goto(h, "log")
    /\ UNCHANGED <<core, links, log, pending, lost, truncated, answered, caller, vc>>

\* vcAccountLinkRepository.link
Link(h) ==
    /\ pc[h] = "link"
    /\ links' = [links EXCEPT ![vc[h]] = caller[h]]
    /\ Goto(h, "log")
    /\ UNCHANGED <<core, log, pending, lost, truncated, answered, caller, vc>>

\* auditLogger.log, not awaited: the answer does not wait for the row.
Log(h) ==
    /\ pc[h] = "log"
    /\ Cardinality(pending) < MaxPending
    /\ pending' = pending \union {vc[h]}
    /\ answered' = answered \union {vc[h]}
    /\ Finish(h)
    /\ UNCHANGED <<core, links, log, lost, truncated>>

Respond(h) ==
    /\ pc[h] = "respond"
    /\ answered' = answered \union {vc[h]}
    /\ Finish(h)
    /\ UNCHANGED <<core, links, log, pending, lost, truncated>>

\* GET /v1/vcs: listVCs cuts at the caller's limit, whose credentials they are;
\* what is left of the account's own is the answer.
Page == {v \in Vc : v <= issued /\ issued < v + PageLimit}

ListVCs(a) == {v \in Page : links[v] = a}

-----------------------------------------------------------------------------
(* The audit log, time and failures.                                        *)

\* Mutant: a write that is retried although it succeeded.
WriteEventTwice(v) ==
    /\ v \in pending
    /\ log' = log \o <<v, v>>
    /\ pending' = pending \ {v}
    /\ UNCHANGED <<core, links, lost, truncated, answered, locals>>

\* The outstanding write arrives ...
WriteEvent(v) ==
    /\ v \in pending
    /\ log' = Append(log, v)
    /\ pending' = pending \ {v}
    /\ UNCHANGED <<core, links, lost, truncated, answered, locals>>

\* ... or fails, which nobody notices.
LoseEvent(v) ==
    /\ v \in pending
    /\ pending' = pending \ {v}
    /\ lost' = lost \union {v}
    /\ UNCHANGED <<core, links, log, truncated, answered, locals>>

\* A call rejects or the process dies.
Abort(h) ==
    /\ pc[h] # "idle"
    /\ lost' = IF pc[h] \in {"link", "log"} THEN lost \union {vc[h]} ELSE lost
    /\ Finish(h)
    /\ UNCHANGED <<core, links, log, pending, truncated, answered>>

\* The 24-hour window slides: a credential is never younger than its event.
AgeVc ==
    /\ \E v \in recent :
        /\ \A u \in recent : v <= u
        /\ recent' = recent \ {v}
    /\ UNCHANGED <<issued, holder, links, log, pending, lost, truncated, answered, locals>>

AgeEvent ==
    /\ log # <<>>
    /\ Head(log) \notin recent
    /\ log' = Tail(log)
    /\ UNCHANGED <<core, links, pending, lost, truncated, answered, locals>>

HandlerStep(h) == CheckQuota(h) \/ IssueVC(h) \/ Link(h) \/ Log(h) \/ Respond(h)

Next ==
    \/ \E h \in Handler :
        \/ AdminCall(h)
        \/ \E a \in Account : AccountCall(h, a)
        \/ HandlerStep(h)
        \/ Abort(h)
    \/ \E v \in Vc : WriteEvent(v) \/ LoseEvent(v)
    \/ AgeVc
    \/ AgeEvent

Spec == Init /\ [][Next]_vars

-----------------------------------------------------------------------------
(* Properties.                                                              *)

RecentOf(a) == {v \in recent : holder[v] = a}

\* An account's credentials of the last day exceed its limit by no more than
\* the requests that race with one another, the audit writes outstanding and
\* the events that were lost, as long as the list was never cut.
OvershootBounded ==
    ~truncated => \A a \in Account :
        Cardinality(RecentOf(a)) <
            Limit + Cardinality(Handler) + MaxPending + Cardinality(lost \intersect RecentOf(a))

\* An account is charged at most once for a credential, and only for one that
\* was issued for it and is linked to it.
ChargedOnce ==
    /\ \A i, j \in DOMAIN log : log[i] = log[j] => i = j
    /\ \A i \in DOMAIN log :
        LET v == log[i] IN
            /\ v \in 1 .. issued
            /\ v \notin pending \union lost
            /\ holder[v] \in Account
            /\ links[v] = holder[v]

\* A credential issued today for an account is counted, about to be, or its
\* event was lost: no path through the route forgets to charge.
Metered ==
    \A v \in recent : holder[v] # None =>
        \/ v \in pending \union lost
        \/ \E i \in DOMAIN log : log[i] = v
        \/ \E h \in Handler : vc[h] = v /\ pc[h] \in {"link", "log"}

\* A credential whose issuance was answered is listed to its account, unless the
\* page was cut before it was reached: then however few of the page are its own.
AnsweredIsListed ==
    \A v \in answered :
        holder[v] # None => v \in ListVCs(holder[v]) \/ PageLimit <= issued - v

=============================================================================
