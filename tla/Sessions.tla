------------------------------ MODULE Sessions ------------------------------
(***************************************************************************)
(* Refresh-token sessions of the hosted tier: the refresh_tokens table      *)
(* (repositories/drivers/refresh-token.drivers.ts) and the request handlers *)
(* of AuthService that read and write it: issueSession, refresh, logout     *)
(* (services/auth/auth.service.ts).                                         *)
(*                                                                          *)
(* Every repository and audit call is awaited and no transaction spans two  *)
(* of them, so a handler is a small process: one action per await, and any  *)
(* other handler (of this server or of another one on the same database)    *)
(* may run in between.  A call may also fail, or the process die: the       *)
(* handler then ends where it is and what it wrote stays written.           *)
(*                                                                          *)
(* Rows are numbered in the order they are inserted.  The columns of the    *)
(* table are the variables owner (accountId), revoked (revokedAt is set),   *)
(* replacedBy (replacedByTokenId) and expired (expiresAt has passed).       *)
(***************************************************************************)
EXTENDS Naturals, FiniteSets

CONSTANTS
    Account,    \* accounts that can log in
    Handler,    \* request handlers that can be in flight at once
    MaxTokens,  \* bound: refresh tokens ever inserted
    None        \* SQL NULL of an account column

ASSUME SessionsAssumption ==
    /\ MaxTokens \in Nat
    /\ None \notin Account
    /\ IsFiniteSet(Handler)

Token == 1 .. MaxTokens

NoToken == 0

VARIABLES
    issued,      \* rows inserted so far: the rows are 1 .. issued
    owner,       \* accountId of each row
    revoked,     \* rows with revokedAt set
    replacedBy,  \* replacedByTokenId of each row
    expired,     \* rows whose expiresAt has passed
    rotationLog, \* rows with a REFRESH_TOKEN_ROTATED event in the audit log
    pc,          \* the await each handler is at
    acct,        \* local: the account the handler works for
    tok,         \* local: the row it found
    new,         \* local: the row it created
    delivered,   \* raw tokens that reached a client
    parent,      \* history: the row each row was created to replace
    root,        \* history: the login each row descends from
    burned,      \* history: rows that existed at an account's last burn
    closed,      \* history: logins whose session was logged out
    raced        \* history: accounts that had two requests in flight at once

table == <<issued, owner, revoked, replacedBy, expired, rotationLog>>
locals == <<pc, acct, tok, new>>
lineage == <<parent, root, burned, closed>>
vars == <<table, locals, delivered, lineage, raced>>

PC == {"idle", "create", "revoke", "audit", "respond", "burn", "logout"}

Rows == 1 .. issued

Live(t) == t \in Rows \ revoked

RowsOf(a) == {t \in Rows : owner[t] = a}

TypeOK ==
    /\ issued \in 0 .. MaxTokens
    /\ owner \in [Token -> Account \union {None}]
    /\ revoked \subseteq Token
    /\ replacedBy \in [Token -> Token \union {NoToken}]
    /\ expired \subseteq Token
    /\ rotationLog \subseteq Token
    /\ pc \in [Handler -> PC]
    /\ acct \in [Handler -> Account \union {None}]
    /\ tok \in [Handler -> Token \union {NoToken}]
    /\ new \in [Handler -> Token \union {NoToken}]
    /\ delivered \subseteq Token
    /\ parent \in [Token -> Token \union {NoToken}]
    /\ root \in [Token -> Token \union {NoToken}]
    /\ burned \in [Account -> 0 .. MaxTokens]
    /\ closed \subseteq Token
    /\ raced \subseteq Account

Init ==
    /\ issued = 0
    /\ owner = [t \in Token |-> None]
    /\ revoked = {}
    /\ replacedBy = [t \in Token |-> NoToken]
    /\ expired = {}
    /\ rotationLog = {}
    /\ pc = [h \in Handler |-> "idle"]
    /\ acct = [h \in Handler |-> None]
    /\ tok = [h \in Handler |-> NoToken]
    /\ new = [h \in Handler |-> NoToken]
    /\ delivered = {}
    /\ parent = [t \in Token |-> NoToken]
    /\ root = [t \in Token |-> NoToken]
    /\ burned = [a \in Account |-> 0]
    /\ closed = {}
    /\ raced = {}

-----------------------------------------------------------------------------
(* Handler control.                                                         *)

Goto(h, label) == pc' = [pc EXCEPT ![h] = label]

Start(h, label, a, t) ==
    /\ pc[h] = "idle"
    /\ Goto(h, label)
    /\ acct' = [acct EXCEPT ![h] = a]
    /\ tok' = [tok EXCEPT ![h] = t]
    /\ raced' = IF \E g \in Handler : acct[g] = a THEN raced \union {a} ELSE raced
    /\ UNCHANGED new

Finish(h) ==
    /\ Goto(h, "idle")
    /\ acct' = [acct EXCEPT ![h] = None]
    /\ tok' = [tok EXCEPT ![h] = NoToken]
    /\ new' = [new EXCEPT ![h] = NoToken]

(* Storage operations: one UPDATE each. *)

\* revoke(id, replacedByTokenId?): unconditional, so a second call overwrites
\* both columns; an omitted successor writes NULL.
Revoke(t, successor) ==
    /\ revoked' = revoked \union {t}
    /\ replacedBy' = [replacedBy EXCEPT ![t] = successor]

\* Mutant: only the newest row of the account.
RevokeNewestForAccount(a) ==
    revoked' = revoked \union {t \in RowsOf(a) : \A u \in RowsOf(a) : u <= t}

\* revokeAllForAccount: every row of the account that is not revoked yet.
RevokeAllForAccount(a) == revoked' = revoked \union RowsOf(a)

-----------------------------------------------------------------------------
(* AuthService.issueSession, entered from login, register and Google        *)
(* sign-in with an account and from refresh with the row to replace.        *)

\* login, register, loginWithGoogle: the account is established, its session
\* is about to be created.
Login(h, a) ==
    /\ Start(h, "create", a, NoToken)
    /\ UNCHANGED <<table, delivered, lineage>>

\* Mutant: the old row is left for later.
AfterCreateAnswers(h) == "respond"

\* if (replacingTokenId): revoke it before the tokens are returned.
AfterCreate(h) == IF tok[h] = NoToken THEN "respond" ELSE "revoke"

\* refreshTokenRepository.create
CreateRow(h) ==
    /\ pc[h] = "create"
    /\ issued < MaxTokens
    /\ LET t == issued + 1 IN
        /\ issued' = t
        /\ owner' = [owner EXCEPT ![t] = acct[h]]
        /\ new' = [new EXCEPT ![h] = t]
        /\ parent' = [parent EXCEPT ![t] = tok[h]]
        /\ root' = [root EXCEPT ![t] = IF tok[h] = NoToken THEN t ELSE root[tok[h]]]
    /\ Goto(h, AfterCreate(h))
    /\ UNCHANGED <<revoked, replacedBy, expired, rotationLog, acct, tok, delivered, burned, closed, raced>>

\* Mutant: revoke(created.id, replacingTokenId).
RevokeSuccessor(h) ==
    /\ pc[h] = "revoke"
    /\ Revoke(new[h], tok[h])
    /\ Goto(h, "audit")
    /\ UNCHANGED <<issued, owner, expired, rotationLog, acct, tok, new, delivered, lineage, raced>>

\* refreshTokenRepository.revoke(replacingTokenId, created.id)
RevokeReplaced(h) ==
    /\ pc[h] = "revoke"
    /\ Revoke(tok[h], new[h])
    /\ Goto(h, "audit")
    /\ UNCHANGED <<issued, owner, expired, rotationLog, acct, tok, new, delivered, lineage, raced>>

\* The response carries the raw token to the client; it may also be lost.
Respond(h) ==
    /\ pc[h] = "respond"
    /\ delivered' = delivered \union {new[h]}
    /\ Finish(h)
    /\ UNCHANGED <<table, lineage, raced>>

-----------------------------------------------------------------------------
(* AuthService.refresh.  A token that has no row, or whose row has expired, *)
(* is refused without a write: those requests change nothing here.          *)

\* Mutant: only the expiry is looked at.
RefreshUnchecked(h, t) ==
    /\ t \in delivered \ expired
    /\ Start(h, "create", owner[t], t)
    /\ UNCHANGED <<table, delivered, lineage>>

\* The row is not revoked and not expired: issueSession replaces it.
RefreshLive(h, t) ==
    /\ t \in delivered
    /\ t \notin revoked \union expired
    /\ Start(h, "create", owner[t], t)
    /\ UNCHANGED <<table, delivered, lineage>>

\* The row is revoked: reuse.
RefreshReused(h, t) ==
    /\ t \in delivered \intersect revoked
    /\ Start(h, "burn", owner[t], t)
    /\ UNCHANGED <<table, delivered, lineage>>

\* revokeAllForAccount, then RefreshTokenReuseDetectedError.  (The event
\* logged in between is read by nothing modelled here; so is logout's.)
Burn(h) ==
    /\ pc[h] = "burn"
    /\ RevokeAllForAccount(acct[h])
    /\ burned' = [burned EXCEPT ![acct[h]] = issued]
    /\ Finish(h)
    /\ UNCHANGED <<issued, owner, replacedBy, expired, rotationLog, delivered, parent, root, closed, raced>>

\* auditLogger.log after the rotation, before the tokens are returned.
AuditRotated(h) ==
    /\ pc[h] = "audit"
    /\ rotationLog' = rotationLog \union {tok[h]}
    /\ Goto(h, "respond")
    /\ UNCHANGED <<issued, owner, revoked, replacedBy, expired, acct, tok, new,
                   delivered, lineage, raced>>

-----------------------------------------------------------------------------
(* AuthService.logout.  A token without a row, or already revoked, returns  *)
(* at once and changes nothing.                                             *)

LogoutFind(h, t) ==
    /\ t \in delivered
    /\ t \notin revoked
    /\ Start(h, "logout", owner[t], t)
    /\ UNCHANGED <<table, delivered, lineage>>

\* Mutant: the answer comes first and the row is never written.
LogoutUnwritten(h) ==
    /\ pc[h] = "logout"
    /\ closed' = closed \union {root[tok[h]]}
    /\ Finish(h)
    /\ UNCHANGED <<table, delivered, parent, root, burned, raced>>

LogoutRevoke(h) ==
    /\ pc[h] = "logout"
    /\ Revoke(tok[h], NoToken)
    /\ closed' = closed \union {root[tok[h]]}
    /\ Finish(h)
    /\ UNCHANGED <<issued, owner, expired, rotationLog, delivered, parent, root, burned, raced>>

-----------------------------------------------------------------------------
(* Environment.                                                             *)

\* A call rejects, the process dies or the response is lost.
Abort(h) ==
    /\ pc[h] # "idle"
    /\ Finish(h)
    /\ UNCHANGED <<table, delivered, lineage, raced>>

\* expiresAt passes.  (The expiry of a revoked row is never looked at.)
Expire(t) ==
    /\ Live(t)
    /\ t \notin expired
    /\ expired' = expired \union {t}
    /\ UNCHANGED <<issued, owner, revoked, replacedBy, rotationLog, locals, delivered, lineage, raced>>

HandlerStep(h) ==
    \/ CreateRow(h) \/ RevokeReplaced(h) \/ AuditRotated(h) \/ Respond(h)
    \/ Burn(h) \/ LogoutRevoke(h)

Next ==
    \/ \E h \in Handler :
        \/ \E a \in Account : Login(h, a)
        \/ \E t \in Token : RefreshLive(h, t) \/ RefreshReused(h, t) \/ LogoutFind(h, t)
        \/ HandlerStep(h)
        \/ Abort(h)
    \/ \E t \in Token : Expire(t)

Spec == Init /\ [][Next]_vars

-----------------------------------------------------------------------------
(* Properties of every interleaving.                                        *)

Usable(t) == t \in delivered \ revoked

\* A successor link never crosses accounts, never points backwards, joins a
\* row to one that was created to replace it, and is only ever on a revoked
\* row: what the rotation writes in two awaits and what logout and a second
\* rotation overwrite still reads as a chain.
LinkIntegrity ==
    \A t \in Rows : replacedBy[t] # NoToken =>
        /\ replacedBy[t] \in Rows
        /\ t \in revoked
        /\ parent[replacedBy[t]] = t
        /\ t < replacedBy[t]
        /\ owner[replacedBy[t]] = owner[t]

\* What a reuse burn revoked stays revoked: no row that existed when
\* revokeAllForAccount ran for its account is usable afterwards, whatever was
\* in flight.
BurnIsFinal ==
    \A a \in Account : \A t \in RowsOf(a) : t <= burned[a] => t \in revoked

\* A client never holds a successor whose predecessor is still accepted, or
\* whose rotation left no audit event: the old row is revoked and audited
\* before the new token leaves the server.
HandoverComplete ==
    \A t \in delivered : parent[t] # NoToken =>
        /\ parent[t] \in revoked
        /\ parent[t] \in rotationLog

\* An account's burn is outlived by at most one rotation for each request
\* that was in flight besides the burning one.
Survivors(a) ==
    {t \in RowsOf(a) \ revoked : parent[t] # NoToken /\ parent[t] <= burned[a]}

SurvivorsBounded ==
    \A a \in Account : Cardinality(Survivors(a)) < Cardinality(Handler) \/ Survivors(a) = {}

\* revokedAt is never cleared.
RevokedForever == [][revoked \subseteq revoked']_revoked

\* The strengthening that makes the properties above inductive: rows are
\* inserted in order, and each handler's locals still describe the table.
FreshRows ==
    \A t \in Token \ Rows :
        t \notin revoked \union delivered /\ replacedBy[t] = NoToken /\ parent[t] = NoToken

BurnedRowsExist == \A a \in Account : burned[a] <= issued

HandlersOK ==
    \A h \in Handler :
        /\ pc[h] # "idle" => acct[h] \in Account
        /\ tok[h] # NoToken => tok[h] \in Rows /\ owner[tok[h]] = acct[h]
        /\ pc[h] \in {"revoke", "audit", "burn", "logout"} => tok[h] # NoToken
        /\ pc[h] \in {"revoke", "audit", "respond"} =>
            /\ new[h] \in Rows
            /\ parent[new[h]] = tok[h]
        /\ pc[h] \in {"audit", "respond"} /\ tok[h] # NoToken => tok[h] \in revoked
        /\ pc[h] = "respond" /\ tok[h] # NoToken => tok[h] \in rotationLog

LineageOK ==
    \A t \in Rows :
        /\ owner[t] \in Account
        /\ root[t] \in Rows
        /\ parent[t] # NoToken =>
            /\ parent[t] \in Rows
            /\ parent[t] < t
            /\ owner[parent[t]] = owner[t]

IInv ==
    /\ TypeOK
    /\ FreshRows
    /\ BurnedRowsExist
    /\ HandlersOK
    /\ LineageOK
    /\ LinkIntegrity
    /\ BurnIsFinal
    /\ HandoverComplete

-----------------------------------------------------------------------------
(* Properties of requests served one at a time: they hold for an account    *)
(* until two of its requests overlap.                                       *)

\* Rotation: a login's session has at most one usable token at any time.
OneUsableTokenPerSession ==
    \A t, u \in Rows :
        Usable(t) /\ Usable(u) /\ root[t] = root[u] => t = u \/ owner[t] \in raced

\* Logout: no token of the session is usable after it.
LogoutEndsSession ==
    \A t \in Rows : root[t] \in closed => ~Usable(t) \/ owner[t] \in raced

\* "treat it as a compromise signal - revoke all refresh tokens for that
\* account, forcing re-login everywhere" (docs/proposal-hosted-instance.md),
\* of every interleaving.
BurnForcesRelogin ==
    \A t \in Rows : Usable(t) /\ parent[t] # NoToken => parent[t] > burned[owner[t]]

-----------------------------------------------------------------------------
(* The table and its handlers keep the promise of SessionSpec.              *)

BurnedRows == {t \in Rows : t <= burned[owner[t]]}

Promise == INSTANCE SessionSpec WITH
    held <- delivered,
    accepted <- delivered \ (revoked \union expired),
    account <- [t \in Token |-> IF t \in delivered THEN owner[t] ELSE None],
    session <- [t \in Token |-> IF t \in delivered THEN root[t] ELSE NoToken],
    ended <- closed \union {root[t] : t \in BurnedRows}

\* Every behaviour of the handlers, seen through the tokens clients hold, is
\* one the interface allows: chains while requests come one at a time, and
\* no more than the weaker promise broken by a race.
KeepsPromise == Promise!Spec

=============================================================================
