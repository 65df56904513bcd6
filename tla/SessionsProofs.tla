--------------------------- MODULE SessionsProofs ---------------------------
(***************************************************************************)
(* Proofs about Sessions, for any accounts, handlers and number of tokens.  *)
(* Part one: IInv is inductive, one lemma per action, one step per conjunct. *)
(* Part two: the serial promise; SInv is inductive relative to IInv.        *)
(* Part three: Sessions implements SessionSpec.                             *)
(* Part four: how many tokens outlive a burn.                               *)
(***************************************************************************)
EXTENDS Sessions, TLAPS, FiniteSetTheorems

USE SessionsAssumption DEF Token, NoToken, Rows

LEMMA InitIInv == Init => IInv
BY DEF Init, IInv, TypeOK, PC, FreshRows, BurnedRowsExist, HandlersOK, LineageOK,
       LinkIntegrity, BurnIsFinal, HandoverComplete, RowsOf

\* A login only takes up a handler.
LEMMA LoginStep ==
    ASSUME IInv, NEW h \in Handler, NEW a \in Account, Login(h, a)
    PROVE  IInv'
<1> USE DEF IInv, TypeOK, table, locals, lineage, Login, Start, Goto
<1>1. TypeOK'
    BY DEF PC
<1>2. FreshRows'
    BY DEF FreshRows, HandlersOK
<1>3. BurnedRowsExist'
    BY DEF BurnedRowsExist
<1>4. HandlersOK'
    BY DEF HandlersOK, FreshRows, LineageOK
<1>5. LineageOK'
    BY DEF LineageOK, HandlersOK, FreshRows
<1>6. LinkIntegrity'
    BY DEF LinkIntegrity, HandlersOK, LineageOK, FreshRows
<1>7. BurnIsFinal'
    BY DEF BurnIsFinal, BurnedRowsExist, RowsOf, HandlersOK
<1>8. HandoverComplete'
    BY DEF HandoverComplete, HandlersOK, FreshRows, LineageOK
<1>9. QED
    BY <1>1, <1>2, <1>3, <1>4, <1>5, <1>6, <1>7, <1>8

\* The new row is numbered above every row, link and burn there is.
LEMMA CreateRowStep ==
    ASSUME IInv, NEW h \in Handler, CreateRow(h)
    PROVE  IInv'
<1> USE DEF IInv, TypeOK, table, locals, lineage, CreateRow, AfterCreate, Goto
<1>1. TypeOK'
    BY DEF PC, HandlersOK, FreshRows
<1>2. FreshRows'
    BY DEF FreshRows, HandlersOK
<1>3. BurnedRowsExist'
    BY DEF BurnedRowsExist
<1>4. HandlersOK'
    BY DEF HandlersOK, FreshRows, LineageOK
<1>5. LineageOK'
    BY DEF LineageOK, HandlersOK, FreshRows
<1>6. LinkIntegrity'
    BY DEF LinkIntegrity, HandlersOK, LineageOK, FreshRows
<1>7. BurnIsFinal'
    BY DEF BurnIsFinal, BurnedRowsExist, RowsOf, HandlersOK
<1>8. HandoverComplete'
    BY DEF HandoverComplete, HandlersOK, FreshRows, LineageOK
<1>9. QED
    BY <1>1, <1>2, <1>3, <1>4, <1>5, <1>6, <1>7, <1>8

\* The link written is from the row found to the row created for it.
LEMMA RevokeReplacedStep ==
    ASSUME IInv, NEW h \in Handler, RevokeReplaced(h)
    PROVE  IInv'
<1> USE DEF IInv, TypeOK, table, locals, lineage, RevokeReplaced, Revoke, Goto
<1>0. tok[h] \in Token /\ new[h] \in Token
    BY DEF HandlersOK
<1>1. TypeOK'
    BY <1>0 DEF PC
<1>2. FreshRows'
    BY DEF FreshRows, HandlersOK
<1>3. BurnedRowsExist'
    BY DEF BurnedRowsExist
<1>4. HandlersOK'
    BY DEF HandlersOK, FreshRows, LineageOK
<1>5. LineageOK'
    BY DEF LineageOK, HandlersOK, FreshRows
<1>6. LinkIntegrity'
    BY DEF LinkIntegrity, HandlersOK, LineageOK, FreshRows
<1>7. BurnIsFinal'
    BY DEF BurnIsFinal, BurnedRowsExist, RowsOf, HandlersOK
<1>8. HandoverComplete'
    BY DEF HandoverComplete, HandlersOK, FreshRows, LineageOK
<1>9. QED
    BY <1>1, <1>2, <1>3, <1>4, <1>5, <1>6, <1>7, <1>8

\* The rotation is in the audit log before the handler answers.
LEMMA AuditRotatedStep ==
    ASSUME IInv, NEW h \in Handler, AuditRotated(h)
    PROVE  IInv'
<1> USE DEF IInv, TypeOK, table, locals, lineage, AuditRotated, Goto
<1>0. tok[h] \in Token /\ new[h] \in Token
    BY DEF HandlersOK
<1>1. TypeOK'
    BY <1>0 DEF PC
<1>2. FreshRows'
    BY DEF FreshRows, HandlersOK
<1>3. BurnedRowsExist'
    BY DEF BurnedRowsExist
<1>4. HandlersOK'
    BY DEF HandlersOK, FreshRows, LineageOK
<1>5. LineageOK'
    BY DEF LineageOK, HandlersOK, FreshRows
<1>6. LinkIntegrity'
    BY DEF LinkIntegrity, HandlersOK, LineageOK, FreshRows
<1>7. BurnIsFinal'
    BY DEF BurnIsFinal, BurnedRowsExist, RowsOf, HandlersOK
<1>8. HandoverComplete'
    BY DEF HandoverComplete, HandlersOK, FreshRows, LineageOK
<1>9. QED
    BY <1>1, <1>2, <1>3, <1>4, <1>5, <1>6, <1>7, <1>8

\* The token handed out has its predecessor revoked and audited.
LEMMA RespondStep ==
    ASSUME IInv, NEW h \in Handler, Respond(h)
    PROVE  IInv'
<1> USE DEF IInv, TypeOK, table, locals, lineage, Respond, Finish, Goto
<1>0. new[h] \in Token
    BY DEF HandlersOK
<1>1. TypeOK'
    BY <1>0 DEF PC
<1>2. FreshRows'
    BY DEF FreshRows, HandlersOK
<1>3. BurnedRowsExist'
    BY DEF BurnedRowsExist
<1>4. HandlersOK'
    BY DEF HandlersOK, FreshRows, LineageOK
<1>5. LineageOK'
    BY DEF LineageOK, HandlersOK, FreshRows
<1>6. LinkIntegrity'
    BY DEF LinkIntegrity, HandlersOK, LineageOK, FreshRows
<1>7. BurnIsFinal'
    BY DEF BurnIsFinal, BurnedRowsExist, RowsOf, HandlersOK
<1>8. HandoverComplete'
  <2>1. parent[new[h]] # NoToken => parent[new[h]] \in revoked /\ parent[new[h]] \in rotationLog
    BY DEF HandlersOK
  <2>2. QED
    BY <2>1 DEF HandoverComplete
<1>9. QED
    BY <1>1, <1>2, <1>3, <1>4, <1>5, <1>6, <1>7, <1>8

\* A delivered token has a row, and the row an account.
LEMMA RefreshLiveStep ==
    ASSUME IInv, NEW h \in Handler, NEW t \in Token, RefreshLive(h, t)
    PROVE  IInv'
<1> USE DEF IInv, TypeOK, table, locals, lineage, RefreshLive, Start, Goto
<1>0. t \in Rows /\ owner[t] \in Account
    BY DEF FreshRows, LineageOK
<1>1. TypeOK'
    BY <1>0 DEF PC
<1>2. FreshRows'
    BY DEF FreshRows, HandlersOK
<1>3. BurnedRowsExist'
    BY DEF BurnedRowsExist
<1>4. HandlersOK'
    BY <1>0 DEF HandlersOK
<1>5. LineageOK'
    BY DEF LineageOK, HandlersOK, FreshRows
<1>6. LinkIntegrity'
    BY DEF LinkIntegrity, HandlersOK, LineageOK, FreshRows
<1>7. BurnIsFinal'
    BY DEF BurnIsFinal, BurnedRowsExist, RowsOf, HandlersOK
<1>8. HandoverComplete'
    BY DEF HandoverComplete, HandlersOK, FreshRows, LineageOK
<1>9. QED
    BY <1>1, <1>2, <1>3, <1>4, <1>5, <1>6, <1>7, <1>8

\* The same when the row is revoked.
LEMMA RefreshReusedStep ==
    ASSUME IInv, NEW h \in Handler, NEW t \in Token, RefreshReused(h, t)
    PROVE  IInv'
<1> USE DEF IInv, TypeOK, table, locals, lineage, RefreshReused, Start, Goto
<1>0. t \in Rows /\ owner[t] \in Account
    BY DEF FreshRows, LineageOK
<1>1. TypeOK'
    BY <1>0 DEF PC
<1>2. FreshRows'
    BY DEF FreshRows, HandlersOK
<1>3. BurnedRowsExist'
    BY DEF BurnedRowsExist
<1>4. HandlersOK'
    BY <1>0 DEF HandlersOK
<1>5. LineageOK'
    BY DEF LineageOK, HandlersOK, FreshRows
<1>6. LinkIntegrity'
    BY DEF LinkIntegrity, HandlersOK, LineageOK, FreshRows
<1>7. BurnIsFinal'
    BY DEF BurnIsFinal, BurnedRowsExist, RowsOf, HandlersOK
<1>8. HandoverComplete'
    BY DEF HandoverComplete, HandlersOK, FreshRows, LineageOK
<1>9. QED
    BY <1>1, <1>2, <1>3, <1>4, <1>5, <1>6, <1>7, <1>8

\* The burn revokes every row of the account that exists by now.
LEMMA BurnStep ==
    ASSUME IInv, NEW h \in Handler, Burn(h)
    PROVE  IInv'
<1> USE DEF IInv, TypeOK, table, locals, lineage, Burn, RevokeAllForAccount, RowsOf, Finish, Goto
<1>0. tok[h] \in Token /\ acct[h] \in Account /\ RowsOf(acct[h]) \subseteq Token
    BY DEF HandlersOK, RowsOf
<1>1. TypeOK'
    BY <1>0 DEF PC
<1>2. FreshRows'
    BY DEF FreshRows, HandlersOK
<1>3. BurnedRowsExist'
    BY DEF BurnedRowsExist
<1>4. HandlersOK'
    BY DEF HandlersOK, FreshRows, LineageOK
<1>5. LineageOK'
    BY DEF LineageOK, HandlersOK, FreshRows
<1>6. LinkIntegrity'
    BY DEF LinkIntegrity, HandlersOK, LineageOK, FreshRows
<1>7. BurnIsFinal'
    BY DEF BurnIsFinal, BurnedRowsExist, RowsOf, HandlersOK
<1>8. HandoverComplete'
    BY DEF HandoverComplete, HandlersOK, FreshRows, LineageOK
<1>9. QED
    BY <1>1, <1>2, <1>3, <1>4, <1>5, <1>6, <1>7, <1>8

\* A logout starts from a delivered token, as a refresh does.
LEMMA LogoutFindStep ==
    ASSUME IInv, NEW h \in Handler, NEW t \in Token, LogoutFind(h, t)
    PROVE  IInv'
<1> USE DEF IInv, TypeOK, table, locals, lineage, LogoutFind, Start, Goto
<1>0. t \in Rows /\ owner[t] \in Account
    BY DEF FreshRows, LineageOK
<1>1. TypeOK'
    BY <1>0 DEF PC
<1>2. FreshRows'
    BY DEF FreshRows, HandlersOK
<1>3. BurnedRowsExist'
    BY DEF BurnedRowsExist
<1>4. HandlersOK'
    BY <1>0 DEF HandlersOK
<1>5. LineageOK'
    BY DEF LineageOK, HandlersOK, FreshRows
<1>6. LinkIntegrity'
    BY DEF LinkIntegrity, HandlersOK, LineageOK, FreshRows
<1>7. BurnIsFinal'
    BY DEF BurnIsFinal, BurnedRowsExist, RowsOf, HandlersOK
<1>8. HandoverComplete'
    BY DEF HandoverComplete, HandlersOK, FreshRows, LineageOK
<1>9. QED
    BY <1>1, <1>2, <1>3, <1>4, <1>5, <1>6, <1>7, <1>8

\* A logout revokes a row and leaves it without a link.
LEMMA LogoutRevokeStep ==
    ASSUME IInv, NEW h \in Handler, LogoutRevoke(h)
    PROVE  IInv'
<1> USE DEF IInv, TypeOK, table, locals, lineage, LogoutRevoke, Revoke, Finish, Goto
<1>0. tok[h] \in Token /\ root[tok[h]] \in Token
    BY DEF HandlersOK, LineageOK
<1>1. TypeOK'
    BY <1>0 DEF PC
<1>2. FreshRows'
    BY DEF FreshRows, HandlersOK
<1>3. BurnedRowsExist'
    BY DEF BurnedRowsExist
<1>4. HandlersOK'
    BY DEF HandlersOK, FreshRows, LineageOK
<1>5. LineageOK'
    BY DEF LineageOK, HandlersOK, FreshRows
<1>6. LinkIntegrity'
    BY DEF LinkIntegrity, HandlersOK, LineageOK, FreshRows
<1>7. BurnIsFinal'
    BY DEF BurnIsFinal, BurnedRowsExist, RowsOf, HandlersOK
<1>8. HandoverComplete'
    BY DEF HandoverComplete, HandlersOK, FreshRows, LineageOK
<1>9. QED
    BY <1>1, <1>2, <1>3, <1>4, <1>5, <1>6, <1>7, <1>8

\* A handler that stops leaves the table as it is.
LEMMA AbortStep ==
    ASSUME IInv, NEW h \in Handler, Abort(h)
    PROVE  IInv'
<1> USE DEF IInv, TypeOK, table, locals, lineage, Abort, Finish, Goto
<1>1. TypeOK'
    BY DEF PC
<1>2. FreshRows'
    BY DEF FreshRows, HandlersOK
<1>3. BurnedRowsExist'
    BY DEF BurnedRowsExist
<1>4. HandlersOK'
    BY DEF HandlersOK, FreshRows, LineageOK
<1>5. LineageOK'
    BY DEF LineageOK, HandlersOK, FreshRows
<1>6. LinkIntegrity'
    BY DEF LinkIntegrity, HandlersOK, LineageOK, FreshRows
<1>7. BurnIsFinal'
    BY DEF BurnIsFinal, BurnedRowsExist, RowsOf, HandlersOK
<1>8. HandoverComplete'
    BY DEF HandoverComplete, HandlersOK, FreshRows, LineageOK
<1>9. QED
    BY <1>1, <1>2, <1>3, <1>4, <1>5, <1>6, <1>7, <1>8

\* Expiry touches no other column.
LEMMA ExpireStep ==
    ASSUME IInv, NEW t \in Token, Expire(t)
    PROVE  IInv'
<1> USE DEF IInv, TypeOK, table, locals, lineage, Expire, Live
<1>1. TypeOK'
    BY DEF PC
<1>2. FreshRows'
    BY DEF FreshRows, HandlersOK
<1>3. BurnedRowsExist'
    BY DEF BurnedRowsExist
<1>4. HandlersOK'
    BY DEF HandlersOK, FreshRows, LineageOK
<1>5. LineageOK'
    BY DEF LineageOK, HandlersOK, FreshRows
<1>6. LinkIntegrity'
    BY DEF LinkIntegrity, HandlersOK, LineageOK, FreshRows
<1>7. BurnIsFinal'
    BY DEF BurnIsFinal, BurnedRowsExist, RowsOf, HandlersOK
<1>8. HandoverComplete'
    BY DEF HandoverComplete, HandlersOK, FreshRows, LineageOK
<1>9. QED
    BY <1>1, <1>2, <1>3, <1>4, <1>5, <1>6, <1>7, <1>8

\* IInv is inductive.
LEMMA NextIInv == IInv /\ [Next]_vars => IInv'
<1> SUFFICES ASSUME IInv, [Next]_vars
             PROVE  IInv'
    OBVIOUS
<1>1. CASE UNCHANGED vars
    BY <1>1 DEF IInv, TypeOK, FreshRows, BurnedRowsExist, HandlersOK, LineageOK, LinkIntegrity,
                BurnIsFinal, HandoverComplete, RowsOf, vars, table, locals, lineage
<1>2. CASE Next
    BY <1>2, LoginStep, CreateRowStep, RevokeReplacedStep, AuditRotatedStep, RespondStep,
       RefreshLiveStep, RefreshReusedStep, BurnStep, LogoutFindStep, LogoutRevokeStep,
       AbortStep, ExpireStep
    DEF Next, HandlerStep
<1>3. QED
    BY <1>1, <1>2

\* The inductive invariant holds in every reachable state.
THEOREM SessionsInvariant == Spec => []IInv
<1>1. QED
    BY InitIInv, NextIInv, PTL DEF Spec

\* Type correctness of the table, the handlers' locals and the history.
THEOREM SessionsTypeCorrect == Spec => []TypeOK
<1>1. IInv => TypeOK
    BY DEF IInv
<1>2. QED
    BY <1>1, SessionsInvariant, PTL

\* Successor links join a revoked row to the row created to replace it.
THEOREM SessionsLinkIntegrity == Spec => []LinkIntegrity
<1>1. IInv => LinkIntegrity
    BY DEF IInv
<1>2. QED
    BY <1>1, SessionsInvariant, PTL

\* No row that existed at an account's reuse burn is usable afterwards.
THEOREM SessionsBurnIsFinal == Spec => []BurnIsFinal
<1>1. IInv => BurnIsFinal
    BY DEF IInv
<1>2. QED
    BY <1>1, SessionsInvariant, PTL

\* A successor reaches its client only after its predecessor was revoked and
\* the rotation audited.
THEOREM SessionsHandoverComplete == Spec => []HandoverComplete
<1>1. IInv => HandoverComplete
    BY DEF IInv
<1>2. QED
    BY <1>1, SessionsInvariant, PTL

\* No step of any handler clears revokedAt.
THEOREM SessionsRevokedForever == Spec => RevokedForever
<1>1. [Next]_vars => [revoked \subseteq revoked']_revoked
    BY DEF Next, HandlerStep, Login, CreateRow, RevokeReplaced, Revoke, AuditRotated, Respond,
           RefreshLive, RefreshReused, Burn, RevokeAllForAccount, LogoutFind, LogoutRevoke,
           Abort, Expire, vars, table
<1>2. QED
    BY <1>1, PTL DEF Spec, RevokedForever

-----------------------------------------------------------------------------
(* The serial promise.  An account whose requests never overlapped has one  *)
(* handler at most, and that handler knows the state of the one session it  *)
(* works on: SerialOK.                                                      *)

\* A session stays within one account, and its first token was handed out
\* before it had a second one.
RootsOK ==
    \A t \in Rows :
        /\ root[root[t]] = root[t] /\ root[t] <= t
        /\ owner[root[t]] = owner[t]
        /\ root[t] = t \/ root[t] \in delivered

ClosedHeld == closed \subseteq delivered

\* The token a handler found is one a client holds; the one it created is not.
HoldsOK ==
    \A h \in Handler :
        /\ tok[h] # NoToken => tok[h] \in delivered
        /\ pc[h] \in {"revoke", "audit", "respond"} =>
            /\ owner[new[h]] = acct[h]
            /\ new[h] \notin delivered
            /\ root[new[h]] = IF tok[h] = NoToken THEN new[h] ELSE root[tok[h]]

\* No two handlers created the same token.
NewApart ==
    \A g, h \in Handler :
        /\ pc[g] \in {"revoke", "audit", "respond"}
        /\ pc[h] \in {"revoke", "audit", "respond"}
        /\ new[g] = new[h]
        => g = h

\* One request at a time.
SoleHandler ==
    \A g, h \in Handler : acct[g] # None /\ acct[g] = acct[h] => g = h \/ acct[g] \in raced

\* The session s was neither logged out nor burned.
Open(s) == s \notin closed /\ s > burned[owner[s]]

\* The token a serial refresh or logout found is still usable until its handler
\* revokes it; then no token of its session is, until the successor is handed
\* out, and the session stays open.
SerialOK(h) ==
    acct[h] \notin raced =>
        /\ pc[h] \in {"create", "revoke", "logout"} /\ tok[h] # NoToken => Usable(tok[h])
        /\ pc[h] \in {"create", "revoke", "audit", "respond"} /\ tok[h] # NoToken => Open(root[tok[h]])
        /\ pc[h] \in {"revoke", "audit", "respond"} => Open(root[new[h]])
        /\ pc[h] \in {"audit", "respond"} => \A t \in Rows : Usable(t) => root[t] # root[new[h]]

\* A token that can still be used is of a session that has not ended.
UsableIsOpen == \A t \in Rows : Usable(t) => Open(root[t]) \/ owner[t] \in raced

SInv ==
    /\ RootsOK
    /\ ClosedHeld
    /\ HoldsOK
    /\ NewApart
    /\ SoleHandler
    /\ \A h \in Handler : SerialOK(h)
    /\ UsableIsOpen
    /\ OneUsableTokenPerSession

LEMMA InitSInv == Init => SInv
<1> SUFFICES ASSUME Init PROVE SInv
    OBVIOUS
<1>1. Rows = {} /\ closed = {} /\ delivered = {}
    BY DEF Init
<1>2. \A h \in Handler : pc[h] = "idle" /\ tok[h] = NoToken /\ acct[h] = None
    BY DEF Init
<1>3. RootsOK /\ ClosedHeld /\ UsableIsOpen /\ OneUsableTokenPerSession
    BY <1>1 DEF RootsOK, ClosedHeld, UsableIsOpen, OneUsableTokenPerSession
<1>4. HoldsOK /\ NewApart /\ SoleHandler /\ \A h \in Handler : SerialOK(h)
    BY <1>2 DEF HoldsOK, NewApart, SoleHandler, SerialOK
<1> QED
    BY <1>3, <1>4 DEF SInv

-----------------------------------------------------------------------------
(* What a step leaves alone.                                                *)

\* No row is inserted.
LEMMA RootsStay ==
    ASSUME IInv, SInv, UNCHANGED <<issued, owner, root>>, delivered \subseteq delivered'
    PROVE  RootsOK'
<1> SUFFICES ASSUME NEW t \in Rows
             PROVE  /\ root[root[t]] = root[t] /\ root[t] <= t
                    /\ owner[root[t]] = owner[t]
                    /\ root[t] = t \/ root[t] \in delivered'
    BY DEF RootsOK
<1> QED
    BY DEF SInv, RootsOK

\* The account a has the tokens that can be used, and the open sessions, it had.
AccountStays(a) ==
    /\ \A t \in Rows : owner'[t] = owner[t] /\ root'[t] = root[t]
    /\ \A t \in Rows : owner[t] = a =>
        /\ Usable(t)' <=> Usable(t)
        /\ root[t] \in closed' <=> root[t] \in closed
    /\ \A t \in Rows' \ Rows : t \notin delivered'
    /\ burned'[a] = burned[a]

\* A handler that neither moves nor sees its account change is as sure of its
\* session as it was.
LEMMA OthersSerial ==
    ASSUME IInv, SInv, NEW g \in Handler, SerialOK(g), AccountStays(acct[g]), raced' = raced,
           Rows \subseteq Rows',
           pc'[g] = pc[g], acct'[g] = acct[g], tok'[g] = tok[g], new'[g] = new[g]
    PROVE  SerialOK(g)'
<1> SUFFICES ASSUME acct[g] \notin raced PROVE SerialOK(g)'
    BY DEF SerialOK
<1>1. tok[g] # NoToken => tok[g] \in Rows /\ owner[tok[g]] = acct[g]
    BY DEF IInv, HandlersOK
<1>2. pc[g] \in {"revoke", "audit", "respond"} => new[g] \in Rows /\ owner[new[g]] = acct[g]
    BY DEF IInv, HandlersOK, SInv, HoldsOK
<1>3. \A t \in Rows : owner[t] = acct[g] =>
        /\ root[t] \in Rows /\ owner[root[t]] = acct[g] /\ root[root[t]] = root[t]
    BY DEF IInv, LineageOK, SInv, RootsOK
<1>4. ASSUME NEW t \in Rows, owner[t] = acct[g], Open(root[t])
      PROVE  Open(root[t])' /\ root'[t] = root[t]
    BY <1>3, <1>4 DEF Open, AccountStays
<1>5. ASSUME NEW t \in Rows, owner[t] = acct[g], NEW u \in Rows', Usable(u)', root'[u] = root'[t]
      PROVE  u \in Rows /\ Usable(u) /\ root[u] = root[t]
    <2>1. u \in Rows /\ root[u] = root[t]
        BY <1>5 DEF AccountStays, Usable
    <2>2. owner[u] = acct[g]
        BY <1>3, <1>5, <2>1 DEF SInv, RootsOK
    <2> QED
        BY <1>5, <2>1, <2>2 DEF AccountStays
<1>6. tok[g] # NoToken => (Usable(tok[g]) => Usable(tok[g])') 
    BY <1>1 DEF AccountStays, Usable
<1> QED
    BY <1>1, <1>2, <1>4, <1>5, <1>6 DEF SerialOK

\* So an account whose requests do not overlap is safe from what a handler does
\* for another.
LEMMA OthersStay ==
    ASSUME IInv, SInv, NEW h \in Handler, acct[h] \in Account, raced' = raced, Rows \subseteq Rows',
           \A a \in Account \ {acct[h]} : AccountStays(a),
           \A g \in Handler \ {h} :
                pc'[g] = pc[g] /\ acct'[g] = acct[g] /\ tok'[g] = tok[g] /\ new'[g] = new[g],
           SerialOK(h)'
    PROVE  \A g \in Handler : SerialOK(g)'
<1> SUFFICES ASSUME NEW g \in Handler, g # h, acct[g] \notin raced PROVE SerialOK(g)'
    BY DEF SerialOK
<1>1. SerialOK(g)
    BY DEF SInv
<1>2. CASE acct[g] \in Account
    <2>1. acct[g] # acct[h]
        BY <1>2 DEF SInv, SoleHandler
    <2> QED
        BY <1>1, <1>2, <2>1, OthersSerial
<1>3. CASE acct[g] \notin Account
    <2>1. pc[g] = "idle"
        BY <1>3 DEF IInv, HandlersOK
    <2> QED
        BY <2>1 DEF SerialOK
<1> QED
    BY <1>2, <1>3

-----------------------------------------------------------------------------
(* The steps.                                                               *)
(*                                                                          *)
(* Login, refresh and logout take up a handler.                             *)

LEMMA StartS ==
    ASSUME IInv, IInv', SInv, NEW h \in Handler, NEW label \in {"create", "burn", "logout"},
           NEW a \in Account, NEW t \in Token \union {NoToken}, Start(h, label, a, t),
           t # NoToken => t \in delivered /\ owner[t] = a,
           label # "burn" /\ t # NoToken => Usable(t),
           UNCHANGED <<table, delivered, lineage>>
    PROVE  SInv'
<1> USE DEF table, lineage
<1>1. RootsOK'
    BY RootsStay
<1>2. ClosedHeld'
    BY DEF SInv, ClosedHeld
<1>3. HoldsOK'
    BY DEF Start, Goto, IInv, TypeOK, SInv, HoldsOK
<1>4. NewApart'
    BY DEF Start, Goto, IInv, TypeOK, SInv, NewApart
<1>5. SoleHandler'
    BY DEF Start, Goto, IInv, TypeOK, SInv, SoleHandler
<1>6. ASSUME NEW g \in Handler PROVE SerialOK(g)'
    <2>1. CASE g = h
        <3>1. pc'[h] = label /\ acct'[h] = a /\ tok'[h] = t
            BY DEF Start, Goto, IInv, TypeOK
        <3>2. raced \subseteq raced'
            BY DEF Start
        <3>3. t # NoToken => t \in Rows
            BY DEF IInv, FreshRows
        <3> QED
            BY <2>1, <3>1, <3>2, <3>3 DEF SerialOK, SInv, UsableIsOpen, Usable, Open
    <2>2. CASE g # h
        BY <2>2 DEF Start, Goto, IInv, TypeOK, SInv, SerialOK, Usable, Open
    <2> QED
        BY <2>1, <2>2
<1>7. UsableIsOpen'
    BY DEF Start, SInv, UsableIsOpen, Usable, Open
<1>8. OneUsableTokenPerSession'
    BY DEF Start, SInv, OneUsableTokenPerSession, Usable
<1> QED
    BY <1>1, <1>2, <1>3, <1>4, <1>5, <1>6, <1>7, <1>8 DEF SInv

LEMMA RequestS ==
    ASSUME IInv, IInv', SInv, NEW h \in Handler,
           \/ \E a \in Account : Login(h, a)
           \/ \E t \in Token : RefreshLive(h, t) \/ RefreshReused(h, t) \/ LogoutFind(h, t)
    PROVE  SInv'
<1>1. ASSUME NEW a \in Account, Login(h, a) PROVE SInv'
    BY <1>1, StartS DEF Login
<1>2. \A t \in delivered : owner[t] \in Account
    BY DEF IInv, TypeOK, FreshRows, LineageOK
<1>3. ASSUME NEW t \in Token, RefreshLive(h, t) \/ RefreshReused(h, t) \/ LogoutFind(h, t) PROVE SInv'
    BY <1>2, <1>3, StartS DEF RefreshLive, RefreshReused, LogoutFind, Usable
<1> QED
    BY <1>1, <1>3

\* The new row is in a session of the handler's account, and no client holds it.
LEMMA CreateRowS ==
    ASSUME IInv, IInv', SInv, NEW h \in Handler, CreateRow(h)
    PROVE  SInv'
<1> DEFINE t == issued + 1
           r == IF tok[h] = NoToken THEN t ELSE root[tok[h]]
<1>1. /\ pc[h] = "create" /\ acct[h] \in Account /\ t \in Token /\ t \notin Rows /\ Rows' = Rows \union {t}
      /\ pc' = [pc EXCEPT ![h] = AfterCreate(h)] /\ new' = [new EXCEPT ![h] = t]
      /\ UNCHANGED <<revoked, expired, acct, tok, delivered, burned, closed, raced>>
    BY DEF CreateRow, Goto, IInv, TypeOK, HandlersOK
<1>2. /\ owner'[t] = acct[h] /\ root'[t] = r
      /\ \A u \in Rows : owner'[u] = owner[u] /\ root'[u] = root[u]
    <2>1. owner' = [owner EXCEPT ![t] = acct[h]] /\ root' = [root EXCEPT ![t] = r]
        BY DEF CreateRow
    <2> HIDE DEF r
    <2> QED
        BY <1>1, <2>1 DEF IInv, TypeOK
<1>3. tok[h] # NoToken =>
        /\ tok[h] \in Rows /\ tok[h] \in delivered /\ owner[tok[h]] = acct[h]
        /\ r \in Rows /\ root[r] = r /\ owner[r] = acct[h] /\ r \in delivered
    BY DEF IInv, HandlersOK, LineageOK, SInv, HoldsOK, RootsOK
<1>4. tok[h] = NoToken => r = t
    OBVIOUS
<1>5. t \notin delivered /\ burned[acct[h]] < t
    BY <1>1 DEF IInv, TypeOK, FreshRows, BurnedRowsExist
<1>6. AfterCreate(h) = IF tok[h] = NoToken THEN "respond" ELSE "revoke"
    BY DEF AfterCreate
<1>7. /\ pc'[h] = AfterCreate(h) /\ new'[h] = t
      /\ \A g \in Handler \ {h} : pc'[g] = pc[g] /\ new'[g] = new[g]
    BY <1>1 DEF IInv, TypeOK
<1>8. t > issued /\ issued \in Nat
    BY DEF IInv, TypeOK
<1> HIDE DEF t, r
<1>10. RootsOK'
    <2>1. ASSUME NEW u \in Rows
          PROVE  /\ root'[root'[u]] = root'[u] /\ root'[u] <= u
                 /\ owner'[root'[u]] = owner'[u]
                 /\ root'[u] = u \/ root'[u] \in delivered'
        <3>1. root[u] \in Rows
            BY DEF IInv, LineageOK
        <3> QED
            BY <1>1, <1>2, <3>1 DEF SInv, RootsOK
    <2>2. /\ root'[root'[t]] = root'[t] /\ root'[t] <= t
          /\ owner'[root'[t]] = owner'[t]
          /\ root'[t] = t \/ root'[t] \in delivered'
        BY <1>1, <1>2, <1>3, <1>4, <1>8
    <2> QED
        BY <1>1, <2>1, <2>2 DEF RootsOK
<1>11. ClosedHeld'
    BY <1>1 DEF SInv, ClosedHeld
<1>12. HoldsOK'
    <2>1. ASSUME NEW g \in Handler, g # h, pc[g] \in {"revoke", "audit", "respond"}
          PROVE  new[g] \in Rows /\ (tok[g] # NoToken => tok[g] \in Rows)
        BY <2>1 DEF IInv, HandlersOK
    <2>2. ASSUME NEW g \in Handler, g # h, pc'[g] \in {"revoke", "audit", "respond"}
          PROVE  /\ owner'[new'[g]] = acct'[g]
                 /\ new'[g] \notin delivered'
                 /\ root'[new'[g]] = IF tok'[g] = NoToken THEN new'[g] ELSE root'[tok'[g]]
        BY <1>1, <1>2, <1>7, <2>1, <2>2 DEF SInv, HoldsOK
    <2>3. /\ owner'[new'[h]] = acct'[h]
          /\ new'[h] \notin delivered'
          /\ root'[new'[h]] = IF tok'[h] = NoToken THEN new'[h] ELSE root'[tok'[h]]
        BY <1>1, <1>2, <1>3, <1>4, <1>5, <1>7 DEF SInv, RootsOK, r
    <2> QED
        BY <1>1, <2>2, <2>3 DEF SInv, HoldsOK
<1>13. NewApart'
    <2>1. \A g \in Handler \ {h} : pc[g] \in {"revoke", "audit", "respond"} => new[g] # t
        BY <1>1 DEF IInv, HandlersOK
    <2> QED
        BY <1>7, <2>1 DEF SInv, NewApart
<1>14. SoleHandler'
    BY <1>1 DEF SInv, SoleHandler
<1>15. \A a \in Account : AccountStays(a)
    BY <1>1, <1>2, <1>5 DEF AccountStays, Usable
<1>16. SerialOK(h)'
    <2> SUFFICES ASSUME acct[h] \notin raced
                 PROVE  SerialOK(h)'
        BY <1>1 DEF SerialOK
    <2>1. tok[h] # NoToken => Usable(tok[h]) /\ Open(r)
        BY <1>1 DEF SInv, SerialOK, r
    <2>2. r \notin closed' /\ r > burned'[owner'[r]]
        <3>1. CASE tok[h] = NoToken
            <4>1. r \notin closed
                BY <1>4, <1>5, <3>1 DEF SInv, ClosedHeld
            <4> QED
                BY <1>1, <1>2, <1>4, <1>5, <3>1, <4>1 DEF Open
        <3>2. CASE tok[h] # NoToken
            BY <1>1, <1>2, <1>3, <2>1, <3>2 DEF Open
        <3> QED
            BY <3>1, <3>2
    <2>3. tok[h] = NoToken => \A u \in Rows' : Usable(u)' => root'[u] # r
        <3> SUFFICES ASSUME tok[h] = NoToken, NEW u \in Rows', Usable(u)', root'[u] = r PROVE FALSE
            OBVIOUS
        <3>1. u \in Rows /\ root[u] = t
            BY <1>1, <1>2, <1>4, <1>5 DEF Usable
        <3> QED
            BY <1>1, <3>1 DEF IInv, LineageOK
    <2>4. tok[h] # NoToken => root'[tok[h]] = r /\ Usable(tok[h])'
        BY <1>1, <1>2, <1>3, <2>1 DEF r, Usable
    <2>5. root'[new'[h]] = r
        BY <1>2, <1>7
    <2> QED
        BY <1>1, <1>6, <1>7, <2>2, <2>3, <2>4, <2>5 DEF SerialOK, Open
<1>17. \A g \in Handler : SerialOK(g)'
    BY <1>1, <1>7, <1>15, <1>16, OthersStay
<1>18. UsableIsOpen'
    <2> SUFFICES ASSUME NEW u \in Rows, Usable(u)
                 PROVE  Open(root[u])' \/ owner'[u] \in raced'
        BY <1>1, <1>5 DEF UsableIsOpen, Usable
    <2>1. root[u] \in Rows
        BY DEF IInv, LineageOK
    <2> QED
        BY <1>1, <1>2, <2>1 DEF SInv, UsableIsOpen, Open
<1>19. OneUsableTokenPerSession'
    BY <1>1, <1>2, <1>5 DEF SInv, OneUsableTokenPerSession, Usable
<1> QED
    BY <1>10, <1>11, <1>12, <1>13, <1>14, <1>17, <1>18, <1>19 DEF SInv

\* The session's only token is not usable any more: none is.
LEMMA RevokeReplacedS ==
    ASSUME IInv, IInv', SInv, NEW h \in Handler, RevokeReplaced(h)
    PROVE  SInv'
<1>1. /\ pc[h] = "revoke" /\ pc' = [pc EXCEPT ![h] = "audit"] /\ revoked' = revoked \union {tok[h]}
      /\ UNCHANGED <<issued, owner, expired, acct, tok, new, delivered, lineage, raced>>
    BY DEF RevokeReplaced, Revoke, Goto
<1>2. acct[h] \in Account /\ tok[h] # NoToken /\ tok[h] \in Rows /\ owner[tok[h]] = acct[h]
    BY <1>1 DEF IInv, HandlersOK
<1>3. RootsOK'
    BY <1>1, RootsStay DEF lineage
<1>4. ClosedHeld' /\ SoleHandler'
    BY <1>1 DEF SInv, ClosedHeld, SoleHandler, lineage
<1>5. HoldsOK' /\ NewApart'
    BY <1>1 DEF IInv, TypeOK, SInv, HoldsOK, NewApart, lineage
<1>6. SerialOK(h)'
    <2> SUFFICES ASSUME acct[h] \notin raced PROVE SerialOK(h)'
        BY <1>1 DEF SerialOK
    <2>1. Usable(tok[h]) /\ Open(root[tok[h]]) /\ Open(root[new[h]]) /\ root[new[h]] = root[tok[h]]
        BY <1>1, <1>2 DEF SInv, SerialOK, HoldsOK
    <2>2. \A t \in Rows : Usable(t)' => root[t] # root[tok[h]]
        BY <1>1, <1>2, <2>1 DEF SInv, OneUsableTokenPerSession, Usable
    <2>3. pc'[h] = "audit"
        BY <1>1 DEF IInv, TypeOK
    <2> QED
        BY <1>1, <2>1, <2>2, <2>3 DEF SerialOK, Open, lineage
<1>7. \A a \in Account \ {acct[h]} : AccountStays(a)
    BY <1>1, <1>2 DEF AccountStays, Usable, lineage
<1>8. \A g \in Handler : SerialOK(g)'
    BY <1>1, <1>2, <1>6, <1>7, OthersStay DEF IInv, TypeOK
<1>9. UsableIsOpen' /\ OneUsableTokenPerSession'
    BY <1>1 DEF SInv, UsableIsOpen, OneUsableTokenPerSession, Usable, Open, lineage
<1> QED
    BY <1>3, <1>4, <1>5, <1>8, <1>9 DEF SInv

LEMMA AuditRotatedS ==
    ASSUME IInv, IInv', SInv, NEW h \in Handler, AuditRotated(h)
    PROVE  SInv'
<1>1. /\ pc[h] = "audit" /\ pc' = [pc EXCEPT ![h] = "respond"]
      /\ UNCHANGED <<issued, owner, revoked, expired, acct, tok, new, delivered, lineage, raced>>
    BY DEF AuditRotated, Goto
<1>2. RootsOK'
    BY <1>1, RootsStay DEF lineage
<1>3. ClosedHeld' /\ SoleHandler' /\ UsableIsOpen' /\ OneUsableTokenPerSession'
    BY <1>1 DEF SInv, ClosedHeld, SoleHandler, UsableIsOpen, OneUsableTokenPerSession, Usable, Open, lineage
<1>4. HoldsOK' /\ NewApart'
    BY <1>1 DEF IInv, TypeOK, SInv, HoldsOK, NewApart, lineage
<1>5. \A g \in Handler : SerialOK(g)'
    BY <1>1 DEF IInv, TypeOK, SInv, SerialOK, Usable, Open, lineage
<1> QED
    BY <1>2, <1>3, <1>4, <1>5 DEF SInv

\* A client gets the only usable token of its session.
LEMMA RespondS ==
    ASSUME IInv, IInv', SInv, NEW h \in Handler, Respond(h)
    PROVE  SInv'
<1>1. /\ pc[h] = "respond" /\ delivered' = delivered \union {new[h]} /\ Finish(h)
      /\ UNCHANGED <<issued, owner, revoked, expired, lineage, raced>>
    BY DEF Respond, table
<1>2. /\ acct[h] \in Account /\ new[h] \in Rows /\ owner[new[h]] = acct[h] /\ new[h] \notin delivered
    BY <1>1 DEF IInv, HandlersOK, SInv, HoldsOK
<1>3. /\ pc'[h] = "idle" /\ tok'[h] = NoToken /\ acct'[h] = None
      /\ \A g \in Handler \ {h} : pc'[g] = pc[g] /\ acct'[g] = acct[g] /\ tok'[g] = tok[g] /\ new'[g] = new[g]
    BY <1>1 DEF Finish, Goto, IInv, TypeOK
<1>4. RootsOK'
    BY <1>1, RootsStay DEF lineage
<1>5. ClosedHeld' /\ SoleHandler'
    BY <1>1, <1>3 DEF SInv, ClosedHeld, SoleHandler, lineage
<1>6. HoldsOK' /\ NewApart'
    BY <1>1, <1>3 DEF SInv, HoldsOK, NewApart, lineage
<1>7. \A a \in Account \ {acct[h]} : AccountStays(a)
    BY <1>1, <1>2 DEF AccountStays, Usable, lineage
<1>8. \A g \in Handler : SerialOK(g)'
    BY <1>1, <1>2, <1>3, <1>7, OthersStay DEF SerialOK
<1>9. acct[h] \notin raced =>
        Open(root[new[h]]) /\ \A t \in Rows : Usable(t) => root[t] # root[new[h]]
    BY <1>1 DEF SInv, SerialOK
<1>10. UsableIsOpen' /\ OneUsableTokenPerSession'
    <2>1. \A t \in Rows : Usable(t)' => Usable(t) \/ t = new[h]
        BY <1>1 DEF Usable
    <2>2. ASSUME NEW t \in Rows, root[t] = root[new[h]] PROVE owner[t] = acct[h]
        BY <1>2, <2>2 DEF SInv, RootsOK
    <2> QED
        BY <1>1, <1>2, <1>9, <2>1, <2>2 DEF SInv, UsableIsOpen, OneUsableTokenPerSession, Open, lineage
<1> QED
    BY <1>4, <1>5, <1>6, <1>8, <1>10 DEF SInv

\* A handler that ends: what it held is forgotten.
LEMMA FinishS ==
    ASSUME IInv, SInv, NEW h \in Handler, Finish(h),
           UNCHANGED <<issued, owner, root, delivered, raced>>
    PROVE  /\ RootsOK' /\ HoldsOK' /\ NewApart' /\ SoleHandler'
           /\ SerialOK(h)'
           /\ \A g \in Handler \ {h} :
                pc'[g] = pc[g] /\ acct'[g] = acct[g] /\ tok'[g] = tok[g] /\ new'[g] = new[g]
<1>1. /\ pc'[h] = "idle" /\ tok'[h] = NoToken /\ acct'[h] = None
      /\ \A g \in Handler \ {h} : pc'[g] = pc[g] /\ acct'[g] = acct[g] /\ tok'[g] = tok[g] /\ new'[g] = new[g]
    BY DEF Finish, Goto, IInv, TypeOK
<1>2. RootsOK'
    BY RootsStay
<1>3. HoldsOK' /\ NewApart' /\ SoleHandler'
    BY <1>1 DEF SInv, HoldsOK, NewApart, SoleHandler
<1> QED
    BY <1>1, <1>2, <1>3 DEF SerialOK

\* No token of the account is usable any more.
LEMMA BurnS ==
    ASSUME IInv, IInv', SInv, NEW h \in Handler, Burn(h)
    PROVE  SInv'
<1>1. /\ pc[h] = "burn" /\ Finish(h) /\ revoked' = revoked \union {t \in Rows : owner[t] = acct[h]}
      /\ burned' = [burned EXCEPT ![acct[h]] = issued]
      /\ UNCHANGED <<issued, owner, expired, delivered, parent, root, closed, raced>>
    BY DEF Burn, RevokeAllForAccount, RowsOf
<1>2. acct[h] \in Account /\ \A a \in Account \ {acct[h]} : burned'[a] = burned[a]
    BY <1>1 DEF IInv, TypeOK, HandlersOK
<1>3. \A a \in Account \ {acct[h]} : AccountStays(a)
    BY <1>1, <1>2 DEF AccountStays, Usable
<1>4. \A g \in Handler : SerialOK(g)'
    BY <1>1, <1>2, <1>3, FinishS, OthersStay
<1>5. ClosedHeld' /\ OneUsableTokenPerSession'
    BY <1>1 DEF SInv, ClosedHeld, OneUsableTokenPerSession, Usable
<1>6. UsableIsOpen'
    <2> SUFFICES ASSUME NEW t \in Rows, Usable(t)'
                 PROVE  Open(root[t])' \/ owner[t] \in raced
        BY <1>1 DEF UsableIsOpen
    <2>1. Usable(t) /\ owner[t] # acct[h] /\ owner[t] \in Account
        BY <1>1 DEF Usable, IInv, LineageOK
    <2>2. owner[root[t]] = owner[t]
        BY DEF SInv, RootsOK
    <2> QED
        BY <1>1, <1>2, <2>1, <2>2 DEF SInv, UsableIsOpen, Open
<1> QED
    BY <1>1, <1>4, <1>5, <1>6, FinishS DEF SInv

\* The session's only token is not usable any more, so it may end.
LEMMA LogoutRevokeS ==
    ASSUME IInv, IInv', SInv, NEW h \in Handler, LogoutRevoke(h)
    PROVE  SInv'
<1>1. /\ pc[h] = "logout" /\ Finish(h) /\ revoked' = revoked \union {tok[h]}
      /\ closed' = closed \union {root[tok[h]]}
      /\ UNCHANGED <<issued, owner, expired, delivered, parent, root, burned, raced>>
    BY DEF LogoutRevoke, Revoke
<1>2. /\ acct[h] \in Account /\ tok[h] # NoToken /\ tok[h] \in Rows /\ owner[tok[h]] = acct[h]
      /\ tok[h] \in delivered
    BY <1>1 DEF IInv, HandlersOK, SInv, HoldsOK
<1>3. \A t \in Rows : root[t] = root[tok[h]] => owner[t] = acct[h]
    BY <1>2 DEF SInv, RootsOK
<1>4. \A a \in Account \ {acct[h]} : AccountStays(a)
    BY <1>1, <1>2, <1>3 DEF AccountStays, Usable
<1>5. \A g \in Handler : SerialOK(g)'
    BY <1>1, <1>2, <1>4, FinishS, OthersStay
<1>6. ClosedHeld' /\ OneUsableTokenPerSession'
    BY <1>1, <1>2 DEF SInv, RootsOK, ClosedHeld, OneUsableTokenPerSession, Usable
<1>7. UsableIsOpen'
    <2> SUFFICES ASSUME NEW t \in Rows, Usable(t)', owner[t] \notin raced
                 PROVE  Open(root[t])'
        BY <1>1 DEF UsableIsOpen
    <2>1. Usable(t) /\ t # tok[h]
        BY <1>1 DEF Usable
    <2>2. root[t] # root[tok[h]]
        <3> SUFFICES ASSUME root[t] = root[tok[h]] PROVE FALSE
            OBVIOUS
        <3>1. Usable(tok[h])
            BY <1>1, <1>2, <1>3 DEF SInv, SerialOK
        <3> QED
            BY <1>2, <2>1, <3>1 DEF SInv, OneUsableTokenPerSession
    <2> QED
        BY <1>1, <2>1, <2>2 DEF SInv, UsableIsOpen, Open
<1> QED
    BY <1>1, <1>5, <1>6, <1>7, FinishS DEF SInv

LEMMA AbortS ==
    ASSUME IInv, IInv', SInv, NEW h \in Handler, Abort(h)
    PROVE  SInv'
<1>1. pc[h] # "idle" /\ Finish(h) /\ UNCHANGED <<table, delivered, lineage, raced>>
    BY DEF Abort
<1>2. acct[h] \in Account /\ \A a \in Account : AccountStays(a)
    BY <1>1 DEF IInv, HandlersOK, AccountStays, Usable, table, lineage
<1>3. \A g \in Handler : SerialOK(g)'
    BY <1>1, <1>2, FinishS, OthersStay DEF table, lineage
<1>4. ClosedHeld' /\ UsableIsOpen' /\ OneUsableTokenPerSession'
    BY <1>1 DEF SInv, ClosedHeld, UsableIsOpen, OneUsableTokenPerSession, Usable, Open, table, lineage
<1> QED
    BY <1>1, <1>3, <1>4, FinishS DEF SInv, table, lineage

\* Nothing the invariant is about changes.
LEMMA ElsewhereS ==
    ASSUME IInv, SInv, UNCHANGED <<issued, owner, revoked, locals, delivered, lineage, raced>>
    PROVE  SInv'
<1> USE DEF locals, lineage
<1>1. RootsOK'
    BY RootsStay
<1>2. ClosedHeld' /\ HoldsOK' /\ NewApart' /\ SoleHandler'
    BY DEF SInv, ClosedHeld, HoldsOK, NewApart, SoleHandler
<1>3. \A g \in Handler : SerialOK(g)'
    BY DEF SInv, SerialOK, Usable, Open
<1>4. UsableIsOpen' /\ OneUsableTokenPerSession'
    BY DEF SInv, UsableIsOpen, OneUsableTokenPerSession, Usable, Open
<1> QED
    BY <1>1, <1>2, <1>3, <1>4 DEF SInv

LEMMA NextSInv ==
    IInv /\ IInv' /\ SInv /\ [Next]_vars => SInv'
<1> SUFFICES ASSUME IInv, IInv', SInv, [Next]_vars PROVE SInv'
    OBVIOUS
<1>1. CASE UNCHANGED vars
    BY <1>1, ElsewhereS DEF vars, table
<1>2. ASSUME NEW t \in Token, Expire(t) PROVE SInv'
    BY <1>2, ElsewhereS DEF Expire
<1>3. ASSUME NEW h \in Handler, HandlerStep(h) \/ Abort(h) PROVE SInv'
    BY <1>3, CreateRowS, RevokeReplacedS, AuditRotatedS, RespondS, BurnS, LogoutRevokeS, AbortS
    DEF HandlerStep
<1> QED
    BY <1>1, <1>2, <1>3, RequestS DEF Next

LEMMA SerialInvariant ==
    Spec => [](IInv /\ SInv)
<1>1. IInv /\ SInv /\ [Next]_vars => (IInv /\ SInv)'
    BY NextIInv, NextSInv
<1> QED
    BY <1>1, InitIInv, InitSInv, PTL DEF Spec

\* Until two requests of the account overlap, a login's session never has two
\* usable tokens, however handlers of other accounts interleave with it and
\* wherever a rotation is cut off.
THEOREM SessionsOneUsableToken ==
    Spec => []OneUsableTokenPerSession
<1>1. SInv => OneUsableTokenPerSession
    BY DEF SInv
<1> QED
    BY <1>1, SerialInvariant, PTL

\* Until then, no token of a session is usable after its logout.
THEOREM SessionsLogoutEnds ==
    Spec => []LogoutEndsSession
<1>1. SInv => LogoutEndsSession
    BY DEF SInv, UsableIsOpen, Open, LogoutEndsSession
<1> QED
    BY <1>1, SerialInvariant, PTL

-----------------------------------------------------------------------------
(* Sessions implements SessionSpec.  The tokens clients hold, and what the   *)
(* server makes of them, as the refinement maps them:                        *)

accepted == delivered \ (revoked \union expired)

account == [t \in Token |-> IF t \in delivered THEN owner[t] ELSE None]

session == [t \in Token |-> IF t \in delivered THEN root[t] ELSE NoToken]

ended == closed \union {root[t] : t \in BurnedRows}

\* A step in which no client's token changes is a stutter.
LEMMA StutterP ==
    ASSUME UNCHANGED <<delivered, accepted, account, session, ended, raced>>
    PROVE  UNCHANGED Promise!vars
BY DEF Promise!vars, accepted, account, session, ended

\* No row is inserted or handed out, none of the account's sessions ends.
LEMMA MapStays ==
    ASSUME UNCHANGED <<issued, owner, delivered, root, burned, closed>>
    PROVE  UNCHANGED <<account, session, ended>>
BY DEF account, session, ended, BurnedRows

LEMMA StartP ==
    ASSUME NEW h \in Handler, NEW label, NEW a \in Account, NEW t, Start(h, label, a, t),
           UNCHANGED <<table, delivered, lineage>>
    PROVE  [Promise!Next]_(Promise!vars)
<1>1. UNCHANGED <<account, session, ended, accepted>>
    BY MapStays DEF table, lineage, accepted
<1>2. CASE raced' = raced
    BY <1>1, <1>2, StutterP
<1>3. CASE raced' = raced \union {a}
    <2>1. Promise!Overlap(a)
        BY <1>1, <1>3 DEF Promise!Overlap, accepted, account, session, ended
    <2> QED
        BY <2>1 DEF Promise!Next
<1> QED
    BY <1>2, <1>3 DEF Start

\* A row no client has yet, and too new to be burned.
LEMMA CreateRowP ==
    ASSUME IInv, IInv', NEW h \in Handler, CreateRow(h)
    PROVE  UNCHANGED Promise!vars
<1> DEFINE t == issued + 1
<1>1. /\ t \in Token /\ t \notin Rows /\ Rows' = Rows \union {t} /\ Rows \subseteq Token
      /\ t \notin delivered
      /\ UNCHANGED <<revoked, expired, delivered, burned, closed, raced>>
    <2>1. issued \in Nat /\ issued < MaxTokens /\ issued' = t
        BY DEF CreateRow, IInv, TypeOK
    <2>2. t \in Token /\ t \notin Rows /\ Rows' = Rows \union {t} /\ Rows \subseteq Token
        BY <2>1
    <2> QED
        BY <2>2 DEF CreateRow, IInv, FreshRows
<1>2. \A u \in Token \ {t} : owner'[u] = owner[u] /\ root'[u] = root[u]
    <2>1. \E r : owner' = [owner EXCEPT ![t] = acct[h]] /\ root' = [root EXCEPT ![t] = r]
        BY DEF CreateRow
    <2> QED
        BY <2>1 DEF IInv, TypeOK
<1>3. owner'[t] \in Account /\ burned[owner'[t]] < t
    <2>1. owner'[t] \in Account
        BY <1>1 DEF IInv, LineageOK
    <2> QED
        BY <2>1 DEF IInv, TypeOK, BurnedRowsExist
<1> HIDE DEF t
<1>4. account' = account /\ session' = session /\ accepted' = accepted
    BY <1>1, <1>2 DEF account, session, accepted
<1>5. BurnedRows' = BurnedRows
    <2>1. ASSUME NEW u \in Rows PROVE u \in BurnedRows' <=> u \in BurnedRows
        <3>1. owner'[u] = owner[u] /\ u \in Rows'
            BY <1>1, <1>2 DEF IInv, TypeOK
        <3> QED
            BY <1>1, <3>1 DEF BurnedRows
    <2>2. t \notin BurnedRows'
        BY <1>1, <1>3 DEF BurnedRows, IInv, TypeOK
    <2> QED
        BY <1>1, <2>1, <2>2 DEF BurnedRows
<1>6. ended' = ended
    <2>1. BurnedRows \subseteq Token \ {t}
        BY <1>1 DEF BurnedRows, IInv, TypeOK
    <2> QED
        BY <1>1, <1>2, <1>5, <2>1 DEF ended
<1> QED
    BY <1>1, <1>4, <1>6, StutterP

LEMMA RevokeReplacedP ==
    ASSUME IInv, NEW h \in Handler, RevokeReplaced(h)
    PROVE  Promise!Next
<1>1. tok[h] \in Token
    BY DEF IInv, TypeOK, HandlersOK, RevokeReplaced
<1>2. accepted' = accepted \ {tok[h]} /\ UNCHANGED <<delivered, raced, account, session, ended>>
    BY MapStays DEF RevokeReplaced, Revoke, lineage, accepted
<1>3. Promise!Refuse(tok[h])
    BY <1>2 DEF Promise!Refuse, accepted, account, session, ended
<1> QED
    BY <1>1, <1>3 DEF Promise!Next

LEMMA ExpireP ==
    ASSUME NEW t \in Token, Expire(t)
    PROVE  Promise!Next
<1>1. accepted' = accepted \ {t} /\ UNCHANGED <<delivered, raced, account, session, ended>>
    BY MapStays DEF Expire, lineage, accepted
<1>2. Promise!Refuse(t)
    BY <1>1 DEF Promise!Refuse, accepted, account, session, ended
<1> QED
    BY <1>2 DEF Promise!Next

LEMMA AuditOrAbortP ==
    ASSUME NEW h \in Handler, AuditRotated(h) \/ Abort(h)
    PROVE  UNCHANGED Promise!vars
<1>1. UNCHANGED <<issued, owner, revoked, expired, delivered, lineage, raced>>
    BY DEF AuditRotated, Abort, table
<1> QED
    BY <1>1, MapStays, StutterP DEF lineage, accepted

\* A serial handler hands out the one accepted token of an open session.
LEMMA RespondP ==
    ASSUME IInv, SInv, NEW h \in Handler, Respond(h)
    PROVE  Promise!Next
<1>0. PICK a \in Account, s, t \in Token : a = acct[h] /\ t = new[h] /\ s = root[new[h]]
    <2>1. acct[h] \in Account /\ new[h] \in Rows /\ root[new[h]] \in Rows /\ Rows \subseteq Token
        BY DEF Respond, IInv, TypeOK, HandlersOK, LineageOK
    <2> QED
        BY <2>1
<1>1. /\ pc[h] = "respond" /\ delivered' = delivered \union {t}
      /\ UNCHANGED <<issued, owner, revoked, expired, lineage, raced>>
    BY <1>0 DEF Respond, table
<1>2. t \in Rows /\ root[t] = s /\ owner[t] = a /\ t \notin delivered
    BY <1>0, <1>1 DEF IInv, HandlersOK, SInv, HoldsOK
<1>3. s = t \/ \E p \in delivered : owner[p] = a /\ root[p] = s /\ p \in revoked
    BY <1>0, <1>1 DEF IInv, HandlersOK, SInv, HoldsOK
<1>4. a \notin raced => Open(s) /\ \A u \in Rows : Usable(u) => root[u] # s
    BY <1>0, <1>1 DEF SInv, SerialOK
<1>5. delivered \subseteq Rows /\ Rows \subseteq Token
    BY DEF IInv, TypeOK, FreshRows
<1>6. accepted' \in {accepted, accepted \union {t}}
    BY <1>1, <1>2 DEF accepted
<1>7. account' = [account EXCEPT ![t] = a] /\ session' = [session EXCEPT ![t] = s]
    BY <1>1, <1>2, <1>5 DEF account, session, lineage
<1>8. s = t \/ \E p \in Promise!HeldBy(a) \ accepted : session[p] = s
    BY <1>3, <1>5 DEF Promise!HeldBy, account, session, accepted
<1>9. a \in raced \/ (s \notin ended /\ Promise!AcceptedOf(s) = {})
    <2> SUFFICES ASSUME a \notin raced PROVE s \notin ended /\ Promise!AcceptedOf(s) = {}
        OBVIOUS
    <2>1. ASSUME NEW u \in BurnedRows, root[u] = s PROVE FALSE
        <3>1. u \in Rows /\ u <= burned[owner[u]] /\ owner[u] = owner[s] /\ s <= u
            BY <2>1 DEF BurnedRows, SInv, RootsOK
        <3>2. owner[u] \in Account
            BY <3>1 DEF IInv, LineageOK
        <3> QED
            BY <1>2, <1>4, <3>1, <3>2 DEF Open, IInv, TypeOK
    <2>2. s \notin ended
        BY <1>4, <2>1 DEF ended, Open
    <2>3. Promise!AcceptedOf(s) = {}
        BY <1>4, <1>5 DEF Promise!AcceptedOf, accepted, session, Usable
    <2> QED
        BY <2>2, <2>3
<1>10. ended' = ended
    BY <1>1 DEF ended, BurnedRows, lineage
<1>11. Promise!HandOut(a, s, t)
    BY <1>1, <1>2, <1>6, <1>7, <1>8, <1>9, <1>10
    DEF Promise!HandOut, Promise!HeldBy, Promise!AcceptedOf, accepted, account, session, ended
<1> QED
    BY <1>11 DEF Promise!Next

\* Every token of the account that a client holds is refused, and every session
\* of it has ended, the ones still being opened included.
LEMMA BurnP ==
    ASSUME IInv, NEW h \in Handler, Burn(h)
    PROVE  Promise!Next
<1> DEFINE mine == {t \in Rows : owner[t] = acct[h]}
<1>0. PICK a \in Account, ss \in SUBSET Token : a = acct[h] /\ ss = {root[t] : t \in mine}
    <2>1. acct[h] \in Account /\ Rows \subseteq Token /\ \A t \in Rows : root[t] \in Rows
        BY DEF Burn, IInv, TypeOK, HandlersOK, LineageOK
    <2> QED
        BY <2>1
<1>1. /\ revoked' = revoked \union mine /\ burned' = [burned EXCEPT ![a] = issued]
      /\ UNCHANGED <<issued, owner, expired, delivered, root, closed, raced>>
    BY <1>0 DEF Burn, RevokeAllForAccount, RowsOf
<1>2. delivered \subseteq Rows /\ Rows \subseteq Token
    BY DEF IInv, TypeOK, FreshRows
<1>4. account' = account /\ session' = session
    BY <1>1 DEF account, session
<1>5. \A t \in delivered : account[t] = owner[t] /\ session[t] = root[t]
    BY <1>2 DEF account, session
<1>6. Promise!HeldBy(a) = {t \in delivered : owner[t] = a}
    BY <1>5 DEF Promise!HeldBy, account
<1>7. accepted' = accepted \ Promise!HeldBy(a)
    BY <1>0, <1>1, <1>2, <1>6 DEF accepted
<1>8. {session[t] : t \in Promise!HeldBy(a)} \subseteq ss
    BY <1>0, <1>2, <1>5, <1>6
<1>9. BurnedRows' = BurnedRows \union mine
    <2>1. ASSUME NEW t \in Rows PROVE t \in BurnedRows' <=> t \in BurnedRows \/ t \in mine
        <3>1. owner[t] \in Account
            BY DEF IInv, LineageOK
        <3>2. CASE owner[t] = a
            BY <1>0, <1>1, <3>1, <3>2 DEF BurnedRows, IInv, TypeOK
        <3>3. CASE owner[t] # a
            BY <1>0, <1>1, <3>1, <3>3 DEF BurnedRows, IInv, TypeOK
        <3> QED
            BY <3>2, <3>3
    <2> QED
        BY <1>1, <2>1 DEF BurnedRows
<1>10. ended' = ended \union ss
    BY <1>0, <1>1, <1>9 DEF ended
<1>11. Promise!Burn(a, ss)
    BY <1>1, <1>4, <1>7, <1>8, <1>10 DEF Promise!Burn, Promise!HeldBy, accepted, account, session, ended
<1> QED
    BY <1>11 DEF Promise!Next

\* Only a race leaves a logged-out session another token.
LEMMA LogoutRevokeP ==
    ASSUME IInv, SInv, NEW h \in Handler, LogoutRevoke(h)
    PROVE  Promise!Next
<1>0. PICK t \in Token : t = tok[h]
    BY DEF LogoutRevoke, IInv, TypeOK, HandlersOK
<1>1. /\ pc[h] = "logout" /\ revoked' = revoked \union {t} /\ closed' = closed \union {root[t]}
      /\ UNCHANGED <<issued, owner, expired, delivered, root, burned, raced>>
    BY <1>0 DEF LogoutRevoke, Revoke
<1>2. t \in Rows /\ t \in delivered /\ owner[t] = acct[h] /\ t # NoToken
    BY <1>0, <1>1 DEF IInv, TypeOK, HandlersOK, SInv, HoldsOK
<1>3. acct[h] \notin raced => Usable(t)
    BY <1>0, <1>1, <1>2 DEF SInv, SerialOK
<1>4. delivered \subseteq Rows /\ Rows \subseteq Token
    BY DEF IInv, TypeOK, FreshRows
<1>5. account' = account /\ session' = session /\ account[t] = owner[t] /\ session[t] = root[t]
    BY <1>1, <1>2 DEF account, session
<1>6. ended' = ended \union {session[t]}
    BY <1>1, <1>5 DEF ended, BurnedRows
<1>7. accepted' = accepted \ {t}
    BY <1>1 DEF accepted
<1>8. account[t] \in raced \/ Promise!AcceptedOf(session[t]) \subseteq {t}
    <2> SUFFICES ASSUME owner[t] \notin raced,
                        NEW u \in accepted, session[u] = root[t]
                 PROVE  u = t
        BY <1>5 DEF Promise!AcceptedOf, accepted, session
    <2>1. u \in Rows /\ Usable(u) /\ root[u] = root[t]
        BY <1>4 DEF accepted, session, Usable
    <2> QED
        BY <1>2, <1>3, <2>1 DEF SInv, OneUsableTokenPerSession
<1>9. Promise!LogOut(t)
    BY <1>1, <1>2, <1>5, <1>6, <1>7, <1>8
    DEF Promise!LogOut, Promise!AcceptedOf, accepted, account, session, ended
<1> QED
    BY <1>9 DEF Promise!Next

LEMMA NextP ==
    IInv /\ IInv' /\ SInv /\ [Next]_vars => [Promise!Next]_(Promise!vars)
<1> SUFFICES ASSUME IInv, IInv', SInv, [Next]_vars PROVE [Promise!Next]_(Promise!vars)
    OBVIOUS
<1>1. CASE UNCHANGED vars
    BY <1>1, MapStays, StutterP DEF vars, table, lineage, accepted
<1>2. ASSUME NEW h \in Handler,
             \/ \E a \in Account : Login(h, a)
             \/ \E t \in Token : RefreshLive(h, t) \/ RefreshReused(h, t) \/ LogoutFind(h, t)
      PROVE  [Promise!Next]_(Promise!vars)
    <2>1. \A t \in delivered : owner[t] \in Account
        BY DEF IInv, TypeOK, FreshRows, LineageOK
    <2> QED
        BY <1>2, <2>1, StartP DEF Login, RefreshLive, RefreshReused, LogoutFind
<1>3. ASSUME NEW h \in Handler, HandlerStep(h) \/ Abort(h)
      PROVE  [Promise!Next]_(Promise!vars)
    BY <1>3, CreateRowP, RevokeReplacedP, AuditOrAbortP, RespondP, BurnP, LogoutRevokeP DEF HandlerStep
<1> QED
    BY <1>1, <1>2, <1>3, ExpireP DEF Next

\* The table and its handlers implement the interface that a holder of a
\* refresh token may rely on: a chain of single tokens while its account's
\* requests come one at a time, refusals and burns that are final ever after.
THEOREM SessionsKeepPromise ==
    Spec => KeepsPromise
<1>1. Init => Promise!Init
    BY DEF Init, Promise!Init, BurnedRows
<1> QED
    BY <1>1, SerialInvariant, NextP, PTL DEF Spec, KeepsPromise, Promise!Spec

-----------------------------------------------------------------------------
(* What outlives a burn.  Every survivor was created by a request that held  *)
(* a burned token when the burn ran; such a request creates one row, and no  *)
(* other request begins with a burned token.                                *)

Pending(a) ==
    {h \in Handler : pc[h] = "create" /\ acct[h] = a /\ tok[h] # NoToken /\ tok[h] <= burned[a]}

\* Survivors and the requests that may still create one are fewer than the
\* handlers: one of these ran the burn.
Outlived(a) ==
    \/ Cardinality(Survivors(a)) + Cardinality(Pending(a)) < Cardinality(Handler)
    \/ Survivors(a) = {} /\ Pending(a) = {}

CountOK == \A a \in Account : Outlived(a)

LEMMA CountedSetsFinite ==
    ASSUME IInv, NEW a
    PROVE  /\ IsFiniteSet(Survivors(a)) /\ IsFiniteSet(Pending(a))
           /\ Cardinality(Survivors(a)) \in Nat /\ Cardinality(Pending(a)) \in Nat
           /\ Cardinality(Handler) \in Nat
<1>1. IsFiniteSet(Rows)
    BY FS_Interval DEF IInv, TypeOK
<1>2. Survivors(a) \subseteq Rows /\ Pending(a) \subseteq Handler
    BY DEF Survivors, RowsOf, Pending
<1>3. IsFiniteSet(Survivors(a)) /\ IsFiniteSet(Pending(a))
    BY <1>1, <1>2, FS_Subset
<1> QED
    BY <1>3, FS_CardinalityType

\* Neither set grows.
LEMMA OutlivedShrinks ==
    ASSUME IInv, IInv', NEW a, Outlived(a),
           Survivors(a)' \subseteq Survivors(a), Pending(a)' \subseteq Pending(a)
    PROVE  Outlived(a)'
<1>1. Cardinality(Survivors(a)') <= Cardinality(Survivors(a))
    BY CountedSetsFinite, FS_Subset
<1>2. Cardinality(Pending(a)') <= Cardinality(Pending(a))
    BY CountedSetsFinite, FS_Subset
<1>3. Cardinality(Survivors(a)') \in Nat /\ Cardinality(Pending(a)') \in Nat
    <2>1. IsFiniteSet(Survivors(a)') /\ IsFiniteSet(Pending(a)')
        BY CountedSetsFinite, FS_Subset
    <2> QED
        BY <2>1, FS_CardinalityType
<1> QED
    BY <1>1, <1>2, <1>3, CountedSetsFinite DEF Outlived

\* A pending request turns into a survivor; no other row counts.
LEMMA CreateRowC ==
    ASSUME IInv, IInv', CountOK, NEW h \in Handler, CreateRow(h), NEW a \in Account
    PROVE  Outlived(a)'
<1> DEFINE t == issued + 1
<1>1. /\ t \notin Rows /\ Rows' = Rows \union {t} /\ pc'[h] # "create"
      /\ \A g \in Handler \ {h} : pc'[g] = pc[g]
      /\ UNCHANGED <<revoked, acct, tok, burned>>
    BY DEF CreateRow, Goto, AfterCreate, IInv, TypeOK
<1>2. /\ owner'[t] = acct[h] /\ parent'[t] = tok[h]
      /\ \A u \in Rows : owner'[u] = owner[u] /\ parent'[u] = parent[u]
    BY DEF CreateRow, IInv, TypeOK
<1>3. pc[h] = "create" /\ t \notin revoked
    BY <1>1 DEF CreateRow, IInv, TypeOK, FreshRows
<1> HIDE DEF t
<1>4. Pending(a)' = Pending(a) \ {h}
    BY <1>1 DEF Pending
<1>5. CASE h \in Pending(a)
    <2>1. Survivors(a)' = Survivors(a) \union {t} /\ t \notin Survivors(a)
        BY <1>1, <1>2, <1>3, <1>5 DEF Survivors, RowsOf, Pending
    <2>2. Cardinality(Survivors(a)') = Cardinality(Survivors(a)) + 1
        BY <2>1, CountedSetsFinite, FS_AddElement
    <2>3. Cardinality(Pending(a)') = Cardinality(Pending(a)) - 1
        BY <1>4, <1>5, CountedSetsFinite, FS_RemoveElement
    <2> QED
        BY <1>5, <2>2, <2>3, CountedSetsFinite DEF CountOK, Outlived
<1>6. CASE h \notin Pending(a)
    <2>1. Survivors(a)' = Survivors(a)
        BY <1>1, <1>2, <1>3, <1>6 DEF Survivors, RowsOf, Pending
    <2> QED
        BY <1>4, <2>1, OutlivedShrinks DEF CountOK
<1> QED
    BY <1>5, <1>6

\* The burn leaves no survivor, and does not wait to create one.
LEMMA BurnC ==
    ASSUME IInv, IInv', CountOK, NEW h \in Handler, Burn(h), NEW a \in Account
    PROVE  Outlived(a)'
<1>1. /\ pc[h] = "burn" /\ Finish(h) /\ revoked' = revoked \union RowsOf(acct[h])
      /\ burned' = [burned EXCEPT ![acct[h]] = issued]
      /\ UNCHANGED <<issued, owner, parent>>
    BY DEF Burn, RevokeAllForAccount
<1>2. /\ acct[h] \in Account /\ pc'[h] = "idle"
      /\ \A g \in Handler \ {h} : pc'[g] = pc[g] /\ acct'[g] = acct[g] /\ tok'[g] = tok[g]
    BY <1>1 DEF Finish, Goto, IInv, TypeOK, HandlersOK
<1>3. CASE a = acct[h]
    <2>1. Survivors(a)' = {}
        BY <1>1, <1>3 DEF Survivors, RowsOf
    <2>2. Pending(a)' \subseteq Handler \ {h}
        BY <1>2 DEF Pending
    <2>3. IsFiniteSet(Handler \ {h}) /\ Cardinality(Handler \ {h}) = Cardinality(Handler) - 1
        BY FS_RemoveElement
    <2>4. Cardinality(Pending(a)') <= Cardinality(Handler) - 1 /\ Cardinality(Pending(a)') \in Nat
        BY <2>2, <2>3, FS_Subset, FS_CardinalityType
    <2>5. Cardinality(Survivors(a)') = 0
        BY <2>1, FS_EmptySet
    <2> QED
        BY <2>4, <2>5, CountedSetsFinite DEF Outlived
<1>4. CASE a # acct[h]
    <2>1. burned'[a] = burned[a]
        BY <1>1, <1>2, <1>4 DEF IInv, TypeOK
    <2>2. Survivors(a)' \subseteq Survivors(a) /\ Pending(a)' \subseteq Pending(a)
        BY <1>1, <1>2, <2>1 DEF Survivors, RowsOf, Pending
    <2> QED
        BY <2>2, OutlivedShrinks DEF CountOK
<1> QED
    BY <1>3, <1>4

\* No request begins with a burned token: it would be refused as reused.
LEMMA OthersC ==
    ASSUME IInv, IInv', CountOK, NEW a \in Account,
           revoked \subseteq revoked', UNCHANGED <<issued, owner, parent, burned>>,
           \A h \in Handler : pc'[h] = "create" =>
                \/ pc[h] = "create" /\ acct'[h] = acct[h] /\ tok'[h] = tok[h]
                \/ tok'[h] = NoToken
                \/ tok'[h] \notin revoked
    PROVE  Outlived(a)'
<1>1. Survivors(a)' \subseteq Survivors(a)
    BY DEF Survivors, RowsOf
<1>2. ASSUME NEW h \in Handler, h \in Pending(a)'
      PROVE  h \in Pending(a)
    <2>1. tok'[h] \in Rows /\ owner[tok'[h]] = a /\ tok'[h] <= burned[a]
        BY <1>2 DEF Pending, IInv, HandlersOK
    <2>2. tok'[h] \in revoked
        BY <2>1 DEF IInv, BurnIsFinal, RowsOf
    <2> QED
        BY <1>2, <2>2 DEF Pending
<1>3. Pending(a)' \subseteq Pending(a)
    BY <1>2 DEF Pending
<1> QED
    BY <1>1, <1>3, OutlivedShrinks DEF CountOK

LEMMA NextCountOK ==
    IInv /\ IInv' /\ CountOK /\ [Next]_vars => CountOK'
<1> SUFFICES ASSUME IInv, IInv', CountOK, [Next]_vars, NEW a \in Account PROVE Outlived(a)'
    BY DEF CountOK
<1> USE DEF table, lineage, locals
<1>1. CASE UNCHANGED vars
    BY <1>1, OthersC DEF vars
<1>2. ASSUME NEW t \in Token, Expire(t) PROVE Outlived(a)'
    BY <1>2, OthersC DEF Expire
<1>3. ASSUME NEW h \in Handler, NEW b, Login(h, b) PROVE Outlived(a)'
    BY <1>3, OthersC DEF Login, Start, Goto, IInv, TypeOK
<1>4. ASSUME NEW h \in Handler, NEW t \in Token, RefreshLive(h, t) \/ RefreshReused(h, t) \/ LogoutFind(h, t)
      PROVE  Outlived(a)'
    BY <1>4, OthersC DEF RefreshLive, RefreshReused, LogoutFind, Start, Goto, IInv, TypeOK
<1>5. ASSUME NEW h \in Handler, RevokeReplaced(h) \/ AuditRotated(h) PROVE Outlived(a)'
    BY <1>5, OthersC DEF RevokeReplaced, Revoke, AuditRotated, Goto, IInv, TypeOK
<1>6. ASSUME NEW h \in Handler, Respond(h) \/ LogoutRevoke(h) \/ Abort(h) PROVE Outlived(a)'
    BY <1>6, OthersC DEF Respond, LogoutRevoke, Revoke, Abort, Finish, Goto, IInv, TypeOK
<1> QED
    BY <1>1, <1>2, <1>3, <1>4, <1>5, <1>6, CreateRowC, BurnC DEF Next, HandlerStep

\* However rotations and burns overlap, fewer tokens outlive an account's last
\* burn than there are handlers: the rotations that were in flight besides it.
THEOREM SessionsSurvivorsBounded ==
    Spec => []SurvivorsBounded
<1>1. Init => CountOK
    BY DEF Init, CountOK, Outlived, Survivors, RowsOf, Pending
<1>2. IInv /\ CountOK => SurvivorsBounded
    <2> SUFFICES ASSUME IInv, CountOK, NEW a \in Account
                 PROVE  Cardinality(Survivors(a)) < Cardinality(Handler) \/ Survivors(a) = {}
        BY DEF SurvivorsBounded
    <2> QED
        BY CountedSetsFinite DEF CountOK, Outlived
<1> QED
    BY <1>1, <1>2, SessionsInvariant, NextCountOK, PTL DEF Spec

=============================================================================
