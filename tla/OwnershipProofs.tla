-------------------------- MODULE OwnershipProofs --------------------------
(***************************************************************************)
(* Proofs about Ownership, for any accounts, handlers and number of items,  *)
(* and about the audit log composed with it, for any log, readers and posts. *)
(* IInv is inductive: one lemma per action, one step per conjunct.          *)
(***************************************************************************)
EXTENDS AuditLog, TLAPS

USE OwnershipAssumption DEF Item, NoItem

LEMMA InitIInv == Init => IInv
BY DEF Init, IInv, TypeOK, PC, Kind, Route, FreshItems, HandlersOK, OwnerFollowsToken,
       KnownIsLinked, RevokedByOwner

\* A token request only takes up a handler.
LEMMA GenerateStep ==
    ASSUME IInv, NEW h \in Handler, NEW c \in Account \union {None}, Generate(h, c)
    PROVE  IInv'
<1> USE DEF IInv, TypeOK, items, locals, history, Generate, Start, Goto, KnownOf
<1>1. TypeOK'
    BY DEF PC, Kind, Route, HandlersOK, OnBehalfOf
<1>2. FreshItems'
    BY DEF FreshItems, HandlersOK
<1>3. HandlersOK'
    BY DEF HandlersOK, OnBehalfOf, KnownIsLinked, OwnerFollowsToken, FreshItems
<1>4. OwnerFollowsToken'
    BY DEF OwnerFollowsToken, HandlersOK, FreshItems
<1>5. KnownIsLinked'
    BY DEF KnownIsLinked, HandlersOK, FreshItems
<1>6. RevokedByOwner'
    BY DEF RevokedByOwner, HandlersOK, FreshItems
<1>7. QED
    BY <1>1, <1>2, <1>3, <1>4, <1>5, <1>6

\* So does the issuance of a credential.
LEMMA IssueStep ==
    ASSUME IInv, NEW h \in Handler, NEW c \in Account \union {None}, Issue(h, c)
    PROVE  IInv'
<1> USE DEF IInv, TypeOK, items, locals, history, Issue, Start, Goto, KnownOf
<1>1. TypeOK'
    BY DEF PC, Kind, Route, HandlersOK, OnBehalfOf
<1>2. FreshItems'
    BY DEF FreshItems, HandlersOK
<1>3. HandlersOK'
    BY DEF HandlersOK, OnBehalfOf, KnownIsLinked, OwnerFollowsToken, FreshItems
<1>4. OwnerFollowsToken'
    BY DEF OwnerFollowsToken, HandlersOK, FreshItems
<1>5. KnownIsLinked'
    BY DEF KnownIsLinked, HandlersOK, FreshItems
<1>6. RevokedByOwner'
    BY DEF RevokedByOwner, HandlersOK, FreshItems
<1>7. QED
    BY <1>1, <1>2, <1>3, <1>4, <1>5, <1>6

\* The link read is the one of the account the token was generated for.
LEMMA EnrollStep ==
    ASSUME IInv, NEW h \in Handler, NEW t \in Item, Enroll(h, t)
    PROVE  IInv'
<1> USE DEF IInv, TypeOK, items, locals, history, Enroll, Start, Goto, KnownOf
<1>1. TypeOK'
    BY DEF PC, Kind, Route, HandlersOK, OnBehalfOf
<1>2. FreshItems'
    BY DEF FreshItems, HandlersOK
<1>3. HandlersOK'
    BY DEF HandlersOK, OnBehalfOf, KnownIsLinked, OwnerFollowsToken, FreshItems
<1>4. OwnerFollowsToken'
    BY DEF OwnerFollowsToken, HandlersOK, FreshItems
<1>5. KnownIsLinked'
    BY DEF KnownIsLinked, HandlersOK, FreshItems
<1>6. RevokedByOwner'
    BY DEF RevokedByOwner, HandlersOK, FreshItems
<1>7. QED
    BY <1>1, <1>2, <1>3, <1>4, <1>5, <1>6

\* The same for onboarding,
LEMMA OnboardStep ==
    ASSUME IInv, NEW h \in Handler, NEW t \in Item, Onboard(h, t)
    PROVE  IInv'
<1> USE DEF IInv, TypeOK, items, locals, history, Onboard, Start, Goto, KnownOf
<1>1. TypeOK'
    BY DEF PC, Kind, Route, HandlersOK, OnBehalfOf
<1>2. FreshItems'
    BY DEF FreshItems, HandlersOK
<1>3. HandlersOK'
    BY DEF HandlersOK, OnBehalfOf, KnownIsLinked, OwnerFollowsToken, FreshItems
<1>4. OwnerFollowsToken'
    BY DEF OwnerFollowsToken, HandlersOK, FreshItems
<1>5. KnownIsLinked'
    BY DEF KnownIsLinked, HandlersOK, FreshItems
<1>6. RevokedByOwner'
    BY DEF RevokedByOwner, HandlersOK, FreshItems
<1>7. QED
    BY <1>1, <1>2, <1>3, <1>4, <1>5, <1>6

\* and for the challenge it leads to.
LEMMA OnboardVerifyStep ==
    ASSUME IInv, NEW h \in Handler, NEW c \in Item, OnboardVerify(h, c)
    PROVE  IInv'
<1> USE DEF IInv, TypeOK, items, locals, history, OnboardVerify, Start, Goto, KnownOf
<1>1. TypeOK'
    BY DEF PC, Kind, Route, HandlersOK, OnBehalfOf
<1>2. FreshItems'
    BY DEF FreshItems, HandlersOK
<1>3. HandlersOK'
    BY DEF HandlersOK, OnBehalfOf, KnownIsLinked, OwnerFollowsToken, FreshItems
<1>4. OwnerFollowsToken'
    BY DEF OwnerFollowsToken, HandlersOK, FreshItems
<1>5. KnownIsLinked'
    BY DEF KnownIsLinked, HandlersOK, FreshItems
<1>6. RevokedByOwner'
    BY DEF RevokedByOwner, HandlersOK, FreshItems
<1>7. QED
    BY <1>1, <1>2, <1>3, <1>4, <1>5, <1>6

\* A renewal is the operator's.
LEMMA RenewStep ==
    ASSUME IInv, NEW h \in Handler, NEW v \in Item, Renew(h, v)
    PROVE  IInv'
<1> USE DEF IInv, TypeOK, items, locals, history, Renew, Start, Goto, KnownOf
<1>1. TypeOK'
    BY DEF PC, Kind, Route, HandlersOK, OnBehalfOf
<1>2. FreshItems'
    BY DEF FreshItems, HandlersOK
<1>3. HandlersOK'
    BY DEF HandlersOK, OnBehalfOf, KnownIsLinked, OwnerFollowsToken, FreshItems
<1>4. OwnerFollowsToken'
    BY DEF OwnerFollowsToken, HandlersOK, FreshItems
<1>5. KnownIsLinked'
    BY DEF KnownIsLinked, HandlersOK, FreshItems
<1>6. RevokedByOwner'
    BY DEF RevokedByOwner, HandlersOK, FreshItems
<1>7. QED
    BY <1>1, <1>2, <1>3, <1>4, <1>5, <1>6

\* An account passes the look-up only for a credential that is its own.
LEMMA RequestRevokeStep ==
    ASSUME IInv, NEW h \in Handler, NEW c \in Account \union {None}, NEW v \in Item, RequestRevoke(h, c, v)
    PROVE  IInv'
<1> USE DEF IInv, TypeOK, items, locals, history, RequestRevoke, MayRevoke, Start, Goto, KnownOf
<1>1. TypeOK'
    BY DEF PC, Kind, Route, HandlersOK, OnBehalfOf
<1>2. FreshItems'
    BY DEF FreshItems, HandlersOK
<1>3. HandlersOK'
    BY DEF HandlersOK, OnBehalfOf, KnownIsLinked, OwnerFollowsToken, FreshItems
<1>4. OwnerFollowsToken'
    BY DEF OwnerFollowsToken, HandlersOK, FreshItems
<1>5. KnownIsLinked'
    BY DEF KnownIsLinked, HandlersOK, FreshItems
<1>6. RevokedByOwner'
    BY DEF RevokedByOwner, HandlersOK, FreshItems
<1>7. QED
    BY <1>1, <1>2, <1>3, <1>4, <1>5, <1>6

\* The new item has no link, and its account is the one the handler will link it to.
LEMMA CoreCreatesStep ==
    ASSUME IInv, NEW h \in Handler, CoreCreates(h)
    PROVE  IInv'
<1> USE DEF IInv, TypeOK, items, locals, history, CoreCreates, Creates, AfterCore, Goto, KnownOf
<1>1. TypeOK'
    BY DEF PC, Kind, Route, HandlersOK, OnBehalfOf
<1>2. FreshItems'
    BY DEF FreshItems, HandlersOK
<1>3. HandlersOK'
    BY DEF HandlersOK, OnBehalfOf, KnownIsLinked, OwnerFollowsToken, FreshItems
<1>4. OwnerFollowsToken'
    BY DEF OwnerFollowsToken, HandlersOK, FreshItems
<1>5. KnownIsLinked'
    BY DEF KnownIsLinked, HandlersOK, FreshItems
<1>6. RevokedByOwner'
    BY DEF RevokedByOwner, HandlersOK, FreshItems
<1>7. QED
    BY <1>1, <1>2, <1>3, <1>4, <1>5, <1>6

\* The first link of an item names its account.
LEMMA LinkItemStep ==
    ASSUME IInv, NEW h \in Handler, LinkItem(h)
    PROVE  IInv'
<1> USE DEF IInv, TypeOK, items, locals, history, LinkItem, Goto, KnownOf
<1>1. TypeOK'
    BY DEF PC, Kind, Route, HandlersOK, OnBehalfOf
<1>2. FreshItems'
    BY DEF FreshItems, HandlersOK
<1>3. HandlersOK'
    BY DEF HandlersOK, OnBehalfOf, KnownIsLinked, OwnerFollowsToken, FreshItems
<1>4. OwnerFollowsToken'
    BY DEF OwnerFollowsToken, HandlersOK, FreshItems
<1>5. KnownIsLinked'
    BY DEF KnownIsLinked, HandlersOK, FreshItems
<1>6. RevokedByOwner'
    BY DEF RevokedByOwner, HandlersOK, FreshItems
<1>7. QED
    BY <1>1, <1>2, <1>3, <1>4, <1>5, <1>6

\* The key leaves the server with its link in place.
LEMMA RespondStep ==
    ASSUME IInv, NEW h \in Handler, Respond(h)
    PROVE  IInv'
<1> USE DEF IInv, TypeOK, items, locals, history, Respond, Finish, Goto, KnownOf
<1>0. output[h] \in Item /\ output[h] <= made
    BY DEF HandlersOK
<1>1. TypeOK'
    BY <1>0 DEF PC, Kind, Route
<1>2. FreshItems'
    BY <1>0 DEF FreshItems
<1>3. HandlersOK'
    BY DEF HandlersOK, OnBehalfOf, KnownIsLinked, OwnerFollowsToken, FreshItems
<1>4. OwnerFollowsToken'
    BY DEF OwnerFollowsToken, HandlersOK, FreshItems
<1>5. KnownIsLinked'
    BY DEF KnownIsLinked, HandlersOK, FreshItems
<1>6. RevokedByOwner'
    BY DEF RevokedByOwner, HandlersOK, FreshItems
<1>7. QED
    BY <1>1, <1>2, <1>3, <1>4, <1>5, <1>6

\* The credential still belongs to the account that was looked up.
LEMMA RevokeVCStep ==
    ASSUME IInv, NEW h \in Handler, RevokeVC(h)
    PROVE  IInv'
<1> USE DEF IInv, TypeOK, items, locals, history, RevokeVC, Finish, Goto, KnownOf
<1>1. TypeOK'
    BY DEF PC, Kind, Route, HandlersOK, OnBehalfOf
<1>2. FreshItems'
    BY DEF FreshItems, HandlersOK
<1>3. HandlersOK'
    BY DEF HandlersOK, OnBehalfOf, KnownIsLinked, OwnerFollowsToken, FreshItems
<1>4. OwnerFollowsToken'
    BY DEF OwnerFollowsToken, HandlersOK, FreshItems
<1>5. KnownIsLinked'
    BY DEF KnownIsLinked, HandlersOK, FreshItems
<1>6. RevokedByOwner'
    BY DEF RevokedByOwner, HandlersOK, FreshItems
<1>7. QED
    BY <1>1, <1>2, <1>3, <1>4, <1>5, <1>6

\* A handler that stops leaves only what it wrote.
LEMMA AbortStep ==
    ASSUME IInv, NEW h \in Handler, Abort(h)
    PROVE  IInv'
<1> USE DEF IInv, TypeOK, items, locals, history, Abort, Finish, Goto, KnownOf
<1>1. TypeOK'
    BY DEF PC, Kind, Route, HandlersOK, OnBehalfOf
<1>2. FreshItems'
    BY DEF FreshItems, HandlersOK
<1>3. HandlersOK'
    BY DEF HandlersOK, OnBehalfOf, KnownIsLinked, OwnerFollowsToken, FreshItems
<1>4. OwnerFollowsToken'
    BY DEF OwnerFollowsToken, HandlersOK, FreshItems
<1>5. KnownIsLinked'
    BY DEF KnownIsLinked, HandlersOK, FreshItems
<1>6. RevokedByOwner'
    BY DEF RevokedByOwner, HandlersOK, FreshItems
<1>7. QED
    BY <1>1, <1>2, <1>3, <1>4, <1>5, <1>6

\* IInv is inductive.
LEMMA NextIInv == IInv /\ [Next]_vars => IInv'
<1> SUFFICES ASSUME IInv, [Next]_vars
             PROVE  IInv'
    OBVIOUS
<1>1. CASE UNCHANGED vars
    BY <1>1 DEF IInv, TypeOK, FreshItems, HandlersOK, OnBehalfOf, OwnerFollowsToken,
                KnownIsLinked, RevokedByOwner, vars, items, locals, history
<1>2. CASE Next
    BY <1>2, GenerateStep, IssueStep, EnrollStep, OnboardStep,
       OnboardVerifyStep, RenewStep, RequestRevokeStep, CoreCreatesStep,
       LinkItemStep, RespondStep, RevokeVCStep, AbortStep
    DEF Next, HandlerStep
<1>3. QED
    BY <1>1, <1>2

\* The inductive invariant holds in every reachable state.
THEOREM OwnershipInvariant == Spec => []IInv
<1>1. QED
    BY InitIInv, NextIInv, PTL DEF Spec

\* Type correctness of the items, their links and the handlers' locals.
THEOREM OwnershipTypeCorrect == Spec => []TypeOK
<1>1. IInv => TypeOK
    BY DEF IInv
<1>2. QED
    BY <1>1, OwnershipInvariant, PTL

\* A link names only the account on whose behalf the item was created.
THEOREM OwnershipFollowsToken == Spec => []OwnerFollowsToken
<1>1. IInv => OwnerFollowsToken
    BY DEF IInv
<1>2. QED
    BY <1>1, OwnershipInvariant, PTL

\* A key leaves the server only after its link is written.
THEOREM OwnershipKnownIsLinked == Spec => []KnownIsLinked
<1>1. IInv => KnownIsLinked
    BY DEF IInv
<1>2. QED
    BY <1>1, OwnershipInvariant, PTL

\* Only the operator or the owning account ever revokes a credential.
THEOREM OwnershipRevokedByOwner == Spec => []RevokedByOwner
<1>1. IInv => RevokedByOwner
    BY DEF IInv
<1>2. QED
    BY <1>1, OwnershipInvariant, PTL

\* No step of any handler moves a link that was written.
THEOREM OwnershipLinksNeverMove == Spec => LinksNeverMove
<1>1. IInv /\ [Next]_vars => [\A i \in Item : links[i] # None => links'[i] = links[i]]_links
    BY DEF IInv, TypeOK, Next, HandlerStep, Generate, Issue, Enroll, Onboard, OnboardVerify, Renew,
           RequestRevoke, CoreCreates, LinkItem, Respond, RevokeVC, Abort, vars
<1>2. QED
    BY <1>1, OwnershipInvariant, PTL DEF Spec, LinksNeverMove

-----------------------------------------------------------------------------
(* The audit log.                                                           *)

\* Whose a record is: it is about one of m items, that was made on behalf of a.
About(p, a, m, behalf) == \E x \in {p.vcId, p.tokenIdHash} : x \in 1 .. m /\ behalf[x] = a

\* What a record says of an account is true when it is logged, be it awaited or
\* not; and if what was posted of a presentation is true, its summary is.
TrueOf(p, m, behalf) ==
    /\ p.accountId # None => About(p, p.accountId, m, behalf)
    /\ Truthful(p.post, p.verified) => ShownAsVerified(p)

RecordOK(p) == TrueOf(p, made, heir)

TrailOK ==
    /\ \E S : trail \in Seq(S)
    /\ \A i \in DOMAIN trail : RecordOK(trail[i])
    /\ \A e \in flying : RecordOK(e)

\* A list request keeps what is its account's and has yet to look up what it
\* did not keep.
ReaderOK(r) ==
    LET q == asking[r] IN
    /\ q.page \union q.got \subseteq DOMAIN trail
    /\ q.account \in Account \union {None}
    /\ q.pc = "answered" => q.page = {}
    /\ q.pc = "lookup" => q.account # None
    /\ q.account # None =>
        /\ q.due \subseteq q.page \union q.got
        /\ \A i \in q.due : IsOf(trail[i], q.account)
        /\ \A i \in q.got : About(trail[i], q.account, made, heir)

AuditInv ==
    /\ DOMAIN asking = Reader
    /\ \A r \in Reader : DOMAIN asking[r] = DOMAIN NoRequest
    /\ TrailOK
    /\ \A r \in Reader : ReaderOK(r)

\* A log that grows keeps what it holds.
LEMMA Grown ==
    ASSUME NEW e, \E S : trail \in Seq(S), trail' = Append(trail, e)
    PROVE  /\ \E S : trail' \in Seq(S)
           /\ DOMAIN trail \subseteq DOMAIN trail'
           /\ \A i \in DOMAIN trail : trail'[i] = trail[i]
           /\ \A i \in DOMAIN trail' : i \in DOMAIN trail \/ trail'[i] = e
<1>1. PICK S : trail \in Seq(S)
  OBVIOUS
<1>2. trail \in Seq(S \union {e}) /\ Len(trail) \in Nat /\ DOMAIN trail = 1 .. Len(trail)
  BY <1>1
<1>3. trail' \in Seq(S \union {e}) /\ DOMAIN trail' = 1 .. Len(trail) + 1
  BY <1>2
<1>4. trail'[Len(trail) + 1] = e /\ \A i \in 1 .. Len(trail) : trail'[i] = trail[i]
  BY <1>2
<1> QED
  BY <1>2, <1>3, <1>4

\* No step of a route takes back whose an item is, or moves a link.
LEMMA ItemsStay ==
    ASSUME IInv, [Next]_vars
    PROVE  /\ made \in Nat /\ made' \in Nat /\ made <= made'
           /\ \A x \in 1 .. made : heir'[x] = heir[x]
           /\ \A x \in Item : links[x] # None => links'[x] = links[x]
BY DEF IInv, TypeOK, Next, HandlerStep, Generate, Issue, Enroll, Onboard, OnboardVerify, Renew,
       RequestRevoke, CoreCreates, LinkItem, Respond, RevokeVC, Abort, vars, items, history

\* Every step of the composition is a step of the routes, or leaves them alone.
LEMMA AuditIsRoutes ==
    ASSUME AuditNext \/ UNCHANGED allVars
    PROVE  [Next]_vars
<1>1. ASSUME NEW h \in Handler, Unlogged(h)
      PROVE  Next
  BY <1>1 DEF Unlogged, Next, HandlerStep
<1>2. ASSUME NEW h \in Handler, Create(h) \/ LinkAndCharge(h) \/ RevokeLogged(h)
      PROVE  Next
  BY <1>2 DEF Create, LinkAndCharge, RevokeLogged, Next, HandlerStep
<1>3. ASSUME NEW e, Arrive(e)
      PROVE  UNCHANGED vars
  BY <1>3 DEF Arrive
<1>4. CASE Post
  <2>1. \A c, p : Logged(c, p) => UNCHANGED vars
    BY DEF Logged
  <2> QED
    BY <1>4, <2>1, Zenon DEF Post, VpVerification, ConsentGranted, Activity
<1>5. ASSUME NEW r \in Reader, NEW a, NEW event, NEW since, NEW l, List(r, a, event, since, l)
      PROVE  UNCHANGED vars
  BY <1>5 DEF List
<1>6. ASSUME NEW r \in Reader, NEW i, Lookup(r, i)
      PROVE  UNCHANGED vars
  BY <1>6 DEF Lookup
<1> QED
  BY <1>1, <1>2, <1>3, <1>4, <1>5, <1>6, Zenon DEF AuditNext, allVars

\* What holds of the log and of the requests under way stays true as long as
\* the log only grows, by records that are right.
LEMMA AboutStays ==
    ASSUME IInv, [Next]_vars
    PROVE  \A p, a : About(p, a, made, heir) => About(p, a, made', heir')
BY ItemsStay DEF About

LEMMA RecordStays ==
    ASSUME IInv, [Next]_vars
    PROVE  \A p : TrueOf(p, made, heir) => TrueOf(p, made', heir')
BY AboutStays DEF TrueOf

\* What a look-up finds for an account is about an item made on its behalf.
LEMMA OwnersRecord ==
    ASSUME IInv, NEW p, RecordOK(p), NEW a, a # None, IsOf(p, a)
    PROVE  About(p, a, made, heir)
<1>1. CASE p.accountId = a
  BY <1>1 DEF RecordOK, TrueOf
<1>2. ASSUME NEW x \in {p.vcId, p.tokenIdHash}, Linked(x, a)
      PROVE  About(p, a, made, heir)
  <2>1. x \in Item /\ links[x] = a
    BY <1>2 DEF Linked
  <2>2. heir[x] = a /\ x <= made /\ made \in Nat
    BY <2>1 DEF IInv, TypeOK, OwnerFollowsToken, FreshItems
  <2> QED
    BY <2>1, <2>2 DEF About
<1> QED
  BY <1>1, <1>2 DEF IsOf

\* What is due to an account is found: its link was written before its key
\* left the server.
LEMMA DueIsFound ==
    ASSUME IInv, NEW S, NEW a, NEW i \in Due(S, a)
    PROVE  i \in S /\ IsOf(trail[i], a)
<1>1. PICK x \in {trail[i].vcId, trail[i].tokenIdHash} : x \in known /\ heir[x] = a
  BY DEF Due
<1>2. x \in Item /\ links[x] = a
  BY <1>1 DEF IInv, TypeOK, KnownIsLinked
<1>3. Linked(x, a)
  BY <1>2, OwnershipAssumption DEF Linked, Absent
<1> QED
  BY <1>1, <1>3 DEF IsOf, Due

LEMMA LogStays ==
    ASSUME IInv, [Next]_vars, TrailOK,
           trail' = trail \/ \E e : TrueOf(e, made', heir') /\ trail' = Append(trail, e),
           \A e \in flying' : e \in flying \/ TrueOf(e, made', heir')
    PROVE  /\ TrailOK'
           /\ DOMAIN trail \subseteq DOMAIN trail'
           /\ \A i \in DOMAIN trail : trail'[i] = trail[i]
<1> USE DEF TrailOK, RecordOK
<1>1. \A e \in flying' : TrueOf(e, made', heir')
  BY RecordStays
<1>2. \A i \in DOMAIN trail : TrueOf(trail[i], made', heir')
  BY RecordStays
<1>3. CASE trail' = trail
  BY <1>1, <1>2, <1>3
<1>4. CASE trail' # trail
  <2>1. PICK e : TrueOf(e, made', heir') /\ trail' = Append(trail, e)
    BY <1>4
  <2>2. /\ \E S : trail' \in Seq(S)
        /\ DOMAIN trail \subseteq DOMAIN trail'
        /\ \A i \in DOMAIN trail : trail'[i] = trail[i]
        /\ \A i \in DOMAIN trail' : i \in DOMAIN trail \/ trail'[i] = e
    BY <2>1, Grown
  <2>3. \A i \in DOMAIN trail' : TrueOf(trail'[i], made', heir')
    BY <1>2, <2>1, <2>2
  <2> QED
    BY <1>1, <2>2, <2>3
<1> QED
  BY <1>3, <1>4

\* A list request that does not move keeps what it has.
LEMMA ReaderStays ==
    ASSUME IInv, [Next]_vars, NEW r \in Reader, ReaderOK(r), asking'[r] = asking[r],
           DOMAIN trail \subseteq DOMAIN trail',
           \A i \in DOMAIN trail : trail'[i] = trail[i]
    PROVE  ReaderOK(r)'
<1> DEFINE q == asking[r]
<1>1. q.page \union q.got \subseteq DOMAIN trail'
  BY DEF ReaderOK
<1>2. \A x : q.account # None /\ Linked(x, q.account) => x # Absent /\ x \in Item /\ links'[x] = q.account
  BY ItemsStay DEF Linked
<1>3. ASSUME q.account # None
      PROVE  /\ q.due \subseteq q.page \union q.got
             /\ \A i \in q.due : i \in DOMAIN trail /\ IsOf(trail[i], q.account)
             /\ \A i \in q.got : i \in DOMAIN trail /\ About(trail[i], q.account, made', heir')
  BY <1>3, AboutStays DEF ReaderOK
<1>4. ASSUME q.account # None, NEW i \in q.due
      PROVE  IsOf(trail[i], asking[r].account)'
  BY <1>2, <1>3, <1>4 DEF IsOf, Linked
<1>5. ASSUME q.account # None, NEW i \in q.got
      PROVE  About(trail[i], asking[r].account, made, heir)'
  BY <1>3, <1>5
<1> QED
  BY <1>1, <1>3, <1>4, <1>5 DEF ReaderOK

\* The records.

\* A record of which no account is told, and that nobody posted of a presentation.
Plain(p) ==
    /\ p.accountId = None /\ p.post = NoBody /\ p.verified = <<>>
    /\ p.delegatedFrom = Absent /\ p.parentVcId = Absent /\ p.delegationDepth = NoDepth
    /\ p.delegationChain = <<>>

\* It shows no delegation,
LEMMA PlainRecord ==
    ASSUME NEW p, p.post = NoBody, p.verified = <<>>,
           p.delegatedFrom = Absent, p.parentVcId = Absent, p.delegationDepth = NoDepth,
           p.delegationChain = <<>>
    PROVE  ShownAsVerified(p)
<1>1. Len(<<>>) = 0
  OBVIOUS
<1>2. LeafParent(<<>>) = NoEntry
  BY <1>1 DEF LeafParent
<1>3. getDelegatedFrom(p) = Absent /\ getDelegationParentVcId(p) = Absent
  BY <1>1, <1>2 DEF getDelegatedFrom, getDelegationParentVcId, NoEntry
<1>4. getDelegationDepth(p) = NoDepth
  BY <1>1 DEF getDelegationDepth, NoDepth
<1>5. /\ p.post.delegationChain = <<>> /\ p.post.delegatedFrom = Absent
      /\ p.post.parentVcId = Absent /\ p.post.delegationDepth = NoDepth
  BY DEF NoBody
<1> QED
  BY <1>3, <1>4, <1>5 DEF ShownAsVerified, Summary

LEMMA PlainTrue ==
    ASSUME NEW p, NEW m, NEW behalf, Plain(p)
    PROVE  TrueOf(p, m, behalf)
BY PlainRecord DEF Plain, TrueOf

\* and one that was posted truthfully shows the chain that was verified.
LEMMA VerdictRecord ==
    ASSUME NEW body, NEW chain, Len(chain) \in Nat, chain = <<>> => Len(chain) = 0,
           Truthful(body, chain)
    PROVE  ShownAsVerified([Verdict(body) EXCEPT !.post = body, !.verified = chain])
<1> DEFINE p == [Verdict(body) EXCEPT !.post = body, !.verified = chain]
<1>1. /\ p.post = body /\ p.verified = chain /\ p.subjectDid = body.subjectDid
      /\ p.delegationChain = body.delegationChain /\ p.delegatedFrom = body.delegatedFrom
      /\ p.delegatedTo = body.delegatedTo /\ p.parentVcId = body.parentVcId
      /\ p.delegationDepth = body.delegationDepth
  BY DEF Verdict, NoPayload
<1> HIDE DEF p
<1>2. Len(<<>>) = 0 /\ LeafParent(<<>>) = NoEntry
  BY DEF LeafParent
<1>3. ASSUME body.delegationChain # <<>> PROVE ShownAsVerified(p)
  <2>1. body.delegationChain = chain
    BY <1>3 DEF Truthful
  <2>2. getDelegatedFrom(p) = LeafParent(chain).subjectDid
        /\ getDelegationParentVcId(p) = LeafParent(chain).vcId
    BY <1>1, <2>1 DEF Truthful, getDelegatedFrom, getDelegationParentVcId
  <2>3. getDelegationDepth(p) = Len(chain) - 1
    BY <1>1, <2>1 DEF Truthful, getDelegationDepth, NoDepth
  <2>4. chain # <<>> => getDelegatedTo(p) = Leaf(chain).subjectDid
    BY <1>1 DEF Truthful, getDelegatedTo
  <2> QED
    BY <1>1, <1>3, <2>2, <2>3, <2>4 DEF ShownAsVerified, Summary
<1>4. ASSUME body.delegationChain = <<>> PROVE ShownAsVerified(p)
  <2>1. getDelegatedFrom(p) = IF body.delegatedFrom # Absent THEN LeafParent(chain).subjectDid ELSE Absent
    BY <1>1, <1>2, <1>4 DEF Truthful, getDelegatedFrom, NoEntry
  <2>2. getDelegationParentVcId(p) = IF body.parentVcId # Absent THEN LeafParent(chain).vcId ELSE Absent
    BY <1>1, <1>2, <1>4 DEF Truthful, getDelegationParentVcId, NoEntry
  <2>3. getDelegationDepth(p) = IF body.delegationDepth # NoDepth THEN Len(chain) - 1 ELSE NoDepth
    BY <1>1, <1>2, <1>4 DEF Truthful, getDelegationDepth, NoDepth
  <2>4. chain # <<>> => getDelegatedTo(p) = Leaf(chain).subjectDid
    BY <1>1 DEF Truthful, getDelegatedTo
  <2> QED
    BY <1>1, <1>4, <2>1, <2>2, <2>3, <2>4 DEF ShownAsVerified, Summary
<1> QED
  BY <1>3, <1>4 DEF p

LEMMA ChainLength ==
    ASSUME NEW chain \in Chain \union {<<>>}
    PROVE  Len(chain) \in Nat /\ (chain = <<>> => Len(chain) = 0)
<1>1. CASE chain = <<>>
  BY <1>1
<1>2. CASE chain \in Chain
  <2>1. PICK n \in Depth : chain = [i \in 1 .. n |-> Entry(i)]
    BY <1>2 DEF Chain
  <2>2. n \in Nat
    BY <2>1, AuditAssumption
  <2>3. chain \in Seq({Entry(i) : i \in 1 .. n})
    BY <2>1, <2>2
  <2> QED
    BY <2>3
<1> QED
  BY <1>1, <1>2

\* What is posted claims no account, and no delegation but one that it says was
\* verified.
LEMMA PostIsTrue ==
    ASSUME Post
    PROVE  /\ UNCHANGED <<vars, flying, asking>>
           /\ \E e : trail' = Append(trail, e) /\ \A m, behalf : TrueOf(e, m, behalf)
<1>1. ASSUME NEW c, NEW body \in Body, NEW chain \in Chain \union {<<>>},
             VpVerification(c, body, chain)
      PROVE  \E p : Logged(c, p) /\ \A m, behalf : TrueOf(p, m, behalf)
  <2> DEFINE p == [Verdict(body) EXCEPT !.post = body, !.verified = chain]
  <2>1. Logged(c, p)
    BY <1>1 DEF VpVerification
  <2>2. Truthful(body, chain) => ShownAsVerified(p)
    BY ChainLength, VerdictRecord
  <2>3. p.accountId = None /\ p.post = body /\ p.verified = chain
    BY DEF Verdict, NoPayload
  <2> HIDE DEF p
  <2>4. \A m, behalf : TrueOf(p, m, behalf)
    BY <2>2, <2>3 DEF TrueOf
  <2> QED
    BY <2>1, <2>4
<1>2. ASSUME NEW c, NEW vcId, ConsentGranted(c, vcId)
      PROVE  \E p : Logged(c, p) /\ \A m, behalf : TrueOf(p, m, behalf)
  <2> DEFINE p == [NoPayload EXCEPT !.event = "CONSENT_GRANTED", !.vcId = vcId, !.subjectDid = 1]
  <2>1. Logged(c, p)
    BY <1>2 DEF ConsentGranted
  <2>2. Plain(p)
    BY DEF Plain, NoPayload
  <2> HIDE DEF p
  <2> QED
    BY <2>1, <2>2, PlainTrue
<1>3. ASSUME NEW c, NEW body, Activity(c, body)
      PROVE  \E p : Logged(c, p) /\ \A m, behalf : TrueOf(p, m, behalf)
  <2> DEFINE p == [NoPayload EXCEPT !.event = body.event, !.vcId = body.vcId, !.subjectDid = 1]
  <2>1. Logged(c, p)
    BY <1>3 DEF Activity, Envelope
  <2>2. Plain(p)
    BY DEF Plain, NoPayload
  <2> HIDE DEF p
  <2> QED
    BY <2>1, <2>2, PlainTrue
<1>4. \E c, p : Logged(c, p) /\ \A m, behalf : TrueOf(p, m, behalf)
  BY <1>1, <1>2, <1>3 DEF Post
<1> QED
  BY <1>4 DEF Logged

\* The steps.

LEMMA InitAudit == AuditInit => Init /\ AuditInv
<1> SUFFICES ASSUME AuditInit
             PROVE  AuditInv
  BY DEF AuditInit
<1> USE DEF AuditInit
<1>1. \E S : trail \in Seq(S)
  <2>1. <<>> \in Seq({})
    OBVIOUS
  <2> QED
    BY <2>1
<1>2. DOMAIN trail = {}
  OBVIOUS
<1>3. TrailOK
  BY <1>1, <1>2 DEF TrailOK
<1>4. ASSUME NEW r \in Reader
      PROVE  ReaderOK(r)
  <2>1. asking[r] = NoRequest
    OBVIOUS
  <2> QED
    BY <2>1 DEF ReaderOK, NoRequest
<1> QED
  BY <1>3, <1>4 DEF AuditInv

\* A step that only adds to the log, or to what flies towards it.
LEMMA OnlyLogged ==
    ASSUME IInv, [Next]_vars, AuditInv, UNCHANGED asking,
           trail' = trail \/ \E e : TrueOf(e, made', heir') /\ trail' = Append(trail, e),
           \A e \in flying' : e \in flying \/ TrueOf(e, made', heir')
    PROVE  AuditInv'
<1>1. /\ TrailOK'
      /\ DOMAIN trail \subseteq DOMAIN trail'
      /\ \A i \in DOMAIN trail : trail'[i] = trail[i]
  BY LogStays DEF AuditInv
<1>2. ASSUME NEW r \in Reader
      PROVE  ReaderOK(r)'
  BY <1>1, ReaderStays DEF AuditInv
<1> QED
  BY <1>1, <1>2 DEF AuditInv

\* What the core logs names no account,
LEMMA CreateStep ==
    ASSUME IInv, [Next]_vars, AuditInv, NEW h \in Handler, Create(h)
    PROVE  AuditInv'
<1> DEFINE e == CoreEvent(made', Creates(route[h]))
<1>1. Plain(e)
  BY DEF Plain, CoreEvent, NoPayload
<1>2. trail' = trail \/ trail' = Append(trail, e)
  BY DEF Create
<1> HIDE DEF e
<1>3. TrueOf(e, made', heir')
  BY <1>1, PlainTrue
<1>4. flying' = flying /\ asking' = asking
  BY DEF Create
<1> QED
  BY <1>2, <1>3, <1>4, OnlyLogged

LEMMA RevokeLoggedStep ==
    ASSUME IInv, [Next]_vars, AuditInv, NEW h \in Handler, RevokeLogged(h)
    PROVE  AuditInv'
<1> DEFINE e == [NoPayload EXCEPT !.event = "VC_REVOKED", !.vcId = input[h]]
<1>1. Plain(e)
  BY DEF Plain, NoPayload
<1>2. trail' = Append(trail, e) /\ flying' = flying /\ asking' = asking
  BY DEF RevokeLogged
<1> HIDE DEF e
<1>3. TrueOf(e, made', heir')
  BY <1>1, PlainTrue
<1> QED
  BY <1>2, <1>3, OnlyLogged

\* and what the quota of an account logs is about the item that was made on
\* its behalf.
LEMMA LinkAndChargeStep ==
    ASSUME IInv, [Next]_vars, AuditInv, NEW h \in Handler, LinkAndCharge(h)
    PROVE  AuditInv'
<1> DEFINE e == QuotaEvent(h)
<1>1. /\ pc[h] = "link" /\ made' = made /\ heir' = heir
      /\ trail' = trail /\ asking' = asking
      /\ \A f \in flying' : f \in flying \/ f = e
  BY DEF LinkAndCharge, LinkItem, items, history
<1>2. output[h] \in 1 .. made /\ heir[output[h]] = acct[h]
  BY <1>1 DEF IInv, HandlersOK
<1>3. /\ e.accountId = acct[h]
      /\ output[h] \in {e.vcId, e.tokenIdHash}
      /\ e.post = NoBody /\ e.verified = <<>>
      /\ e.delegatedFrom = Absent /\ e.parentVcId = Absent
      /\ e.delegationDepth = NoDepth /\ e.delegationChain = <<>>
  BY DEF QuotaEvent, NoPayload
<1> HIDE DEF e
<1>4. TrueOf(e, made, heir)
  BY <1>2, <1>3, PlainRecord DEF TrueOf, About
<1> QED
  BY <1>1, <1>4, OnlyLogged

LEMMA ArriveStep ==
    ASSUME IInv, [Next]_vars, AuditInv, NEW e, Arrive(e)
    PROVE  AuditInv'
<1>1. e \in flying /\ trail' \in {trail, Append(trail, e)} /\ asking' = asking
  BY DEF Arrive
<1>2. \A f \in flying' : f \in flying
  BY DEF Arrive
<1>3. TrueOf(e, made', heir')
  BY <1>1, RecordStays DEF AuditInv, TrailOK, RecordOK
<1> QED
  BY <1>1, <1>2, <1>3, OnlyLogged

LEMMA PostStep ==
    ASSUME IInv, [Next]_vars, AuditInv, Post
    PROVE  AuditInv'
BY PostIsTrue, OnlyLogged

\* A request that moves, while nothing else does.
LEMMA OnlyAsked ==
    ASSUME IInv, [Next]_vars, AuditInv, UNCHANGED <<vars, trail, flying>>,
           NEW r \in Reader, NEW q, asking' = [asking EXCEPT ![r] = q],
           DOMAIN q = DOMAIN NoRequest, ReaderOK(r)'
    PROVE  AuditInv'
<1>1. TrailOK'
  BY DEF AuditInv, TrailOK, RecordOK, vars, items, history
<1>2. DOMAIN asking' = Reader /\ asking'[r] = q
      /\ \A s \in Reader : s # r => asking'[s] = asking[s]
  BY DEF AuditInv
<1>3. \A s \in Reader : DOMAIN asking'[s] = DOMAIN NoRequest
  BY <1>2 DEF AuditInv
<1>4. ASSUME NEW s \in Reader, s # r
      PROVE  ReaderOK(s)'
  BY <1>2, <1>4, ReaderStays DEF AuditInv
<1>5. (DOMAIN asking = Reader)' /\ (\A s \in Reader : DOMAIN asking[s] = DOMAIN NoRequest)'
  BY <1>2, <1>3
<1>6. (\A s \in Reader : ReaderOK(s))'
  BY <1>4
<1> QED
  BY <1>1, <1>5, <1>6 DEF AuditInv

\* A page is of records of the log; what of it is due will be found.
LEMMA ListStep ==
    ASSUME IInv, [Next]_vars, AuditInv, NEW r \in Reader, NEW a \in Account \union {None},
           NEW event, NEW since, NEW l, List(r, a, event, since, l)
    PROVE  AuditInv'
<1>1. PICK n \in normalizeLimit(l) :
        LET page == Page(event, since, n) IN
        asking' = [asking EXCEPT ![r] =
            IF a = None \/ page = {}
            THEN [pc |-> "answered", account |-> a, page |-> {}, got |-> page, due |-> {}]
            ELSE [pc |-> "lookup", account |-> a, page |-> page, got |-> {}, due |-> Due(page, a)]]
  BY DEF List
<1> DEFINE page == Page(event, since, n)
           answer == [pc |-> "answered", account |-> a, page |-> {}, got |-> page, due |-> {}]
           lookup == [pc |-> "lookup", account |-> a, page |-> page, got |-> {}, due |-> Due(page, a)]
<1>2. UNCHANGED <<vars, trail, flying>>
  BY DEF List
<1>3. page \subseteq DOMAIN trail
  BY DEF Page
<1>4. \A i \in Due(page, a) : i \in page /\ IsOf(trail[i], a)
  BY DueIsFound
<1>5. \A i \in Due(page, a) : IsOf(trail[i], a)'
  BY <1>2, <1>4 DEF IsOf, Linked, vars
<1> HIDE DEF page
<1>6. CASE a = None \/ page = {}
  <2>1. asking' = [asking EXCEPT ![r] = answer]
    BY <1>1, <1>6 DEF page
  <2>2. asking'[r] = answer
    BY <2>1 DEF AuditInv
  <2>3. /\ asking'[r].page = {} /\ asking'[r].got = page /\ asking'[r].due = {}
        /\ asking'[r].pc = "answered" /\ asking'[r].account = a
    BY <2>2
  <2>4. ReaderOK(r)'
    BY <1>2, <1>3, <1>6, <2>3 DEF ReaderOK
  <2>5. DOMAIN answer = DOMAIN NoRequest
    BY DEF NoRequest
  <2> QED
    BY <1>2, <2>1, <2>4, <2>5, OnlyAsked
<1>7. CASE ~(a = None \/ page = {})
  <2>1. asking' = [asking EXCEPT ![r] = lookup]
    BY <1>1, <1>7 DEF page
  <2>2. asking'[r] = lookup
    BY <2>1 DEF AuditInv
  <2>3. /\ asking'[r].page = page /\ asking'[r].got = {} /\ asking'[r].due = Due(page, a)
        /\ asking'[r].pc = "lookup" /\ asking'[r].account = a
    BY <2>2
  <2>4. ReaderOK(r)'
    BY <1>2, <1>3, <1>4, <1>5, <1>7, <2>3 DEF ReaderOK
  <2>5. DOMAIN lookup = DOMAIN NoRequest
    BY DEF NoRequest
  <2> QED
    BY <1>2, <2>1, <2>4, <2>5, OnlyAsked
<1> QED
  BY <1>6, <1>7

\* A record that is kept is the account's, and one that is due is kept.
LEMMA LookupStep ==
    ASSUME IInv, [Next]_vars, AuditInv, NEW r \in Reader, NEW i, Lookup(r, i)
    PROVE  AuditInv'
<1> DEFINE p == asking[r]
           q == [p EXCEPT !.page = @ \ {i},
                          !.got = IF IsOf(trail[i], p.account) THEN @ \union {i} ELSE @,
                          !.pc = IF p.page = {i} THEN "answered" ELSE @]
<1>1. UNCHANGED <<vars, trail, flying>> /\ p.pc = "lookup" /\ i \in p.page
  BY DEF Lookup
<1>2. DOMAIN p = DOMAIN NoRequest /\ DOMAIN asking = Reader /\ ReaderOK(r)
  BY DEF AuditInv
<1>3. asking' = [asking EXCEPT ![r] = q]
  BY <1>2 DEF Lookup
<1>4. DOMAIN p = {"pc", "account", "page", "got", "due"}
  BY <1>2 DEF NoRequest
<1>5. /\ asking'[r].page = p.page \ {i}
      /\ asking'[r].got = IF IsOf(trail[i], p.account) THEN p.got \union {i} ELSE p.got
      /\ asking'[r].due = p.due /\ asking'[r].account = p.account
      /\ asking'[r].pc = IF p.page = {i} THEN "answered" ELSE p.pc
  BY <1>2, <1>3, <1>4
<1>6. IsOf(trail[i], p.account) => About(trail[i], p.account, made, heir)
  BY <1>1, <1>2, OwnersRecord DEF AuditInv, TrailOK, ReaderOK
<1>7. made' = made /\ heir' = heir /\ trail' = trail /\ links' = links
  BY <1>1 DEF vars, items, history
<1> HIDE DEF p
<1>8. /\ p.page \union p.got \subseteq DOMAIN trail
      /\ p.account \in Account \union {None} /\ p.account # None
      /\ p.due \subseteq p.page \union p.got
      /\ \A j \in p.due : IsOf(trail[j], p.account)
      /\ \A j \in p.got : About(trail[j], p.account, made, heir)
  BY <1>1, <1>2 DEF ReaderOK, p
<1>9. asking'[r].page \union asking'[r].got \subseteq DOMAIN trail'
  BY <1>1, <1>5, <1>7, <1>8
<1>10. asking'[r].pc = "answered" => asking'[r].page = {}
  BY <1>1, <1>5
<1>11. asking'[r].due \subseteq asking'[r].page \union asking'[r].got
  BY <1>5, <1>8
<1>12. \A j \in asking'[r].due : IsOf(trail[j], asking[r].account)'
  BY <1>5, <1>7, <1>8 DEF IsOf, Linked
<1>13. \A j \in asking'[r].got : About(trail'[j], asking'[r].account, made', heir')
  BY <1>5, <1>6, <1>7, <1>8
<1>14. ReaderOK(r)'
  BY <1>5, <1>8, <1>9, <1>10, <1>11, <1>12, <1>13 DEF ReaderOK
<1>15. DOMAIN q = DOMAIN NoRequest
  BY <1>2 DEF p
<1> QED
  BY <1>1, <1>3, <1>14, <1>15, OnlyAsked

\* AuditInv is inductive, relative to the invariant of the routes.
LEMMA NextAuditInv == IInv /\ AuditInv /\ [AuditNext]_allVars => AuditInv'
<1> SUFFICES ASSUME IInv, AuditInv, [AuditNext]_allVars
             PROVE  AuditInv'
  OBVIOUS
<1>1. [Next]_vars
  BY AuditIsRoutes
<1>2. CASE UNCHANGED allVars
  <2>1. UNCHANGED asking /\ trail' = trail /\ flying' = flying
    BY <1>2 DEF allVars, auditVars
  <2> QED
    BY <1>1, <2>1, OnlyLogged
<1>3. ASSUME NEW h \in Handler, Unlogged(h)
      PROVE  AuditInv'
  <2>1. UNCHANGED asking /\ trail' = trail /\ flying' = flying
    BY <1>3 DEF Unlogged, auditVars
  <2> QED
    BY <1>1, <2>1, OnlyLogged
<1>4. CASE AuditNext
  BY <1>1, <1>3, <1>4, CreateStep, LinkAndChargeStep, RevokeLoggedStep, ArriveStep, PostStep,
     ListStep, LookupStep, Zenon
  DEF AuditNext
<1> QED
  BY <1>2, <1>4

\* What is logged, posted and asked leaves the routes as they are: the log
\* composed with them implements them.
THEOREM AuditLogImplementsRoutes == AuditSpec => Spec
<1>1. AuditInit => Init
  BY InitAudit
<1>2. [AuditNext]_allVars => [Next]_vars
  BY AuditIsRoutes
<1> QED
  BY <1>1, <1>2, PTL DEF AuditSpec, Spec

\* What a record says of an account is true, what it shows of a delegation is what
\* was verified if the verifier posted the truth of it, and what a request keeps is
\* its account's.
THEOREM AuditLogInvariant == AuditSpec => [](IInv /\ AuditInv)
<1>1. AuditSpec => []IInv
  BY AuditLogImplementsRoutes, OwnershipInvariant, PTL
<1>2. AuditInit => AuditInv
  BY InitAudit
<1> QED
  BY <1>1, <1>2, NextAuditInv, PTL DEF AuditSpec

\* An account is answered the records about items made on its behalf, no
\* other, and all that it could know of, although the links are written after
\* the log and looked up one by one.
THEOREM AuditLogOwnTrail == AuditSpec => []OwnTrail
<1>1. IInv /\ AuditInv => OwnTrail
  <2> SUFFICES ASSUME IInv, AuditInv, NEW r \in Reader,
                      asking[r].pc = "answered", asking[r].account # None
               PROVE  /\ asking[r].due \subseteq asking[r].got
                      /\ \A i \in asking[r].got :
                           \E x \in {trail[i].vcId, trail[i].tokenIdHash} :
                               x \in Item /\ heir[x] = asking[r].account
    BY DEF OwnTrail
  <2>1. ReaderOK(r)
    BY DEF AuditInv
  <2>2. 1 .. made \subseteq Item
    BY DEF IInv, TypeOK
  <2>3. \A i \in asking[r].got : About(trail[i], asking[r].account, made, heir)
    BY <2>1 DEF ReaderOK
  <2>4. asking[r].due \subseteq asking[r].got
    BY <2>1 DEF ReaderOK
  <2> QED
    BY <2>2, <2>3, <2>4 DEF About
<1> QED
  BY <1>1, AuditLogInvariant, PTL

\* Of what a verifier posted truthfully, in whichever form, an answer shows the
\* delegation that was verified, and none for a presentation that was rejected.
THEOREM AuditLogDelegationShown == AuditSpec => []DelegationShown
<1>1. AuditInv => DelegationShown
  BY DEF AuditInv, TrailOK, ReaderOK, RecordOK, TrueOf, DelegationShown
<1> QED
  BY <1>1, AuditLogInvariant, PTL

=============================================================================
