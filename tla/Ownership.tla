----------------------------- MODULE Ownership -----------------------------
(***************************************************************************)
(* Who owns what: the link tables of hosted accounts                        *)
(* (repositories/account-links.repository.ts) and the routes that fill and  *)
(* read them: routes/agent/index.ts (enrollment tokens, enroll, onboard)    *)
(* and routes/vc/index.ts (issue, revoke, renew).                           *)
(*                                                                          *)
(* The core package stores tokens, challenges and credentials without an    *)
(* account; a route reads the link of what it is given before it calls the  *)
(* core and writes the link of what it obtained after it.  The three tables *)
(* are one class with three keys: here every item, of any kind, has one     *)
(* number and one link.  Items are numbered as the core creates them.       *)
(* The core is free to accept or refuse any call: nothing here relies on    *)
(* the single use of tokens and challenges, which it enforces.              *)
(***************************************************************************)
EXTENDS Naturals

CONSTANTS
    Account,   \* verified accounts
    Handler,   \* request handlers that can be in flight at once
    MaxItems,  \* bound: items ever created
    None       \* no account: the operator, or an unauthenticated caller

ASSUME OwnershipAssumption ==
    /\ MaxItems \in Nat
    /\ None \notin Account

Item == 1 .. MaxItems

NoItem == 0

VARIABLES
    made,     \* items created so far: 1 .. made
    kind,     \* token, challenge or credential
    links,    \* account of each row of the three link tables
    known,    \* items whose key reached a client
    heir,     \* history: the account each item was created on behalf of
    revokers, \* history: who revoked each credential in the core
    pc,       \* the await each handler is at
    route,    \* local: the route it serves
    caller,   \* local: accountId as authenticated, None for the operator
    input,    \* local: the item the request presents
    acct,     \* local: the account to link the result to
    output    \* local: the item obtained from the core

items == <<made, kind>>
locals == <<pc, route, caller, input, acct, output>>
history == <<heir, revokers>>
vars == <<items, links, known, history, locals>>

Kind == {"none", "token", "challenge", "vc"}

Route == {"none", "generate", "issue", "enroll", "onboard", "verify", "renew", "revoke"}

PC == {"idle", "core", "link", "respond", "revoke"}

TypeOK ==
    /\ made \in 0 .. MaxItems
    /\ kind \in [Item -> Kind]
    /\ links \in [Item -> Account \union {None}]
    /\ known \subseteq Item
    /\ heir \in [Item -> Account \union {None}]
    /\ revokers \in [Item -> SUBSET (Account \union {None})]
    /\ pc \in [Handler -> PC]
    /\ route \in [Handler -> Route]
    /\ caller \in [Handler -> Account \union {None}]
    /\ input \in [Handler -> Item \union {NoItem}]
    /\ acct \in [Handler -> Account \union {None}]
    /\ output \in [Handler -> Item \union {NoItem}]

Init ==
    /\ made = 0
    /\ kind = [i \in Item |-> "none"]
    /\ links = [i \in Item |-> None]
    /\ known = {}
    /\ heir = [i \in Item |-> None]
    /\ revokers = [i \in Item |-> {}]
    /\ pc = [h \in Handler |-> "idle"]
    /\ route = [h \in Handler |-> "none"]
    /\ caller = [h \in Handler |-> None]
    /\ input = [h \in Handler |-> NoItem]
    /\ acct = [h \in Handler |-> None]
    /\ output = [h \in Handler |-> NoItem]

-----------------------------------------------------------------------------
(* Handler control.                                                         *)

Goto(h, label) == pc' = [pc EXCEPT ![h] = label]

\* The request r of account c presents item i; its result goes to account a.
Start(h, label, r, c, i, a) ==
    /\ pc[h] = "idle"
    /\ Goto(h, label)
    /\ route' = [route EXCEPT ![h] = r]
    /\ caller' = [caller EXCEPT ![h] = c]
    /\ input' = [input EXCEPT ![h] = i]
    /\ acct' = [acct EXCEPT ![h] = a]
    /\ UNCHANGED output

Finish(h) ==
    /\ Goto(h, "idle")
    /\ route' = [route EXCEPT ![h] = "none"]
    /\ caller' = [caller EXCEPT ![h] = None]
    /\ input' = [input EXCEPT ![h] = NoItem]
    /\ acct' = [acct EXCEPT ![h] = None]
    /\ output' = [output EXCEPT ![h] = NoItem]

KnownOf(k) == {i \in known : kind[i] = k}

-----------------------------------------------------------------------------
(* Requests, up to the call of the core.                                    *)

\* POST /enrollment-tokens: the operator, an account, or nobody.
Generate(h, c) ==
    /\ Start(h, "core", "generate", c, NoItem, c)
    /\ UNCHANGED <<items, links, known, history>>

\* POST /v1/vcs: the operator or an account.
Issue(h, c) ==
    /\ Start(h, "core", "issue", c, NoItem, c)
    /\ UNCHANGED <<items, links, known, history>>

\* getAccountId of the item presented, before the core is called.
Enroll(h, t) ==
    /\ t \in KnownOf("token")
    /\ Start(h, "core", "enroll", None, t, links[t])
    /\ UNCHANGED <<items, links, known, history>>

Onboard(h, t) ==
    /\ t \in KnownOf("token")
    /\ Start(h, "core", "onboard", None, t, links[t])
    /\ UNCHANGED <<items, links, known, history>>

OnboardVerify(h, c) ==
    /\ c \in KnownOf("challenge")
    /\ Start(h, "core", "verify", None, c, links[c])
    /\ UNCHANGED <<items, links, known, history>>

\* Operator only; the new credential is linked to nobody.
Renew(h, v) ==
    /\ v \in KnownOf("vc")
    /\ Start(h, "core", "renew", None, v, None)
    /\ UNCHANGED <<items, links, known, history>>

\* Mutant: an unlinked credential may be revoked by any account.
MayRevokeUnlinked(c, v) == links[v] \in {None, c} \/ c = None

\* The operator revokes anything, an account what is linked to it.
MayRevoke(c, v) == links[v] = c \/ c = None

RequestRevoke(h, c, v) ==
    /\ v \in KnownOf("vc")
    /\ MayRevoke(c, v)
    /\ Start(h, "revoke", "revoke", c, v, None)
    /\ UNCHANGED <<items, links, known, history>>

-----------------------------------------------------------------------------
(* The calls.                                                               *)

Creates(r) ==
    CASE r = "generate" -> "token"
      [] r = "onboard" -> "challenge"
      [] OTHER -> "vc"

\* What is created from an item is created on behalf of the item's account.
OnBehalfOf(h) ==
    IF route[h] \in {"enroll", "onboard", "verify"} THEN heir[input[h]] ELSE caller[h]

\* Mutant: the answer does not wait for the link.
AfterCoreAnswers(h) == "respond"

AfterCore(h) == IF acct[h] = None THEN "respond" ELSE "link"

CoreCreates(h) ==
    /\ pc[h] = "core"
    /\ made < MaxItems
    /\ LET i == made + 1 IN
        /\ made' = i
        /\ kind' = [kind EXCEPT ![i] = Creates(route[h])]
        /\ heir' = [heir EXCEPT ![i] = OnBehalfOf(h)]
        /\ output' = [output EXCEPT ![h] = i]
    /\ Goto(h, AfterCore(h))
    /\ UNCHANGED <<links, known, revokers, route, caller, input, acct>>

\* Mutant: ON CONFLICT DO UPDATE, with the key of the newest row.
LinkNewest(h) ==
    /\ pc[h] = "link"
    /\ links' = [links EXCEPT ![made] = acct[h]]
    /\ Goto(h, "respond")
    /\ UNCHANGED <<items, known, history, route, caller, input, acct, output>>

\* link: INSERT .. ON CONFLICT DO NOTHING, the first writer wins.
LinkItem(h) ==
    /\ pc[h] = "link"
    /\ links' = [links EXCEPT ![output[h]] = IF @ = None THEN acct[h] ELSE @]
    /\ Goto(h, "respond")
    /\ UNCHANGED <<items, known, history, route, caller, input, acct, output>>

Respond(h) ==
    /\ pc[h] = "respond"
    /\ known' = known \union {output[h]}
    /\ Finish(h)
    /\ UNCHANGED <<items, links, history>>

RevokeVC(h) ==
    /\ pc[h] = "revoke"
    /\ revokers' = [revokers EXCEPT ![input[h]] = @ \union {caller[h]}]
    /\ Finish(h)
    /\ UNCHANGED <<items, links, known, heir>>

\* The core refuses, a call rejects, the process dies or the answer is lost.
Abort(h) ==
    /\ pc[h] # "idle"
    /\ Finish(h)
    /\ UNCHANGED <<items, links, known, history>>

HandlerStep(h) == CoreCreates(h) \/ LinkItem(h) \/ Respond(h) \/ RevokeVC(h)

Next ==
    \E h \in Handler :
        \/ \E c \in Account \union {None} :
            \/ Generate(h, c) \/ Issue(h, c)
            \/ \E i \in Item : RequestRevoke(h, c, i)
        \/ \E i \in Item :
            Enroll(h, i) \/ Onboard(h, i) \/ OnboardVerify(h, i) \/ Renew(h, i)
        \/ HandlerStep(h)
        \/ Abort(h)

Spec == Init /\ [][Next]_vars

-----------------------------------------------------------------------------
(* Properties.                                                              *)

\* A link names only the account on whose behalf the item was created: for a
\* credential at the end of enrollment or onboarding, the account that
\* generated the enrollment token, through up to three requests and two
\* unauthenticated callers.
OwnerFollowsToken == \A i \in Item : links[i] # None => links[i] = heir[i]

\* What a client holds the account it was created for can use: the link is
\* written before the key leaves the server, so no enrollment with a known
\* token and no revocation by its owner ever misses it.
KnownIsLinked == \A i \in known : links[i] = heir[i]

\* A credential was revoked only by the operator or by the account it was
\* created for, although the owner is looked up one call before.
RevokedByOwner == \A i \in Item : revokers[i] \subseteq {None, heir[i]}

\* A link, once written, never moves to another account.
LinksNeverMove == [][\A i \in Item : links[i] # None => links'[i] = links[i]]_links

\* The strengthening that makes these inductive.
FreshItems == \A i \in Item : i > made => links[i] = None /\ heir[i] = None /\ i \notin known

HandlersOK ==
    \A h \in Handler :
        /\ pc[h] \in {"core", "link", "respond"} => acct[h] = OnBehalfOf(h)
        /\ pc[h] \in {"link", "respond"} =>
            output[h] \in 1 .. made /\ heir[output[h]] = acct[h]
        /\ pc[h] = "respond" => links[output[h]] = acct[h]
        /\ pc[h] = "link" => acct[h] # None
        /\ pc[h] = "revoke" => input[h] \in 1 .. made /\ caller[h] \in {None, heir[input[h]]}
        /\ route[h] \in {"enroll", "onboard", "verify"} => input[h] \in 1 .. made

IInv ==
    /\ TypeOK
    /\ FreshItems
    /\ HandlersOK
    /\ OwnerFollowsToken
    /\ KnownIsLinked
    /\ RevokedByOwner

=============================================================================
