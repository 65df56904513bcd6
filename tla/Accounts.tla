------------------------------ MODULE Accounts ------------------------------
(***************************************************************************)
(* Accounts of the hosted tier: the accounts, DID and issuer-key tables and *)
(* the handlers that fill them: register, Google sign-in with account       *)
(* linking, e-mail verification and resend                                  *)
(* (routes/auth/index.ts, routes/account-did/index.ts,                      *)
(* services/auth/auth.service.ts, provision-issuer-did.ts,                  *)
(* repositories/drivers/account.drivers.ts).                                *)
(*                                                                          *)
(* As in Sessions, a handler is a process with one action per awaited call; *)
(* a call may fail and the handler then ends where it is.  Accounts and     *)
(* verification tokens are numbered in the order they are created.          *)
(***************************************************************************)
EXTENDS AccountColumns, Naturals, FiniteSets

CONSTANTS
    Handler,      \* request handlers that can be in flight at once
    MaxAccounts,  \* bound: account rows ever inserted
    MaxMails      \* bound: verification tokens ever generated

ASSUME AccountsAssumption ==
    /\ MaxAccounts \in Nat
    /\ MaxMails \in Nat
    /\ None \notin Email \union GoogleId

Id == 1 .. MaxAccounts

VerificationToken == 1 .. MaxMails

NoId == 0

NoToken == 0

VARIABLES
    created,   \* account rows inserted so far: the rows are 1 .. created
    email,     \* accounts.email
    google,    \* accounts.googleId
    password,  \* accounts with passwordHash set
    hasDid,    \* accounts with issuerDid set
    verified,  \* accounts with emailVerifiedAt set
    vtoken,    \* accounts.emailVerificationTokenHash
    didDocs,   \* accounts whose DID document is in the DID table
    keys,      \* accounts whose issuer key is in issuer_key_records
    generated, \* verification tokens generated so far
    pc,        \* the await each handler is at
    kind,      \* local: which request the handler serves
    profile,   \* local: the e-mail, Google id and Google's email_verified
    acc,       \* local: the account row it works on
    raw,       \* local: the verification token it generated
    mailed,    \* verification mails that reached a mailbox: <<token, address>>
    vouched,   \* history: addresses whose owner was shown by mail or Google
    orphaned   \* history: accounts whose creating request failed

accounts == <<created, email, google, password, hasDid, verified, vtoken>>
locals == <<pc, kind, profile, acc, raw>>
history == <<vouched, orphaned>>
vars == <<accounts, didDocs, keys, generated, locals, mailed, history>>

PC == {"idle", "findEmail", "insert", "did", "key", "setDid", "link", "verify",
       "token", "mail", "session"}

Kind == {"none", "register", "login", "google", "verifyEmail", "resend"}

Profile == [email : Email \union {None}, google : GoogleId \union {None}, trusted : BOOLEAN]

NoProfile == [email |-> None, google |-> None, trusted |-> FALSE]

Rows == 1 .. created

TypeOK ==
    /\ created \in 0 .. MaxAccounts
    /\ email \in [Id -> Email \union {None}]
    /\ google \in [Id -> GoogleId \union {None}]
    /\ password \subseteq Id
    /\ hasDid \subseteq Id
    /\ verified \subseteq Id
    /\ vtoken \in [Id -> VerificationToken \union {NoToken}]
    /\ didDocs \subseteq Id
    /\ keys \subseteq Id
    /\ generated \in 0 .. MaxMails
    /\ pc \in [Handler -> PC]
    /\ kind \in [Handler -> Kind]
    /\ profile \in [Handler -> Profile]
    /\ acc \in [Handler -> Id \union {NoId}]
    /\ raw \in [Handler -> VerificationToken \union {NoToken}]
    /\ mailed \subseteq VerificationToken \X Email
    /\ vouched \subseteq Email
    /\ orphaned \subseteq Id

Init ==
    /\ created = 0
    /\ email = [i \in Id |-> None]
    /\ google = [i \in Id |-> None]
    /\ password = {}
    /\ hasDid = {}
    /\ verified = {}
    /\ vtoken = [i \in Id |-> NoToken]
    /\ didDocs = {}
    /\ keys = {}
    /\ generated = 0
    /\ pc = [h \in Handler |-> "idle"]
    /\ kind = [h \in Handler |-> "none"]
    /\ profile = [h \in Handler |-> NoProfile]
    /\ acc = [h \in Handler |-> NoId]
    /\ raw = [h \in Handler |-> NoToken]
    /\ mailed = {}
    /\ vouched = {}
    /\ orphaned = {}

-----------------------------------------------------------------------------
(* Handler control.                                                         *)

Goto(h, label) == pc' = [pc EXCEPT ![h] = label]

Start(h, label, request, p, i) ==
    /\ pc[h] = "idle"
    /\ Goto(h, label)
    /\ kind' = [kind EXCEPT ![h] = request]
    /\ profile' = [profile EXCEPT ![h] = p]
    /\ acc' = [acc EXCEPT ![h] = i]
    /\ UNCHANGED raw

Finish(h) ==
    /\ Goto(h, "idle")
    /\ kind' = [kind EXCEPT ![h] = "none"]
    /\ profile' = [profile EXCEPT ![h] = NoProfile]
    /\ acc' = [acc EXCEPT ![h] = NoId]
    /\ raw' = [raw EXCEPT ![h] = NoToken]

\* The request goes on at another call, where every session begins alike, ...
Continue(h, label) ==
    /\ Goto(h, label)
    /\ IF label = "session"
       THEN /\ kind' = [kind EXCEPT ![h] = "login"]
            /\ profile' = [profile EXCEPT ![h] = NoProfile]
            /\ raw' = [raw EXCEPT ![h] = NoToken]
       ELSE UNCHANGED <<kind, profile, raw>>
    /\ UNCHANGED acc

\* ... or ends if it asked for no session.
AnswerOrSession(h, last) ==
    IF kind[h] = last THEN Finish(h) ELSE Continue(h, "session")

(* Queries. *)

WithEmail(e) == {i \in Rows : email[i] = e}

WithGoogleId(g) == {i \in Rows : google[i] = g}

-----------------------------------------------------------------------------
(* Requests.  Those that are refused at their first query change nothing    *)
(* and are left out: register for an address that has an account, a         *)
(* verification token no row holds or whose time has passed, a resend for   *)
(* an unknown or verified address.                                          *)

ValidEmail(e) == e \in Email    \* a body without one, or without "@", is refused

requireEmailPassword(e, pw) == ValidEmail(e) /\ pw = "eight or more"

Register(h, e, pw) ==
    /\ requireEmailPassword(e, pw)
    /\ WithEmail(e) = {}
    /\ Start(h, "insert", "register", [NoProfile EXCEPT !.email = e], NoId)
    /\ UNCHANGED <<accounts, didDocs, keys, generated, mailed, history>>

\* login with the right password, up to issueSession.
Login(h, e, pw) ==
    /\ requireEmailPassword(e, pw)
    /\ \E i \in WithEmail(e) \intersect password : Start(h, "session", "login", NoProfile, i)
    /\ UNCHANGED <<accounts, didDocs, keys, generated, mailed, history>>

\* loginWithGoogle: findByGoogleId, then findByEmail when there is no match.
GoogleSignIn(h, p) ==
    /\ \/ \E i \in WithGoogleId(p.google) : Start(h, "session", "login", NoProfile, i)
       \/ /\ WithGoogleId(p.google) = {}
          /\ Start(h, "findEmail", "google", p, NoId)
    /\ vouched' = IF p.trusted THEN vouched \union {p.email} ELSE vouched
    /\ UNCHANGED <<accounts, didDocs, keys, generated, mailed, orphaned>>

\* What Google's userinfo holds; any field may be missing.
UserInfo == [sub : GoogleId \union {None}, email : Email \union {None},
             email_verified : BOOLEAN \union {None}]

\* GET /google/callback: the code is exchanged for a token and the token for the
\* profile, both before anything of the account is read.
GoogleCallback(h, info) ==
    /\ info.sub # None /\ info.email # None
    /\ GoogleSignIn(h, [email |-> info.email, google |-> info.sub,
                        trusted |-> info.email_verified = TRUE])

\* Whether the row's token has expired is left open: a request refused for that
\* changes nothing.
VerifyEmail(h, m) ==
    /\ \E i \in Rows :
        /\ vtoken[i] = m[1]
        /\ Start(h, "verify", "verifyEmail", NoProfile, i)
    /\ vouched' = vouched \union {m[2]}
    /\ UNCHANGED <<accounts, didDocs, keys, generated, mailed, orphaned>>

ResendVerification(h, e) ==
    /\ ValidEmail(e)
    /\ \E i \in WithEmail(e) \ verified : Start(h, "token", "resend", NoProfile, i)
    /\ UNCHANGED <<accounts, didDocs, keys, generated, mailed, history>>

-----------------------------------------------------------------------------
(* Account creation (register, and Google sign-in for a new address).       *)

\* Mutant: the in-memory tier, a Map that enforces no unique column.
NotTaken(h) == TRUE

\* The unique indexes of accounts.email and accounts.googleId.
NoDuplicate(h) ==
    /\ WithEmail(profile[h].email) = {}
    /\ profile[h].google # None => WithGoogleId(profile[h].google) = {}

InsertAccount(h) ==
    /\ pc[h] = "insert"
    /\ NoDuplicate(h)
    /\ created < MaxAccounts
    /\ LET i == created + 1 IN
        /\ created' = i
        /\ email' = [email EXCEPT ![i] = profile[h].email]
        /\ google' = [google EXCEPT ![i] = profile[h].google]
        /\ password' = IF kind[h] = "register" THEN password \union {i} ELSE password
        /\ acc' = [acc EXCEPT ![h] = i]
    /\ Goto(h, "did")
    /\ UNCHANGED <<hasDid, verified, vtoken, didDocs, keys, generated, kind, profile,
                   raw, mailed, history>>

\* The insert is refused by an index: the request fails.
InsertRefused(h) ==
    /\ pc[h] = "insert"
    /\ ~NoDuplicate(h)
    /\ Finish(h)
    /\ UNCHANGED <<accounts, didDocs, keys, generated, mailed, history>>

\* provisionAccountIssuerDid: the DID document, then the encrypted key.
CreateDid(h) ==
    /\ pc[h] = "did"
    /\ didDocs' = didDocs \union {acc[h]}
    /\ Continue(h, "key")
    /\ UNCHANGED <<accounts, keys, generated, mailed, history>>

\* Mutant: the account is answered for before its key is stored.
SkipKey(h) ==
    /\ pc[h] = "key"
    /\ Continue(h, "setDid")
    /\ UNCHANGED <<accounts, didDocs, keys, generated, mailed, history>>

CreateKey(h) ==
    /\ pc[h] = "key"
    /\ keys' = keys \union {acc[h]}
    /\ Continue(h, "setDid")
    /\ UNCHANGED <<accounts, didDocs, generated, mailed, history>>

\* What follows: a verification mail, or the address Google vouches for.
AfterSetDid(h) ==
    IF kind[h] = "register" THEN "token"
    ELSE IF profile[h].trusted THEN "verify"
    ELSE "session"

\* The row exists and its issuer DID is not recorded yet.
Provisioning(h) == pc[h] \in {"did", "key", "setDid"}

\* Mutant: the DID is returned and never recorded.
SetIssuerDidUnwritten(h) ==
    /\ pc[h] = "setDid"
    /\ Continue(h, AfterSetDid(h))
    /\ UNCHANGED <<accounts, didDocs, keys, generated, mailed, history>>

SetIssuerDid(h) ==
    /\ pc[h] = "setDid"
    /\ hasDid' = hasDid \union {acc[h]}
    /\ Continue(h, AfterSetDid(h))
    /\ UNCHANGED <<created, email, google, password, verified, vtoken, didDocs, keys,
                   generated, mailed, history>>

-----------------------------------------------------------------------------
(* Linking a Google identity to the account with the same address.          *)

\* Mutant: Google's email_verified is not looked at.
Trusts(h) == TRUE

TrustedProfile(h) == profile[h].trusted

FindByEmail(h) ==
    /\ pc[h] = "findEmail"
    /\ LET match == WithEmail(profile[h].email) IN
        \/ match = {} /\ Continue(h, "insert")
        \/ match # {} /\ ~TrustedProfile(h) /\ Finish(h)
        \/ \E i \in match :
            /\ TrustedProfile(h)
            /\ Goto(h, "link")
            /\ acc' = [acc EXCEPT ![h] = i]
            /\ UNCHANGED <<kind, profile, raw>>
    /\ UNCHANGED <<accounts, didDocs, keys, generated, mailed, history>>

\* linkGoogleId writes the column whatever it holds; the index refuses an
\* identity another account has.
LinkGoogleId(h) ==
    /\ pc[h] = "link"
    /\ WithGoogleId(profile[h].google) \subseteq {acc[h]}
    /\ google' = [google EXCEPT ![acc[h]] = profile[h].google]
    /\ Continue(h, IF acc[h] \in verified THEN "session" ELSE "verify")
    /\ UNCHANGED <<created, email, password, hasDid, verified, vtoken, didDocs, keys,
                   generated, mailed, history>>

LinkRefused(h) ==
    /\ pc[h] = "link"
    /\ ~(WithGoogleId(profile[h].google) \subseteq {acc[h]})
    /\ Finish(h)
    /\ UNCHANGED <<accounts, didDocs, keys, generated, mailed, history>>

-----------------------------------------------------------------------------
(* E-mail verification.                                                     *)

Marked(i) == verified \union {i}

\* markEmailVerified: sets the column again if it is set, clears the token.
MarkEmailVerified(h) ==
    /\ pc[h] = "verify"
    /\ verified' = Marked(acc[h])
    /\ vtoken' = [vtoken EXCEPT ![acc[h]] = NoToken]
    /\ AnswerOrSession(h, "verifyEmail")
    /\ UNCHANGED <<created, email, google, password, hasDid, didDocs, keys, generated, mailed,
                   history>>

\* sendVerificationEmail: a fresh token replaces the one the row holds ...
SetVerificationToken(h) ==
    /\ pc[h] = "token"
    /\ generated < MaxMails
    /\ LET t == generated + 1 IN
        /\ generated' = t
        /\ vtoken' = [vtoken EXCEPT ![acc[h]] = t]
        /\ raw' = [raw EXCEPT ![h] = t]
    /\ Goto(h, "mail")
    /\ UNCHANGED <<created, email, google, password, hasDid, verified, didDocs, keys, kind,
                   profile, acc, mailed, history>>

\* ... and is mailed to the account's address.
SendMail(h) ==
    /\ pc[h] = "mail"
    /\ mailed' = mailed \union {<<raw[h], email[acc[h]]>>}
    /\ AnswerOrSession(h, "resend")
    /\ UNCHANGED <<accounts, didDocs, keys, generated, history>>

\* issueSession (module Sessions) and the answer.
IssueSession(h) ==
    /\ pc[h] = "session"
    /\ Finish(h)
    /\ UNCHANGED <<accounts, didDocs, keys, generated, mailed, history>>

-----------------------------------------------------------------------------
(* Environment.                                                             *)

\* A call rejects or the process dies.
Abort(h) ==
    /\ pc[h] # "idle"
    /\ orphaned' = IF Provisioning(h) THEN orphaned \union {acc[h]} ELSE orphaned
    /\ Finish(h)
    /\ UNCHANGED <<accounts, didDocs, keys, generated, mailed, vouched>>

HandlerStep(h) ==
    \/ InsertAccount(h) \/ InsertRefused(h)
    \/ CreateDid(h) \/ CreateKey(h) \/ SetIssuerDid(h)
    \/ FindByEmail(h) \/ LinkGoogleId(h) \/ LinkRefused(h)
    \/ MarkEmailVerified(h) \/ SetVerificationToken(h) \/ SendMail(h)
    \/ IssueSession(h)

Next ==
    \/ \E h \in Handler :
        \/ \E e \in Email \union {None} :
            \/ \E pw \in {"shorter", "eight or more"} : Register(h, e, pw) \/ Login(h, e, pw)
            \/ ResendVerification(h, e)
        \/ \E info \in UserInfo : GoogleCallback(h, info)
        \/ \E m \in mailed : VerifyEmail(h, m)
        \/ HandlerStep(h)
        \/ Abort(h)

Spec == Init /\ [][Next]_vars

\* GET /accounts/:accountId/did.json
Resolves(i) == i \in didDocs

-----------------------------------------------------------------------------
(* Properties.                                                              *)

\* Registrations and Google sign-ins that race for one address or one Google
\* identity never leave it on two accounts: the look-up is repeated by the
\* index when the row is written.
OneAccountPerIdentity ==
    \A i, j \in Rows :
        \/ email[i] = email[j]
        \/ google[i] = google[j] /\ google[i] # None
        => i = j

\* An account shows an issuer DID only when its document resolves and its
\* signing key is stored, wherever the provisioning request stopped.
DidIsBacked ==
    /\ hasDid \subseteq keys
    /\ \A i \in keys : Resolves(i)

\* An account without an issuer DID is being provisioned, or the request that
\* created it failed: no path through register or Google sign-in, linking
\* included, gives out an account it forgot to provision.
UnprovisionedIsOrphaned ==
    \A i \in Rows \ (hasDid \union orphaned) :
        \E h \in Handler : acc[h] = i /\ Provisioning(h)

\* An address counts as verified only after its owner presented a token that
\* was mailed to it, or Google vouched for it.
VerifiedWasVouched == \A i \in verified : email[i] \in vouched

=============================================================================
