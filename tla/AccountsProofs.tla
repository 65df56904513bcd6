---------------------------- MODULE AccountsProofs ----------------------------
(***************************************************************************)
(* Theorems about the accounts of the hosted tier: what register, Google     *)
(* sign-in, linking and e-mail verification keep true of the tables, however *)
(* their handlers interleave and wherever they stop, for any addresses,      *)
(* Google identities, handlers and bounds; that the three tiers answer the   *)
(* calls of Drivers alike; and that the handlers' writes are such calls.     *)
(***************************************************************************)
EXTENDS Accounts, Tiers, TLAPS

USE AccountsAssumption DEF Id, NoId, NoToken

-----------------------------------------------------------------------------
(* The invariant.                                                           *)

TablesShaped ==
    /\ created \in 0 .. MaxAccounts
    /\ DOMAIN email = Id /\ DOMAIN google = Id
    /\ vtoken \in [Id -> Nat]
    /\ generated \in Nat

LocalsShaped ==
    /\ DOMAIN pc = Handler /\ DOMAIN kind = Handler /\ DOMAIN profile = Handler
    /\ acc \in [Handler -> Nat]
    /\ raw \in [Handler -> Nat]

\* The tables: nothing is kept of a row before it exists; a verification token
\* is none before it is generated; and one that reached a mailbox, if a row
\* still holds it, reached that of the row's address.
TablesOK ==
    /\ keys \union hasDid \union verified \subseteq Rows
    /\ \A i \in Id \ Rows : vtoken[i] = NoToken
    /\ \A i \in Rows : vtoken[i] <= generated
    /\ \A m \in mailed :
        /\ m[1] \in 1 .. generated
        /\ \A i \in Rows : vtoken[i] = m[1] => email[i] = m[2]
    /\ OneAccountPerIdentity
    /\ DidIsBacked
    /\ VerifiedWasVouched

\* The awaits at which a handler works on a row.
AtRow == {"did", "key", "setDid", "link", "verify", "token", "mail", "session"}

\* A handler: the steps of the provisioning come in order; no other row holds
\* the token it is about to mail; and it knows the address of its row.
HandlerOK(h) ==
    /\ pc[h] \in AtRow => acc[h] \in Rows
    /\ pc[h] = "key" => acc[h] \in didDocs
    /\ pc[h] = "setDid" => acc[h] \in keys
    /\ pc[h] = "mail" =>
        /\ raw[h] \in 1 .. generated
        /\ \A i \in Rows : vtoken[i] = raw[h] => i = acc[h]
    /\ profile[h].trusted => profile[h].email \in vouched
    /\ pc[h] \in {"did", "key", "setDid", "link"} => email[acc[h]] = profile[h].email
    /\ pc[h] = "link" => profile[h].trusted
    /\ pc[h] = "verify" => email[acc[h]] \in vouched

IInv ==
    /\ TablesShaped
    /\ LocalsShaped
    /\ TablesOK
    /\ \A h \in Handler : HandlerOK(h)
    /\ UnprovisionedIsOrphaned

LEMMA InitIInv ==
    Init => IInv
<1> SUFFICES ASSUME Init PROVE IInv
  OBVIOUS
<1>1. TablesShaped /\ LocalsShaped
  BY DEF Init, TablesShaped, LocalsShaped
<1>2. Rows = {}
  BY DEF Init, Rows
<1>3. TablesOK
  BY <1>2 DEF Init, TablesOK, OneAccountPerIdentity, DidIsBacked, Resolves, VerifiedWasVouched
<1>4. ASSUME NEW h \in Handler PROVE HandlerOK(h)
  BY DEF Init, HandlerOK, AtRow, NoProfile
<1> QED
  BY <1>1, <1>2, <1>3, <1>4 DEF IInv, UnprovisionedIsOrphaned

-----------------------------------------------------------------------------
(* What a step does to the tables, and to the other handlers.               *)

tables == <<accounts, didDocs, keys, generated, mailed>>

\* Rows, addresses, documents and keys stay; a row keeps its token, drops it,
\* or gets one that is not out yet.
Grows ==
    /\ created <= created'
    /\ \A i \in Rows : email'[i] = email[i]
    /\ didDocs \subseteq didDocs' /\ keys \subseteq keys' /\ hasDid \subseteq hasDid'
    /\ vouched \subseteq vouched' /\ orphaned \subseteq orphaned'
    /\ generated <= generated'
    /\ \A i \in Rows' : vtoken'[i] \in 1 .. generated => i \in Rows /\ vtoken'[i] = vtoken[i]

\* The locals of the other handlers stay.
OthersStay(h) ==
    \A g \in Handler \ {h} :
        pc'[g] = pc[g] /\ acc'[g] = acc[g] /\ raw'[g] = raw[g] /\ profile'[g] = profile[g]

\* A handler that stops provisioning has recorded the DID or has failed, and a
\* new row has a handler that provisions it.
NoneForgotten(h) ==
    /\ Provisioning(h) =>
        \/ Provisioning(h)' /\ acc'[h] = acc[h]
        \/ acc[h] \in hasDid' \union orphaned'
    /\ Rows' # Rows => Provisioning(h)' /\ Rows' \subseteq Rows \union {acc'[h]}

LEMMA OtherHandlersOK ==
    ASSUME IInv, TablesShaped', Grows, NEW h, OthersStay(h), NEW g \in Handler, g # h
    PROVE  HandlerOK(g)'
<1>1. pc'[g] = pc[g] /\ acc'[g] = acc[g] /\ raw'[g] = raw[g] /\ profile'[g] = profile[g]
  BY DEF OthersStay
<1>2. Rows \subseteq Rows'
  BY DEF IInv, TablesShaped, Grows, Rows
<1>3. HandlerOK(g)
  BY DEF IInv
<1>4. pc[g] = "mail" => raw[g] \in 1 .. generated' /\ \A i \in Rows' : vtoken'[i] = raw[g] => i = acc[g]
  BY <1>3 DEF HandlerOK, Grows, IInv, TablesShaped
<1>5. acc[g] \in Rows => email'[acc[g]] = email[acc[g]]
  BY DEF Grows
<1> QED
  BY <1>1, <1>2, <1>3, <1>4, <1>5 DEF HandlerOK, AtRow, Grows

\* A step of handler h that keeps the tables in order and leaves h in order.
LEMMA HandlerMoves ==
    ASSUME IInv, NEW h \in Handler,
           TablesShaped', LocalsShaped', TablesOK', HandlerOK(h)',
           Grows, OthersStay(h), NoneForgotten(h)
    PROVE  IInv'
<1>1. \A g \in Handler : HandlerOK(g)'
  BY OtherHandlersOK
<1>2. UnprovisionedIsOrphaned'
  <2> SUFFICES ASSUME NEW i \in Rows', i \notin hasDid', i \notin orphaned'
               PROVE  \E g \in Handler : acc'[g] = i /\ Provisioning(g)'
    BY DEF UnprovisionedIsOrphaned
  <2>1. CASE i \in Rows
    <3>1. PICK g \in Handler : acc[g] = i /\ Provisioning(g)
      BY <2>1 DEF IInv, UnprovisionedIsOrphaned, Grows
    <3>2. CASE g = h
      BY <3>1, <3>2 DEF NoneForgotten
    <3>3. CASE g # h
      BY <3>1, <3>3 DEF OthersStay, Provisioning
    <3> QED
      BY <3>2, <3>3
  <2>2. CASE i \notin Rows
    BY <2>2 DEF NoneForgotten
  <2> QED
    BY <2>1, <2>2
<1> QED
  BY <1>1, <1>2 DEF IInv

\* ... and one that touches no table.
LEMMA LocalsMove ==
    ASSUME IInv, NEW h \in Handler, LocalsShaped', HandlerOK(h)', OthersStay(h), NoneForgotten(h),
           UNCHANGED tables, vouched \subseteq vouched', orphaned \subseteq orphaned'
    PROVE  IInv'
<1>1. TablesShaped' /\ Rows' = Rows
  BY DEF IInv, TablesShaped, tables, accounts, Rows
<1>2. TablesOK'
  BY <1>1 DEF IInv, TablesOK, OneAccountPerIdentity, DidIsBacked, Resolves, VerifiedWasVouched,
            tables, accounts
<1>3. Grows
  BY <1>1 DEF Grows, tables, accounts, IInv, TablesShaped
<1> QED
  BY <1>1, <1>2, <1>3, HandlerMoves

-----------------------------------------------------------------------------
(* What the control operators do to a handler's locals.                     *)

LEMMA StartLocals ==
    ASSUME LocalsShaped, NEW h \in Handler, NEW label, NEW request, NEW p, NEW i \in Nat,
           Start(h, label, request, p, i)
    PROVE  /\ LocalsShaped' /\ OthersStay(h)
           /\ pc[h] = "idle" /\ pc'[h] = label /\ profile'[h] = p /\ acc'[h] = i
BY DEF LocalsShaped, Start, Goto, OthersStay

LEMMA FinishLocals ==
    ASSUME LocalsShaped, NEW h \in Handler, Finish(h)
    PROVE  /\ LocalsShaped' /\ OthersStay(h)
           /\ pc'[h] = "idle" /\ ~profile'[h].trusted
BY DEF LocalsShaped, Finish, Goto, OthersStay, NoProfile

LEMMA GotoLocals ==
    ASSUME LocalsShaped, NEW h \in Handler, NEW label, Goto(h, label), UNCHANGED <<kind, profile, raw>>,
           NEW i \in Nat, acc' = [acc EXCEPT ![h] = i]
    PROVE  /\ LocalsShaped' /\ OthersStay(h)
           /\ pc'[h] = label /\ acc'[h] = i
BY DEF LocalsShaped, Goto, OthersStay

LEMMA ContinueLocals ==
    ASSUME LocalsShaped, NEW h \in Handler, NEW label, Continue(h, label)
    PROVE  /\ LocalsShaped' /\ OthersStay(h)
           /\ pc'[h] = label /\ acc'[h] = acc[h]
           /\ profile'[h] = profile[h] \/ (~profile'[h].trusted /\ label = "session")
BY DEF LocalsShaped, Continue, Goto, OthersStay, NoProfile

LEMMA AnswerLocals ==
    ASSUME LocalsShaped, NEW h \in Handler, NEW last, AnswerOrSession(h, last)
    PROVE  /\ LocalsShaped' /\ OthersStay(h)
           /\ ~profile'[h].trusted
           /\ pc'[h] = "idle" \/ (pc'[h] = "session" /\ acc'[h] = acc[h])
<1>1. CASE Finish(h)
  BY <1>1, FinishLocals
<1>2. CASE Continue(h, "session")
  BY <1>2 DEF LocalsShaped, Continue, Goto, OthersStay, NoProfile
<1> QED
  BY <1>1, <1>2 DEF AnswerOrSession

-----------------------------------------------------------------------------
(* Requests.                                                                *)

\* A request that starts to work on no row yet, or on one it found.
LEMMA StartStep ==
    ASSUME IInv, NEW h \in Handler, NEW request, NEW p, NEW i \in Nat,
           NEW label \in {"insert", "findEmail", "session", "token", "verify"},
           Start(h, label, request, p, i),
           label \in AtRow => i \in Rows,
           label = "verify" => email[i] \in vouched',
           p.trusted => p.email \in vouched',
           UNCHANGED tables, vouched \subseteq vouched', UNCHANGED orphaned
    PROVE  IInv'
<1>1. /\ LocalsShaped' /\ OthersStay(h)
      /\ pc[h] = "idle" /\ pc'[h] = label /\ profile'[h] = p /\ acc'[h] = i
  BY StartLocals DEF IInv
<1>2. Rows' = Rows /\ email' = email
  BY DEF Rows, tables, accounts
<1>3. HandlerOK(h)'
  BY <1>1, <1>2 DEF HandlerOK, AtRow
<1>4. NoneForgotten(h)
  BY <1>1, <1>2 DEF NoneForgotten, Provisioning
<1> QED
  BY <1>1, <1>3, <1>4, LocalsMove

LEMMA RegisterStep ==
    ASSUME IInv, NEW h \in Handler, NEW e, NEW pw, Register(h, e, pw)
    PROVE  IInv'
<1> DEFINE p == [NoProfile EXCEPT !.email = e]
<1>1. ~p.trusted
  BY DEF NoProfile
<1>2. Start(h, "insert", "register", p, NoId) /\ UNCHANGED <<tables, vouched, orphaned>>
  BY DEF Register, tables, history
<1> HIDE DEF p
<1> QED
  BY <1>1, <1>2, StartStep DEF AtRow

LEMMA LoginStep ==
    ASSUME IInv, NEW h \in Handler, NEW e, NEW pw, Login(h, e, pw)
    PROVE  IInv'
<1>1. PICK i \in Rows : Start(h, "session", "login", NoProfile, i)
  BY DEF Login, WithEmail
<1>2. i \in Nat /\ ~NoProfile.trusted
  BY DEF Rows, NoProfile
<1>3. UNCHANGED <<tables, vouched, orphaned>>
  BY DEF Login, tables, history
<1> QED
  BY <1>1, <1>2, <1>3, StartStep

LEMMA GoogleSignInStep ==
    ASSUME IInv, NEW h \in Handler, NEW p, GoogleSignIn(h, p)
    PROVE  IInv'
<1>1. UNCHANGED <<tables, orphaned>> /\ vouched \subseteq vouched' /\ (p.trusted => p.email \in vouched')
  BY DEF GoogleSignIn, tables
<1>2. CASE \E i \in WithGoogleId(p.google) : Start(h, "session", "login", NoProfile, i)
  <2>1. PICK i \in Rows : Start(h, "session", "login", NoProfile, i)
    BY <1>2 DEF WithGoogleId
  <2>2. i \in Nat /\ ~NoProfile.trusted
    BY DEF Rows, NoProfile
  <2> QED
    BY <1>1, <2>1, <2>2, StartStep
<1>3. CASE Start(h, "findEmail", "google", p, NoId)
  BY <1>1, <1>3, StartStep DEF AtRow
<1> QED
  BY <1>2, <1>3 DEF GoogleSignIn

LEMMA GoogleCallbackStep ==
    ASSUME IInv, NEW h \in Handler, NEW info, GoogleCallback(h, info)
    PROVE  IInv'
BY GoogleSignInStep DEF GoogleCallback

\* The row that holds a token that was mailed has the address it was mailed to.
LEMMA VerifyEmailStep ==
    ASSUME IInv, NEW h \in Handler, NEW m \in mailed, VerifyEmail(h, m)
    PROVE  IInv'
<1>1. PICK i \in Rows : vtoken[i] = m[1] /\ Start(h, "verify", "verifyEmail", NoProfile, i)
  BY DEF VerifyEmail
<1>2. i \in Nat /\ ~NoProfile.trusted
  BY DEF Rows, NoProfile
<1>3. email[i] \in vouched' /\ vouched \subseteq vouched' /\ UNCHANGED <<tables, orphaned>>
  BY <1>1 DEF VerifyEmail, IInv, TablesOK, tables
<1> QED
  BY <1>1, <1>2, <1>3, StartStep

LEMMA ResendVerificationStep ==
    ASSUME IInv, NEW h \in Handler, NEW e, ResendVerification(h, e)
    PROVE  IInv'
<1>1. PICK i \in Rows : Start(h, "token", "resend", NoProfile, i)
  BY DEF ResendVerification, WithEmail
<1>2. i \in Nat /\ ~NoProfile.trusted
  BY DEF Rows, NoProfile
<1>3. UNCHANGED <<tables, vouched, orphaned>>
  BY DEF ResendVerification, tables, history
<1> QED
  BY <1>1, <1>2, <1>3, StartStep


-----------------------------------------------------------------------------
(* Steps that touch no table.                                               *)

LEMMA EndStep ==
    ASSUME IInv, NEW h \in Handler, Finish(h),
           UNCHANGED <<tables, vouched>>, orphaned \subseteq orphaned',
           Provisioning(h) => acc[h] \in orphaned'
    PROVE  IInv'
<1>1. LocalsShaped' /\ OthersStay(h) /\ pc'[h] = "idle" /\ ~profile'[h].trusted
  BY FinishLocals DEF IInv
<1>2. HandlerOK(h)'
  BY <1>1 DEF HandlerOK, AtRow
<1>3. NoneForgotten(h)
  BY DEF NoneForgotten, Rows, tables, accounts
<1> QED
  BY <1>1, <1>2, <1>3, LocalsMove

LEMMA RefusedStep ==
    ASSUME IInv, NEW h \in Handler, InsertRefused(h) \/ LinkRefused(h) \/ IssueSession(h)
    PROVE  IInv'
<1>1. Finish(h) /\ UNCHANGED <<tables, vouched, orphaned>> /\ ~Provisioning(h)
  BY DEF InsertRefused, LinkRefused, IssueSession, tables, history, Provisioning
<1> QED
  BY <1>1, EndStep

LEMMA AbortStep ==
    ASSUME IInv, NEW h \in Handler, Abort(h)
    PROVE  IInv'
BY EndStep DEF Abort, tables

LEMMA FindByEmailStep ==
    ASSUME IInv, NEW h \in Handler, FindByEmail(h)
    PROVE  IInv'
<1>1. UNCHANGED <<tables, vouched, orphaned>> /\ pc[h] = "findEmail"
  BY DEF FindByEmail, tables, history
<1>2. Rows' = Rows /\ email' = email /\ ~Provisioning(h)
  BY <1>1 DEF Rows, tables, accounts, Provisioning
<1>3. NoneForgotten(h)
  BY <1>2 DEF NoneForgotten
<1>4. CASE Continue(h, "insert")
  <2>1. /\ LocalsShaped' /\ OthersStay(h) /\ pc'[h] = "insert"
        /\ profile'[h].trusted => profile'[h].email \in vouched'
    BY <1>1, <1>4, ContinueLocals DEF IInv, HandlerOK
  <2>2. HandlerOK(h)'
    BY <2>1 DEF HandlerOK, AtRow
  <2> QED
    BY <1>1, <1>3, <2>1, <2>2, LocalsMove
<1>5. CASE Finish(h)
  BY <1>1, <1>2, <1>5, EndStep
<1>6. ASSUME NEW i \in WithEmail(profile[h].email), TrustedProfile(h), Goto(h, "link"),
             acc' = [acc EXCEPT ![h] = i], UNCHANGED <<kind, profile, raw>>
      PROVE  IInv'
  <2>1. i \in Rows /\ i \in Nat /\ email[i] = profile[h].email
    BY <1>6 DEF WithEmail, Rows
  <2>2. LocalsShaped' /\ OthersStay(h) /\ pc'[h] = "link" /\ acc'[h] = i
    BY <1>6, <2>1, GotoLocals DEF IInv
  <2>3. profile' = profile /\ profile[h].trusted /\ profile[h].email \in vouched
    BY <1>6 DEF TrustedProfile, IInv, HandlerOK
  <2>4. HandlerOK(h)'
    BY <1>1, <1>2, <2>1, <2>2, <2>3 DEF HandlerOK
  <2> QED
    BY <1>1, <1>3, <2>2, <2>4, LocalsMove
<1> QED
  BY <1>4, <1>5, <1>6 DEF FindByEmail

-----------------------------------------------------------------------------
(* Steps that write a table.                                                *)

LEMMA InsertAccountStep ==
    ASSUME IInv, NEW h \in Handler, InsertAccount(h)
    PROVE  IInv'
<1> DEFINE i == created + 1
<1>1. /\ created' = i /\ i \in Id /\ i \in Nat
      /\ email' = [email EXCEPT ![i] = profile[h].email]
      /\ google' = [google EXCEPT ![i] = profile[h].google]
      /\ UNCHANGED <<hasDid, verified, vtoken, didDocs, keys, generated, mailed, vouched, orphaned>>
  BY DEF InsertAccount, history, IInv, TablesShaped
<1>2. Goto(h, "did") /\ acc' = [acc EXCEPT ![h] = i] /\ UNCHANGED <<kind, profile, raw>>
      /\ pc[h] = "insert" /\ NoDuplicate(h)
  BY DEF InsertAccount
<1>3. Rows' = Rows \union {i} /\ i \notin Rows
  BY <1>1 DEF Rows, IInv, TablesShaped
<1>4. LocalsShaped' /\ OthersStay(h) /\ pc'[h] = "did" /\ acc'[h] = i
  BY <1>1, <1>2, GotoLocals DEF IInv
<1>5. TablesShaped'
  BY <1>1 DEF IInv, TablesShaped
<1>6. /\ email'[i] = profile[h].email /\ google'[i] = profile[h].google
      /\ \A j \in Rows : email'[j] = email[j] /\ google'[j] = google[j]
      /\ vtoken[i] = NoToken
  BY <1>1, <1>3 DEF IInv, TablesShaped, TablesOK, Rows
<1> HIDE DEF i
<1>7. TablesOK'
  <2>1. OneAccountPerIdentity'
    BY <1>2, <1>3, <1>6 DEF IInv, TablesOK, OneAccountPerIdentity, NoDuplicate, WithEmail, WithGoogleId
  <2>2. DidIsBacked' /\ VerifiedWasVouched' /\ (keys \union hasDid \union verified \subseteq Rows)'
    BY <1>1, <1>3, <1>6 DEF IInv, TablesOK, DidIsBacked, Resolves, VerifiedWasVouched
  <2>3. (/\ \A j \in Id \ Rows : vtoken[j] = NoToken
         /\ \A j \in Rows : vtoken[j] <= generated)'
    BY <1>1, <1>3, <1>6 DEF IInv, TablesOK, TablesShaped
  <2>4. \A m \in mailed' : m[1] \in 1 .. generated' /\ \A j \in Rows' : vtoken'[j] = m[1] => email'[j] = m[2]
    BY <1>1, <1>3, <1>6 DEF IInv, TablesOK
  <2> QED
    BY <2>1, <2>2, <2>3, <2>4 DEF TablesOK
<1>8. HandlerOK(h)'
  BY <1>1, <1>2, <1>3, <1>4, <1>6 DEF HandlerOK, AtRow, IInv
<1>9. Grows
  BY <1>1, <1>3, <1>6 DEF Grows, IInv, TablesShaped, i
<1>10. NoneForgotten(h)
  BY <1>2, <1>3, <1>4 DEF NoneForgotten, Provisioning
<1> QED
  BY <1>4, <1>5, <1>7, <1>8, <1>9, <1>10, HandlerMoves

\* A step of the provisioning, which only adds to the documents, the keys and
\* the accounts that show a DID.
LEMMA ProvisionStep ==
    ASSUME IInv, NEW h \in Handler, Provisioning(h),
           NEW label \in {"key", "setDid", "token", "verify", "session"}, Continue(h, label),
           label = "key" => acc[h] \in didDocs',
           label = "setDid" => acc[h] \in keys',
           label = "verify" => profile[h].trusted,
           label \in {"token", "verify", "session"} => acc[h] \in hasDid',
           didDocs \subseteq didDocs', keys \subseteq keys', hasDid \subseteq hasDid',
           keys' \subseteq keys \union {acc[h]}, hasDid' \subseteq hasDid \union {acc[h]}, DidIsBacked',
           UNCHANGED <<created, email, google, verified, vtoken, generated, mailed, vouched, orphaned>>
    PROVE  IInv'
<1>1. /\ LocalsShaped' /\ OthersStay(h) /\ pc'[h] = label /\ acc'[h] = acc[h]
      /\ profile'[h] = profile[h] \/ (~profile'[h].trusted /\ label = "session")
  BY ContinueLocals DEF IInv
<1>2. Rows' = Rows /\ acc[h] \in Rows
  BY DEF Rows, IInv, HandlerOK, Provisioning, AtRow
<1>3. TablesShaped'
  BY DEF IInv, TablesShaped
<1>4. TablesOK'
  BY <1>2 DEF IInv, TablesOK, OneAccountPerIdentity, VerifiedWasVouched
<1>5. HandlerOK(h)
  BY DEF IInv
<1>6. HandlerOK(h)'
  BY <1>1, <1>2, <1>5 DEF HandlerOK, AtRow, Provisioning
<1>7. Grows
  BY <1>2 DEF Grows, IInv, TablesShaped
<1>8. NoneForgotten(h)
  BY <1>1, <1>2 DEF NoneForgotten, Provisioning
<1> QED
  BY <1>1, <1>3, <1>4, <1>6, <1>7, <1>8, HandlerMoves

LEMMA CreateDidStep ==
    ASSUME IInv, NEW h \in Handler, CreateDid(h)
    PROVE  IInv'
<1>1. DidIsBacked'
  BY DEF CreateDid, accounts, IInv, TablesOK, DidIsBacked, Resolves
<1> QED
  BY <1>1, ProvisionStep DEF CreateDid, accounts, history, Provisioning

LEMMA CreateKeyStep ==
    ASSUME IInv, NEW h \in Handler, CreateKey(h)
    PROVE  IInv'
<1>1. DidIsBacked'
  BY DEF CreateKey, accounts, IInv, TablesOK, HandlerOK, DidIsBacked, Resolves
<1> QED
  BY <1>1, ProvisionStep DEF CreateKey, accounts, history, Provisioning

LEMMA SetIssuerDidStep ==
    ASSUME IInv, NEW h \in Handler, SetIssuerDid(h)
    PROVE  IInv'
<1>1. DidIsBacked'
  BY DEF SetIssuerDid, IInv, TablesOK, HandlerOK, DidIsBacked, Resolves
<1>2. AfterSetDid(h) \in {"token", "verify", "session"} /\ (AfterSetDid(h) = "verify" => profile[h].trusted)
  BY DEF AfterSetDid
<1> QED
  BY <1>1, <1>2, ProvisionStep DEF SetIssuerDid, history, Provisioning

\* The identity goes to the row with the address Google vouches for.
LEMMA LinkGoogleIdStep ==
    ASSUME IInv, NEW h \in Handler, LinkGoogleId(h)
    PROVE  IInv'
<1>1. /\ pc[h] = "link" /\ google' = [google EXCEPT ![acc[h]] = profile[h].google]
      /\ WithGoogleId(profile[h].google) \subseteq {acc[h]}
      /\ UNCHANGED <<created, email, password, hasDid, verified, vtoken, didDocs, keys, generated,
                     mailed, vouched, orphaned>>
  BY DEF LinkGoogleId, history
<1>2. PICK label \in {"session", "verify"} : Continue(h, label)
  BY DEF LinkGoogleId
<1>3. /\ LocalsShaped' /\ OthersStay(h) /\ pc'[h] = label /\ acc'[h] = acc[h]
      /\ profile'[h] = profile[h] \/ (~profile'[h].trusted /\ label = "session")
  BY <1>2, ContinueLocals DEF IInv
<1>4. Rows' = Rows /\ acc[h] \in Rows /\ HandlerOK(h)
  BY <1>1 DEF Rows, IInv, HandlerOK, AtRow
<1>5. TablesShaped'
  BY <1>1 DEF IInv, TablesShaped
<1>6. TablesOK'
  <2> DEFINE g == profile[h].google
  <2>1. Rows \subseteq Id /\ \A j \in Rows \ {acc[h]} : google'[j] = google[j] /\ google[j] # g
    BY <1>1 DEF IInv, TablesShaped, WithGoogleId, Rows
  <2>2. google'[acc[h]] = g
    BY <1>1, <1>4, <2>1 DEF IInv, TablesShaped
  <2> HIDE DEF g
  <2>3. OneAccountPerIdentity'
    BY <1>1, <1>4, <2>1, <2>2 DEF IInv, TablesOK, OneAccountPerIdentity
  <2> QED
    BY <1>1, <1>4, <2>3 DEF IInv, TablesOK, DidIsBacked, Resolves, VerifiedWasVouched
<1>7. HandlerOK(h)'
  BY <1>1, <1>3, <1>4 DEF HandlerOK, AtRow
<1>8. Grows
  BY <1>1, <1>4 DEF Grows, IInv, TablesShaped
<1>9. NoneForgotten(h)
  BY <1>1, <1>4 DEF NoneForgotten, Provisioning
<1> QED
  BY <1>3, <1>5, <1>6, <1>7, <1>8, <1>9, HandlerMoves

LEMMA MarkEmailVerifiedStep ==
    ASSUME IInv, NEW h \in Handler, MarkEmailVerified(h)
    PROVE  IInv'
<1>1. /\ pc[h] = "verify" /\ verified' = verified \union {acc[h]}
      /\ vtoken' = [vtoken EXCEPT ![acc[h]] = NoToken]
      /\ UNCHANGED <<created, email, google, password, hasDid, didDocs, keys, generated,
                     mailed, vouched, orphaned>>
  BY DEF MarkEmailVerified, Marked, history
<1>2. /\ LocalsShaped' /\ OthersStay(h) /\ ~profile'[h].trusted
      /\ pc'[h] = "idle" \/ (pc'[h] = "session" /\ acc'[h] = acc[h])
  BY AnswerLocals DEF MarkEmailVerified, IInv
<1>3. Rows' = Rows /\ acc[h] \in Rows /\ email[acc[h]] \in vouched
  BY <1>1 DEF Rows, IInv, HandlerOK, AtRow
<1>4. vtoken' \in [Id -> Nat] /\ \A i \in Id : vtoken'[i] \in {vtoken[i], NoToken}
  BY <1>1 DEF IInv, TablesShaped
<1>5. TablesShaped'
  BY <1>1, <1>4 DEF IInv, TablesShaped
<1>6. TablesOK'
  <2>1. Rows \subseteq Id
    BY DEF Rows, IInv, TablesShaped
  <2>2. (\A i \in Id \ Rows : vtoken[i] = NoToken)' /\ (\A i \in Rows : vtoken[i] <= generated)'
    BY <1>1, <1>3, <1>4, <2>1 DEF IInv, TablesOK, TablesShaped
  <2>3. \A m \in mailed' : m[1] \in 1 .. generated' /\ \A i \in Rows' : vtoken'[i] = m[1] => email'[i] = m[2]
    BY <1>1, <1>3, <1>4, <2>1 DEF IInv, TablesOK
  <2> QED
    BY <1>1, <1>3, <2>2, <2>3
    DEF IInv, TablesOK, OneAccountPerIdentity, DidIsBacked, Resolves, VerifiedWasVouched
<1>7. HandlerOK(h)'
  BY <1>2, <1>3 DEF HandlerOK, AtRow
<1>8. Grows
  BY <1>1, <1>3, <1>4 DEF Grows, IInv, TablesShaped, Rows
<1>9. NoneForgotten(h)
  BY <1>1, <1>3 DEF NoneForgotten, Provisioning
<1> QED
  BY <1>2, <1>5, <1>6, <1>7, <1>8, <1>9, HandlerMoves

\* The token is new: no other row, no mail on its way and no mailbox has it.
LEMMA SetVerificationTokenStep ==
    ASSUME IInv, NEW h \in Handler, SetVerificationToken(h)
    PROVE  IInv'
<1> DEFINE t == generated + 1
<1>1. /\ pc[h] = "token" /\ generated' = t /\ vtoken' = [vtoken EXCEPT ![acc[h]] = t]
      /\ UNCHANGED <<created, email, google, password, hasDid, verified, didDocs, keys,
                     mailed, vouched, orphaned>>
  BY DEF SetVerificationToken, history
<1>2. Goto(h, "mail") /\ raw' = [raw EXCEPT ![h] = t] /\ UNCHANGED <<kind, profile, acc>>
  BY DEF SetVerificationToken
<1>3. Rows' = Rows /\ acc[h] \in Rows /\ HandlerOK(h)
  BY <1>1 DEF Rows, IInv, HandlerOK, AtRow
<1>4. t \in Nat /\ generated \in Nat /\ t > generated /\ Rows \subseteq Id
  BY DEF IInv, TablesShaped, Rows
<1>5. LocalsShaped' /\ OthersStay(h) /\ pc'[h] = "mail" /\ raw'[h] = t
  BY <1>2, <1>4 DEF IInv, LocalsShaped, Goto, OthersStay
<1>6. vtoken' \in [Id -> Nat] /\ vtoken'[acc[h]] = t /\ \A i \in Id \ {acc[h]} : vtoken'[i] = vtoken[i]
  BY <1>1, <1>3, <1>4 DEF IInv, TablesShaped
<1>7. TablesShaped'
  BY <1>1, <1>4, <1>6 DEF IInv, TablesShaped
<1>8. TablesOK'
  <2>1. (\A i \in Id \ Rows : vtoken[i] = NoToken)' /\ (\A i \in Rows : vtoken[i] <= generated)'
    BY <1>1, <1>3, <1>4, <1>6 DEF IInv, TablesOK, TablesShaped
  <2>2. \A m \in mailed' : m[1] \in 1 .. generated' /\ \A i \in Rows' : vtoken'[i] = m[1] => email'[i] = m[2]
    BY <1>1, <1>3, <1>4, <1>6 DEF IInv, TablesOK
  <2> QED
    BY <1>1, <1>3, <2>1, <2>2
    DEF IInv, TablesOK, OneAccountPerIdentity, DidIsBacked, Resolves, VerifiedWasVouched
<1>9. HandlerOK(h)'
  <2>1. \A i \in Rows : vtoken'[i] = t => i = acc[h]
    BY <1>3, <1>4, <1>6 DEF IInv, TablesOK, TablesShaped
  <2> QED
    BY <1>1, <1>2, <1>3, <1>4, <1>5, <2>1 DEF HandlerOK, AtRow
<1>10. Grows
  BY <1>1, <1>3, <1>4, <1>6 DEF Grows, IInv, TablesShaped
<1>11. NoneForgotten(h)
  BY <1>1, <1>3 DEF NoneForgotten, Provisioning
<1> QED
  BY <1>5, <1>7, <1>8, <1>9, <1>10, <1>11, HandlerMoves

LEMMA SendMailStep ==
    ASSUME IInv, NEW h \in Handler, SendMail(h)
    PROVE  IInv'
<1>1. /\ pc[h] = "mail" /\ mailed' = mailed \union {<<raw[h], email[acc[h]]>>}
      /\ UNCHANGED <<accounts, didDocs, keys, generated, vouched, orphaned>>
  BY DEF SendMail, history
<1>2. /\ LocalsShaped' /\ OthersStay(h) /\ ~profile'[h].trusted
      /\ pc'[h] = "idle" \/ (pc'[h] = "session" /\ acc'[h] = acc[h])
  BY AnswerLocals DEF SendMail, IInv
<1>3. Rows' = Rows /\ acc[h] \in Rows /\ HandlerOK(h)
  BY <1>1 DEF Rows, IInv, HandlerOK, AtRow, accounts
<1>4. TablesShaped'
  BY <1>1 DEF IInv, TablesShaped, accounts
<1>5. TablesOK'
  <2>1. \A m \in mailed' : m[1] \in 1 .. generated' /\ \A i \in Rows' : vtoken'[i] = m[1] => email'[i] = m[2]
    BY <1>1, <1>3 DEF IInv, TablesOK, HandlerOK, accounts
  <2> QED
    BY <1>1, <1>3, <2>1
    DEF IInv, TablesOK, OneAccountPerIdentity, DidIsBacked, Resolves, VerifiedWasVouched, accounts
<1>6. HandlerOK(h)'
  BY <1>2, <1>3 DEF HandlerOK, AtRow
<1>7. Grows
  BY <1>1, <1>3 DEF Grows, IInv, TablesShaped, accounts
<1>8. NoneForgotten(h)
  BY <1>1, <1>3 DEF NoneForgotten, Provisioning
<1> QED
  BY <1>2, <1>4, <1>5, <1>6, <1>7, <1>8, HandlerMoves

-----------------------------------------------------------------------------
(* Theorems.                                                                *)

LEMMA UnchangedIInv ==
    IInv /\ UNCHANGED vars => IInv'
<1> SUFFICES ASSUME IInv, UNCHANGED vars PROVE IInv'
  OBVIOUS
<1>1. UNCHANGED <<tables, vouched, orphaned, locals>>
  BY DEF vars, tables, history
<1>2. TablesShaped' /\ LocalsShaped' /\ Rows' = Rows
  BY <1>1 DEF IInv, TablesShaped, LocalsShaped, tables, accounts, locals, Rows
<1>3. TablesOK'
  BY <1>1, <1>2 DEF IInv, TablesOK, OneAccountPerIdentity, DidIsBacked, Resolves, VerifiedWasVouched,
                    tables, accounts
<1>4. \A h \in Handler : HandlerOK(h)'
  BY <1>1, <1>2 DEF IInv, HandlerOK, AtRow, tables, accounts, locals
<1>5. UnprovisionedIsOrphaned'
  BY <1>1, <1>2 DEF IInv, UnprovisionedIsOrphaned, Provisioning, tables, accounts, locals
<1> QED
  BY <1>2, <1>3, <1>4, <1>5 DEF IInv

LEMMA NextIInv ==
    IInv /\ [Next]_vars => IInv'
<1> SUFFICES ASSUME IInv, [Next]_vars PROVE IInv'
  OBVIOUS
<1>1. ASSUME NEW h \in Handler, HandlerStep(h) PROVE IInv'
  BY <1>1, InsertAccountStep, RefusedStep, CreateDidStep, CreateKeyStep, SetIssuerDidStep, FindByEmailStep,
     LinkGoogleIdStep, MarkEmailVerifiedStep, SetVerificationTokenStep, SendMailStep DEF HandlerStep
<1>2. ASSUME NEW h \in Handler, NEW e, NEW pw,
             Register(h, e, pw) \/ Login(h, e, pw) \/ ResendVerification(h, e)
      PROVE  IInv'
  BY <1>2, RegisterStep, LoginStep, ResendVerificationStep
<1> QED
  BY <1>1, <1>2, GoogleCallbackStep, VerifyEmailStep, AbortStep, UnchangedIInv DEF Next

LEMMA Invariance ==
    Spec => []IInv
BY InitIInv, NextIInv, PTL DEF Spec

\* However registrations, Google sign-ins and links race, no address and no
\* Google identity is ever on two accounts.
THEOREM IdentityIsUnique ==
    Spec => []OneAccountPerIdentity
<1>1. IInv => OneAccountPerIdentity
  BY DEF IInv, TablesOK
<1> QED
  BY <1>1, Invariance, PTL

\* Wherever a provisioning request stops, an account that shows an issuer DID
\* has its document in the DID table and its key in the key table.
THEOREM ShownDidIsBacked ==
    Spec => []DidIsBacked
<1>1. IInv => DidIsBacked
  BY DEF IInv, TablesOK
<1> QED
  BY <1>1, Invariance, PTL

\* An account without an issuer DID has a handler that provisions it, or its
\* creation failed half-way.
THEOREM OnlyFailuresUnprovisioned ==
    Spec => []UnprovisionedIsOrphaned
<1>1. IInv => UnprovisionedIsOrphaned
  BY DEF IInv
<1> QED
  BY <1>1, Invariance, PTL

\* However resends, verifications and Google links overlap, an address counts
\* as verified only if its owner was shown: by a token mailed to it or by Google.
THEOREM VerifiedByOwner ==
    Spec => []VerifiedWasVouched
<1>1. IInv => VerifiedWasVouched
  BY DEF IInv, TablesOK
<1> QED
  BY <1>1, Invariance, PTL

-----------------------------------------------------------------------------
(* The tiers that store these tables (module Tiers), under the calls of      *)
(* Drivers: each call goes to all three.                                     *)

CONSTANT MaxTokens

VARIABLES made, sent

Db == INSTANCE Drivers

\* The SQL tiers hold the same.
SqlSame ==
    /\ sqAccounts = pgAccounts /\ sqKeys = pgKeys /\ sqTokens = pgTokens /\ sqLinks = pgLinks
    /\ sqAnswer = pgAnswer

\* So does memory, until a call is refused.
MemorySame ==
    ~clashed =>
        /\ memAccounts = pgAccounts /\ memTokens = pgTokens /\ memLinks = pgLinks
        /\ memAnswer = pgAnswer
        /\ \A i \in RowId : memKeys[i] = Pg!FindKey(i)

Columns == {"email", "password", "google", "did", "verified", "hash", "expires"}

\* The rows of Postgres: numbered as they were made, with all their columns; no
\* two have an address, a Google identity or a verification hash in common.
TierRowsOK ==
    /\ DOMAIN pgAccounts = RowId /\ DOMAIN memKeys = RowId
    /\ made.account \in Nat /\ DOMAIN made = {"account", "token"}
    /\ \A i \in Db!Account :
        /\ i \in Nat /\ DOMAIN pgAccounts[i] = Columns
        /\ pgAccounts[i].hash \in sent \union {None}
    /\ \A i, j \in Db!Account : i # j =>
        /\ pgAccounts[i].email # pgAccounts[j].email
        /\ pgAccounts[i].google # None => pgAccounts[i].google # pgAccounts[j].google
        /\ pgAccounts[i].hash # None => pgAccounts[i].hash # pgAccounts[j].hash

\* A key is that of the DID made from its account's id.
TierKeysOK == \A k \in pgKeys : k = <<k[1], k[1]>> /\ k[1] \in RowId

TiersIInv == SqlSame /\ MemorySame /\ TierRowsOK /\ TierKeysOK

LEMMA KeyFound ==
    ASSUME NEW K, \A k \in K : k = <<k[1], k[1]>>, NEW a
    PROVE  (IF \E k \in K : k[1] = a THEN (CHOOSE k \in K : k[1] = a)[2] ELSE None)
           = IF <<a, a>> \in K THEN a ELSE None
<1>1. CASE <<a, a>> \in K
  <2> DEFINE k == CHOOSE k \in K : k[1] = a
  <2>1. \E l \in K : l[1] = a
    <3>1. <<a, a>>[1] = a
      OBVIOUS
    <3> QED
      BY <1>1, <3>1
  <2>2. \A l \in K : l[1] = a => l[2] = a
    OBVIOUS
  <2>3. k \in K /\ k[1] = a
    BY <2>1
  <2> HIDE DEF k
  <2> SUFFICES k[2] = a
    BY <1>1, <2>1 DEF k
  <2> QED
    BY <2>2, <2>3
<1>2. CASE <<a, a>> \notin K
  <2>1. \A l \in K : l[1] # a
    BY <1>2
  <2> QED
    BY <1>2, <2>1
<1> QED
  BY <1>1, <1>2

LEMMA TiersInit ==
    ASSUME Db!DriversAssumption PROVE Db!Init => TiersIInv
<1> SUFFICES ASSUME Db!Init PROVE TiersIInv
  OBVIOUS
<1>1. TierKeysOK
  BY DEF Db!Init, TierKeysOK
<1>2. \A i \in RowId : Pg!FindKey(i) = None
  BY DEF Db!Init, Pg!FindKey
<1>3. SqlSame /\ MemorySame
  BY <1>2 DEF Db!Init, SqlSame, MemorySame, Db!NoRows
<1>4. TierRowsOK
  BY DEF Db!Init, TierRowsOK, Db!NoRows, Db!Account, Db!Existing
<1> QED
  BY <1>1, <1>3, <1>4 DEF TiersIInv

\* Postgres refused the call, or every tier stored the row.
LEMMA StoredStep ==
    ASSUME TiersIInv, NEW i \in RowId, i \in Nat, NEW row,
           IF Db!Pg!Unique(i, row) THEN Db!Pg!Store(i, row) ELSE Db!Pg!Refuse,
           sqAccounts' = pgAccounts', sqAnswer' = pgAnswer',
           UNCHANGED <<sqKeys, sqTokens, sqLinks, memKeys, memTokens, memLinks>>,
           memAccounts = pgAccounts =>
               memAccounts' = [memAccounts EXCEPT ![i] = row] /\ memAnswer' = "done",
           clashed' = (clashed \/ pgAnswer' = "refused"),
           made'.account \in Nat, DOMAIN made' = {"account", "token"}, sent \subseteq sent',
           DOMAIN row = Columns, row.hash \in sent' \union {None},
           row.hash # None => \A j \in Db!Account \ {i} : row.hash # pgAccounts[j].hash
    PROVE  TiersIInv'
<1>1. SqlSame' 
  BY DEF TiersIInv, SqlSame, Db!Pg!Store, Db!Pg!Refuse, Db!Pg!tables
<1>2. TierKeysOK'
  BY DEF TiersIInv, TierKeysOK, Db!Pg!Store, Db!Pg!Refuse, Db!Pg!tables
<1>3. MemorySame'
  <2>1. pgKeys' = pgKeys
    BY DEF Db!Pg!Store, Db!Pg!Refuse, Db!Pg!tables
  <2>2. \A j \in RowId : Pg!FindKey(j)' = Pg!FindKey(j)
    BY <2>1 DEF Pg!FindKey
  <2> QED
    BY <2>2 DEF TiersIInv, MemorySame, Db!Pg!Store, Db!Pg!Refuse, Db!Pg!tables
<1>4. TierRowsOK'
  <2>1. CASE Db!Pg!Unique(i, row)
    <3>1. pgAccounts' = [pgAccounts EXCEPT ![i] = row] /\ DOMAIN pgAccounts = RowId
      BY <2>1 DEF Db!Pg!Store, TiersIInv, TierRowsOK
    <3>2. Db!Account' \subseteq Db!Account \union {i}
      BY <3>1 DEF Db!Account, Db!Existing
    <3>3. pgAccounts'[i] = row /\ \A j \in Db!Account \ {i} : pgAccounts'[j] = pgAccounts[j]
      BY <3>1 DEF Db!Account, Db!Existing
    <3>4. \A j \in Db!Account \ {i} :
            /\ pgAccounts[j].email # row.email
            /\ row.google # None => pgAccounts[j].google # row.google
      BY <2>1 DEF Db!Pg!Unique, Db!Account, Db!Existing, Db!Pg!Existing
    <3>5. DOMAIN pgAccounts' = RowId /\ DOMAIN memKeys' = RowId
      BY <3>1 DEF TiersIInv, TierRowsOK
    <3>6. \A j \in Db!Account' :
            /\ j \in Nat /\ DOMAIN pgAccounts'[j] = Columns
            /\ pgAccounts'[j].hash \in sent' \union {None}
      BY <3>2, <3>3 DEF TiersIInv, TierRowsOK
    <3>7. \A j \in Db!Account \ {i} : row.hash # None => pgAccounts[j].hash # row.hash
      OBVIOUS
    <3>8. ASSUME NEW j \in Db!Account', NEW l \in Db!Account', j # l
          PROVE  /\ pgAccounts'[j].email # pgAccounts'[l].email
                 /\ pgAccounts'[j].google # None => pgAccounts'[j].google # pgAccounts'[l].google
                 /\ pgAccounts'[j].hash # None => pgAccounts'[j].hash # pgAccounts'[l].hash
      <4>1. CASE j = i
        <5>1. l \in Db!Account \ {i} /\ pgAccounts'[l] = pgAccounts[l] /\ pgAccounts'[j] = row
          BY <3>2, <3>3, <3>8, <4>1
        <5> QED
          BY <5>1, <3>4, <3>7
      <4>2. CASE l = i
        <5>1. j \in Db!Account \ {i} /\ pgAccounts'[j] = pgAccounts[j] /\ pgAccounts'[l] = row
          BY <3>2, <3>3, <3>8, <4>2
        <5> QED
          BY <5>1, <3>4, <3>7
      <4>3. CASE j # i /\ l # i
        <5>1. /\ j \in Db!Account /\ pgAccounts'[j] = pgAccounts[j]
              /\ l \in Db!Account /\ pgAccounts'[l] = pgAccounts[l]
          BY <3>2, <3>3, <4>3
        <5> QED
          BY <5>1, <3>8 DEF TiersIInv, TierRowsOK
      <4> QED
        BY <4>1, <4>2, <4>3
    <3> QED
      BY <3>5, <3>6, <3>8 DEF TierRowsOK
  <2>2. CASE ~Db!Pg!Unique(i, row)
    BY <2>2 DEF Db!Pg!Refuse, Db!Pg!tables, TiersIInv, TierRowsOK, Db!Account
  <2> QED
    BY <2>1, <2>2
<1> QED
  BY <1>1, <1>2, <1>3, <1>4 DEF TiersIInv

LEMMA UniqueSame ==
    ASSUME sqAccounts = pgAccounts, NEW i, NEW row
    PROVE  Db!Sq!Unique(i, row) <=> Db!Pg!Unique(i, row)
BY DEF Db!Sq!Unique, Db!Pg!Unique, Db!Sq!Existing, Db!Pg!Existing

LEMMA CreateStep ==
    ASSUME Db!DriversAssumption, TiersIInv, NEW e \in Email, NEW g \in GoogleId \union {None}, Db!CreateAccount(e, g)
    PROVE  TiersIInv'
<1> DEFINE i == made.account + 1
           row == Db!NewAccount(e, g)
<1>1. i \in RowId /\ i \in Nat /\ made.account \in Nat
  BY DEF Db!DriversAssumption, Db!CreateAccount, TiersIInv, TierRowsOK
<1>2. DOMAIN row = Columns /\ row.hash = None
  BY DEF Db!NewAccount, Columns
<1>3. made'.account \in Nat /\ DOMAIN made' = {"account", "token"}
  BY <1>1 DEF Db!CreateAccount, TiersIInv, TierRowsOK
<1>4. /\ Db!Pg!CreateAccount(i, row) /\ Db!Sq!CreateAccount(i, row) /\ Db!Mem!CreateAccount(i, row)
      /\ clashed' = (clashed \/ pgAnswer' = "refused") /\ sent' = sent
  BY DEF Db!CreateAccount
<1> HIDE DEF i, row
<1>5. Db!Sq!Unique(i, row) <=> Db!Pg!Unique(i, row)
  BY UniqueSame DEF TiersIInv, SqlSame
<1>6. IF Db!Pg!Unique(i, row) THEN Db!Pg!Store(i, row) ELSE Db!Pg!Refuse
  BY <1>4 DEF Db!Pg!CreateAccount
<1>7. /\ sqAccounts' = pgAccounts' /\ sqAnswer' = pgAnswer'
      /\ UNCHANGED <<sqKeys, sqTokens, sqLinks>>
  BY <1>4, <1>5, <1>6
     DEF Db!Sq!CreateAccount, Db!Sq!Refuse, Db!Sq!tables, Db!Pg!Store, Db!Pg!Refuse,
         Db!Pg!tables, TiersIInv, SqlSame
<1>8. /\ memAccounts' = [memAccounts EXCEPT ![i] = row] /\ memAnswer' = "done"
      /\ UNCHANGED <<memKeys, memTokens, memLinks>>
  BY <1>4 DEF Db!Mem!CreateAccount
<1> QED
  BY <1>1, <1>2, <1>3, <1>4, <1>6, <1>7, <1>8, StoredStep

LEMMA UpdateStep ==
    ASSUME TiersIInv, NEW i \in Db!Account, NEW patch, Db!Update(i, patch),
           DOMAIN patch \subseteq Db!Sq!UpdatableColumns, sent \subseteq sent',
           "hash" \in DOMAIN patch =>
               /\ patch.hash \in sent' \union {None}
               /\ patch.hash # None => patch.hash \notin sent
    PROVE  TiersIInv'
<1> DEFINE row == Db!Patched(pgAccounts[i], patch)
<1>1. i \in RowId /\ i \in Nat /\ DOMAIN pgAccounts[i] = Columns
  BY DEF TiersIInv, TierRowsOK, Db!Account, Db!Existing
<1>2. DOMAIN row = Columns
  BY <1>1 DEF Db!Patched
<1>3. row.hash = IF "hash" \in DOMAIN patch THEN patch.hash ELSE pgAccounts[i].hash
  BY <1>1 DEF Db!Patched, Columns
<1>4. row.hash \in sent' \union {None}
  BY <1>3 DEF TiersIInv, TierRowsOK
<1>5. ASSUME row.hash # None, NEW j \in Db!Account \ {i}
      PROVE  row.hash # pgAccounts[j].hash
  BY <1>3, <1>5 DEF TiersIInv, TierRowsOK
<1>6. [c \in DOMAIN patch \intersect Db!Sq!UpdatableColumns |-> patch[c]]
      = [c \in DOMAIN patch |-> patch[c]]
  OBVIOUS
<1>7. Db!Patched(pgAccounts[i], [c \in DOMAIN patch |-> patch[c]]) = row
  BY DEF Db!Patched
<1>8. i \in Db!Existing(pgAccounts)
  BY DEF Db!Account
<1> HIDE DEF row
<1>9. Db!Sq!Unique(i, row) <=> Db!Pg!Unique(i, row)
  BY UniqueSame DEF TiersIInv, SqlSame
<1>10. IF Db!Pg!Unique(i, row) THEN Db!Pg!Store(i, row) ELSE Db!Pg!Refuse
  BY <1>8
     DEF Db!Update, Db!Pg!Update, row, Db!Patched, Db!Pg!Patched, Db!Existing, Db!Pg!Existing
<1>11. IF Db!Pg!Unique(i, row)
       THEN /\ sqAccounts' = [sqAccounts EXCEPT ![i] = row] /\ sqAnswer' = "done"
            /\ UNCHANGED <<sqKeys, sqTokens, sqLinks>>
       ELSE Db!Sq!Refuse
  BY <1>6, <1>7, <1>8, <1>9
     DEF Db!Update, Db!Sq!Update, Db!Patched, Db!Sq!Patched, Db!Existing, Db!Sq!Existing,
         TiersIInv, SqlSame
<1>12. /\ sqAccounts' = pgAccounts' /\ sqAnswer' = pgAnswer'
       /\ UNCHANGED <<sqKeys, sqTokens, sqLinks>>
  BY <1>10, <1>11
     DEF Db!Sq!Refuse, Db!Sq!tables, Db!Pg!Store, Db!Pg!Refuse, Db!Pg!tables, TiersIInv, SqlSame
<1>13. ASSUME memAccounts = pgAccounts
       PROVE  memAccounts' = [memAccounts EXCEPT ![i] = row] /\ memAnswer' = "done"
  BY <1>1, <1>8, <1>13
     DEF Db!Update, Db!Mem!Update, row, Db!Patched, Db!Mem!Patched, Db!Existing, Db!Mem!Existing
<1>14. UNCHANGED <<memKeys, memTokens, memLinks>>
  BY DEF Db!Update, Db!Mem!Update
<1>15. /\ made'.account \in Nat /\ DOMAIN made' = {"account", "token"}
       /\ clashed' = (clashed \/ pgAnswer' = "refused")
  BY DEF Db!Update, TiersIInv, TierRowsOK
<1> QED
  BY <1>1, <1>2, <1>4, <1>5, <1>10, <1>12, <1>13, <1>14, <1>15, StoredStep

LEMMA KeyStep ==
    ASSUME Db!DriversAssumption, TiersIInv, NEW a \in Db!Account, Db!CreateKey(a)
    PROVE  TiersIInv'
<1>1. a \in RowId /\ a \in Db!Existing(pgAccounts) /\ a # None
  BY DEF Db!DriversAssumption, TiersIInv, TierRowsOK, Db!Account, Db!Existing
<1>2. <<a, a>> \notin pgKeys
  BY <1>1, KeyFound DEF Db!CreateKey, Db!Pg!FindKey, TiersIInv, TierKeysOK
<1>3. \A k \in pgKeys : k[1] # a /\ k[2] # a
  BY <1>2 DEF TiersIInv, TierKeysOK
<1>4. pgKeys' = pgKeys \union {<<a, a>>} /\ pgAnswer' = "done"
      /\ UNCHANGED <<pgAccounts, pgTokens, pgLinks>>
  BY <1>1, <1>3 DEF Db!CreateKey, Db!Pg!CreateKey, Db!Existing, Db!Pg!Existing
<1>5. sqKeys' = pgKeys' /\ sqAnswer' = "done" /\ UNCHANGED <<sqAccounts, sqTokens, sqLinks>>
  BY <1>3, <1>4 DEF Db!CreateKey, Db!Sq!CreateKey, TiersIInv, SqlSame
<1>6. memKeys' = [memKeys EXCEPT ![a] = a] /\ memAnswer' = "done"
      /\ UNCHANGED <<memAccounts, memTokens, memLinks, made, sent, clashed>>
  BY DEF Db!CreateKey, Db!Mem!CreateKey
<1>7. SqlSame'
  BY <1>4, <1>5 DEF TiersIInv, SqlSame
<1>8. TierKeysOK'
  <2>1. <<a, a>> = <<<<a, a>>[1], <<a, a>>[1]>> /\ <<a, a>>[1] \in RowId
    BY <1>1
  <2> QED
    BY <1>4, <2>1 DEF TiersIInv, TierKeysOK
<1>9. TierRowsOK'
  BY <1>1, <1>4, <1>6 DEF TiersIInv, TierRowsOK, Db!Account
<1>10. MemorySame'
  <2>1. ASSUME NEW i \in RowId, ~clashed PROVE memKeys'[i] = Pg!FindKey(i)'
    <3>1. Pg!FindKey(i)' = IF <<i, i>> \in pgKeys' THEN i ELSE None
      BY <1>8, KeyFound DEF Pg!FindKey, TierKeysOK
    <3>2. Pg!FindKey(i) = IF <<i, i>> \in pgKeys THEN i ELSE None
      BY KeyFound DEF Pg!FindKey, TierKeysOK, TiersIInv
    <3>3. memKeys[i] = Pg!FindKey(i) /\ DOMAIN memKeys = RowId
      BY <2>1 DEF TiersIInv, MemorySame, TierRowsOK
    <3>4. CASE i = a
      BY <3>1, <3>3, <3>4, <1>4, <1>6
    <3>5. CASE i # a
      BY <3>1, <3>2, <3>3, <3>5, <1>4, <1>6
    <3> QED
      BY <3>4, <3>5
  <2> QED
    BY <1>4, <1>6, <2>1 DEF TiersIInv, MemorySame
<1> QED
  BY <1>7, <1>8, <1>9, <1>10 DEF TiersIInv

\* The calls on refresh tokens and links do the same in every tier.
LEMMA SameStep ==
    ASSUME TiersIInv, UNCHANGED <<pgAccounts, pgKeys, sqAccounts, sqKeys, memAccounts, memKeys, sent, clashed>>,
           made'.account = made.account, DOMAIN made' = DOMAIN made,
           sqTokens' = pgTokens' /\ sqLinks' = pgLinks' /\ sqAnswer' = pgAnswer',
           ~clashed => memTokens' = pgTokens' /\ memLinks' = pgLinks' /\ memAnswer' = pgAnswer'
    PROVE  TiersIInv'
<1>1. SqlSame' /\ TierKeysOK'
  BY DEF TiersIInv, SqlSame, TierKeysOK
<1>2. TierRowsOK'
  BY DEF TiersIInv, TierRowsOK, Db!Account
<1>3. MemorySame'
  BY DEF TiersIInv, MemorySame, Pg!FindKey
<1> QED
  BY <1>1, <1>2, <1>3 DEF TiersIInv

LEMMA TiersNext ==
    ASSUME Db!DriversAssumption PROVE TiersIInv /\ [Db!Next]_(Db!vars) => TiersIInv'
<1> SUFFICES ASSUME TiersIInv, [Db!Next]_(Db!vars) PROVE TiersIInv'
  OBVIOUS
<1>1. ASSUME NEW e \in Email, NEW g \in GoogleId \union {None}, Db!CreateAccount(e, g) PROVE TiersIInv'
  BY <1>1, CreateStep
<1>2. ASSUME NEW i \in Db!Account, NEW g \in GoogleId, Db!LinkGoogle(i, g) PROVE TiersIInv'
  BY <1>2, UpdateStep DEF Db!LinkGoogle, Db!LinkGoogleId, Db!Sq!UpdatableColumns
<1>3. ASSUME NEW i \in Db!Account, NEW n \in Hash, Db!SendToken(i, n) PROVE TiersIInv'
  BY <1>3, UpdateStep DEF Db!SendToken, Db!SetEmailVerificationToken, Db!Sq!UpdatableColumns
<1>4. ASSUME NEW i \in Db!Account, Db!RecordDid(i) PROVE TiersIInv'
  BY <1>4, UpdateStep DEF Db!RecordDid, Db!SetIssuerDid, Db!Sq!UpdatableColumns
<1>5. ASSUME NEW i \in Db!Account, Db!Verify(i) PROVE TiersIInv'
  BY <1>5, UpdateStep DEF Db!Verify, Db!MarkEmailVerified, Db!Sq!UpdatableColumns
<1>6. ASSUME NEW i \in Db!Account, Db!CreateKey(i) PROVE TiersIInv'
  BY <1>6, KeyStep
<1>7. ASSUME NEW i \in Db!Account, Db!IssueSession(i) PROVE TiersIInv'
  BY <1>7, SameStep
     DEF Db!IssueSession, Db!Pg!CreateToken, Db!Sq!CreateToken, Db!Mem!CreateToken,
         Db!Account, Db!Existing, Db!Pg!Existing,
         Db!Pg!NewToken, Db!Sq!NewToken, Db!Mem!NewToken, TiersIInv, SqlSame, MemorySame,
         TierRowsOK
<1>8. ASSUME NEW t \in Db!RefreshToken, NEW s, Db!Revoke(t, s) PROVE TiersIInv'
  BY <1>8, SameStep
     DEF Db!Revoke, Db!Pg!Revoke, Db!Sq!Revoke, Db!Mem!Revoke, TiersIInv, SqlSame, MemorySame
<1>9. ASSUME NEW a \in Db!Account, Db!RevokeAllForAccount(a) PROVE TiersIInv'
  BY <1>9, SameStep
     DEF Db!RevokeAllForAccount, Db!Pg!RevokeAll, Db!Sq!RevokeAll, Db!Mem!RevokeAll,
         Db!Sq!LiveTokens,
         Db!Pg!Existing, Db!Sq!Existing, Db!Mem!Existing, TiersIInv, SqlSame, MemorySame
<1>10. ASSUME NEW k \in Key, NEW a \in Db!Account, Db!Link(k, a) PROVE TiersIInv'
  BY <1>10, SameStep
     DEF Db!Link, Db!Pg!Link, Db!Sq!Link, Db!Mem!Link, Db!Mem!Linked, TiersIInv, SqlSame,
         MemorySame
<1>11. CASE UNCHANGED Db!vars
  BY <1>11, SameStep DEF Db!vars, Db!pg, Db!sq, Db!mem, TiersIInv, SqlSame, MemorySame
<1> QED
  BY <1>1, <1>2, <1>3, <1>4, <1>5, <1>6, <1>7, <1>8, <1>9, <1>10, <1>11 DEF Db!Next

\* A query with one match finds it in any order.
LEMMA OneMatch ==
    ASSUME NEW table, NEW S, S \subseteq Nat, \A i, j \in S : i = j
    PROVE  AnyOf(table, S) = IF S = {} THEN None ELSE table[CHOOSE i \in S : \A j \in S : i <= j]
<1>1. CASE S = {}
  BY <1>1 DEF AnyOf
<1>2. CASE S # {}
  <2>1. PICK x \in S : TRUE
    BY <1>2
  <2>2. (CHOOSE i \in S : TRUE) = x
    BY <2>1
  <2>3. \A j \in S : x <= j
    BY <2>1
  <2>4. (CHOOSE i \in S : \A j \in S : i <= j) = x
    <3>1. (CHOOSE i \in S : \A j \in S : i <= j) \in S
      BY <2>1, <2>3
    <3> QED
      BY <3>1, <2>1
  <2> QED
    BY <1>2, <2>2, <2>4 DEF AnyOf
<1> QED
  BY <1>1, <1>2

LEMMA SqlAgree ==
    SqlSame => SqlTiersAgree
BY DEF SqlSame, SqlTiersAgree, Pg!FindById, Sq!FindById, Pg!FindKey, Sq!FindKey, Pg!FindToken,
       Sq!FindToken, Pg!ListKeysForAccount, Sq!ListKeysForAccount, Pg!FindByEmail,
       Sq!FindByEmail,
       Pg!FindByGoogleId, Sq!FindByGoogleId, Pg!FindByVerificationHash,
       Sq!FindByVerificationHash,
       Pg!GetAccountId, Sq!GetAccountId, Pg!AnyOf, Sq!AnyOf, Pg!Existing, Sq!Existing

LEMMA MemAgree ==
    ASSUME Db!DriversAssumption PROVE TiersIInv => MemoryAgrees
<1> SUFFICES ASSUME TiersIInv, ~clashed PROVE MemoryAgrees
  BY DEF MemoryAgrees
<1>1. memAccounts = pgAccounts /\ sqAccounts = pgAccounts
  BY DEF TiersIInv, SqlSame, MemorySame
<1>2. ASSUME NEW e \in Email PROVE Mem!FindByEmail(e) = Sq!FindByEmail(e)
  <2> DEFINE S == {i \in Existing(pgAccounts) : pgAccounts[i].email = e}
  <2>1. S \subseteq Nat /\ \A i, j \in S : i = j
    BY DEF TiersIInv, TierRowsOK, Db!Account, Db!Existing, Existing
  <2>2. Sq!FindByEmail(e) = AnyOf(pgAccounts, S)
    BY <1>1 DEF Sq!FindByEmail, Sq!AnyOf, AnyOf, Sq!Existing, Existing
  <2>3. Mem!FindByEmail(e)
        = IF S = {} THEN None ELSE pgAccounts[CHOOSE i \in S : \A j \in S : i <= j]
    BY <1>1 DEF Mem!FindByEmail, Mem!FirstOf, Mem!Existing, Existing
  <2> QED
    BY <2>1, <2>2, <2>3, OneMatch
<1>3. ASSUME NEW g \in GoogleId PROVE Mem!FindByGoogleId(g) = Sq!FindByGoogleId(g)
  <2> DEFINE S == {i \in Existing(pgAccounts) : pgAccounts[i].google = g}
  <2>1. S \subseteq Nat /\ \A i, j \in S : i = j
    BY DEF Db!DriversAssumption, TiersIInv, TierRowsOK, Db!Account, Db!Existing, Existing
  <2>2. Sq!FindByGoogleId(g) = AnyOf(pgAccounts, S)
    BY <1>1 DEF Sq!FindByGoogleId, Sq!AnyOf, AnyOf, Sq!Existing, Existing
  <2>3. Mem!FindByGoogleId(g)
        = IF S = {} THEN None ELSE pgAccounts[CHOOSE i \in S : \A j \in S : i <= j]
    BY <1>1 DEF Mem!FindByGoogleId, Mem!FirstOf, Mem!Existing, Existing
  <2> QED
    BY <2>1, <2>2, <2>3, OneMatch
<1>4. ASSUME NEW n \in Hash PROVE Mem!FindByVerificationHash(n) = Sq!FindByVerificationHash(n)
  <2> DEFINE S == {i \in Existing(pgAccounts) : pgAccounts[i].hash = n}
  <2>1. S \subseteq Nat /\ \A i, j \in S : i = j
    BY DEF Db!DriversAssumption, TiersIInv, TierRowsOK, Db!Account, Db!Existing, Existing
  <2>2. Sq!FindByVerificationHash(n) = AnyOf(pgAccounts, S)
    BY <1>1 DEF Sq!FindByVerificationHash, Sq!AnyOf, AnyOf, Sq!Existing, Existing
  <2>3. Mem!FindByVerificationHash(n)
        = IF S = {} THEN None ELSE pgAccounts[CHOOSE i \in S : \A j \in S : i <= j]
    BY <1>1 DEF Mem!FindByVerificationHash, Mem!FirstOf, Mem!Existing, Existing
  <2> QED
    BY <2>1, <2>2, <2>3, OneMatch
<1>5. memAnswer = sqAnswer
  BY DEF TiersIInv, SqlSame, MemorySame
<1>6. \A i \in RowId :
        /\ Mem!FindById(i) = Sq!FindById(i)
        /\ Mem!FindKey(i) = Sq!FindKey(i)
        /\ Mem!FindToken(i) = Sq!FindToken(i)
        /\ Mem!ListKeysForAccount(i) = Sq!ListKeysForAccount(i)
  BY DEF TiersIInv, SqlSame, MemorySame, Mem!FindById, Sq!FindById, Mem!FindKey, Sq!FindKey,
         Pg!FindKey,
         Mem!FindToken, Sq!FindToken, Mem!ListKeysForAccount, Sq!ListKeysForAccount
<1>7. \A k \in Key : Mem!GetAccountId(k) = Sq!GetAccountId(k)
  BY DEF TiersIInv, SqlSame, MemorySame, Mem!GetAccountId, Sq!GetAccountId
<1> QED
  BY <1>2, <1>3, <1>4, <1>5, <1>6, <1>7 DEF MemoryAgrees

\* Postgres and SQLite do or refuse every call alike, and every query then finds
\* the same in both, although SQLite patches only the columns it knows and checks
\* no references.
THEOREM SqlTiersAlike ==
    ASSUME Db!DriversAssumption
    PROVE  Db!Spec => []SqlTiersAgree
<1>1. TiersIInv => SqlTiersAgree
  BY SqlAgree DEF TiersIInv
<1>2. (Db!Init => TiersIInv) /\ (TiersIInv /\ [Db!Next]_(Db!vars) => TiersIInv')
  BY TiersInit, TiersNext
<1> QED
  BY <1>1, <1>2, PTL DEF Db!Spec

\* Until two requests race for an address or a Google identity, the in-memory tier
\* the unit tests run on answers as SQLite does: its first match is the only one.
THEOREM MemoryAlike ==
    ASSUME Db!DriversAssumption
    PROVE  Db!Spec => []MemoryAgrees
<1>1. TiersIInv => MemoryAgrees
  BY MemAgree
<1>2. (Db!Init => TiersIInv) /\ (TiersIInv /\ [Db!Next]_(Db!vars) => TiersIInv')
  BY TiersInit, TiersNext
<1> QED
  BY <1>1, <1>2, PTL DEF Db!Spec

-----------------------------------------------------------------------------
(* The calls the handlers make are those of Drivers: a row that is changed   *)
(* was found, a hash is fresh, the key of an account is stored once.  A call *)
(* that is refused changes nothing and is not among them.                    *)

\* A row as a tier stores it; NULL is the token no row holds.
StoredRow(i) ==
    [email |-> email[i], password |-> i \in password, google |-> google[i],
     did |-> IF i \in hasDid THEN i ELSE None, verified |-> i \in verified,
     hash |-> IF vtoken[i] = NoToken THEN None ELSE vtoken[i],
     expires |-> vtoken[i] # NoToken]

AccountTable == [i \in Id |-> IF i \in Rows THEN StoredRow(i) ELSE None]

KeyTable == {<<i, i>> : i \in keys}

RowsByAccount == [i \in Id |-> IF i \in keys THEN i ELSE None]

NoSessions == [i \in Id |-> None]

NoLinks == [k \in {} |-> None]

\* Every tier holds these tables.
Calls == INSTANCE Drivers WITH
    RowId <- Id, Hash <- VerificationToken, Key <- {}, MaxTokens <- 0,
    pgAccounts <- AccountTable, sqAccounts <- AccountTable, memAccounts <- AccountTable,
    pgKeys <- KeyTable, sqKeys <- KeyTable, memKeys <- RowsByAccount,
    pgTokens <- NoSessions, sqTokens <- NoSessions, memTokens <- NoSessions,
    pgLinks <- NoLinks, sqLinks <- NoLinks, memLinks <- NoLinks,
    pgAnswer <- "done", sqAnswer <- "done", memAnswer <- "done",
    made <- [account |-> created, token |-> 0], sent <- 1 .. generated, clashed <- FALSE

\* NULL is not a number and not a row.
NullIsNoValue == None \notin Nat \union Calls!AccountRow

\* A handler has what it is to store, which has a password when no Google identity
\* comes with it, and is the only one to provision its row.
CallerOK(h) ==
    /\ pc[h] \in {"findEmail", "insert", "link"} =>
        /\ profile[h].email \in Email /\ profile[h].google \in GoogleId \union {None}
        /\ kind[h] = "register" <=> profile[h].google = None
    /\ pc[h] \in {"findEmail", "link"} => profile[h].google # None
    /\ pc[h] \in {"did", "key"} => acc[h] \notin keys
    /\ \A g \in Handler : Provisioning(g) /\ Provisioning(h) /\ acc[g] = acc[h] => g = h

CallsInv ==
    /\ IInv
    /\ password \subseteq Rows
    /\ \A i \in Rows : email[i] \in Email /\ google[i] \in GoogleId \union {None}
    /\ generated <= MaxMails
    /\ \A h \in Handler : CallerOK(h)

LEMMA InitCallsInv ==
    Init => CallsInv
<1> SUFFICES ASSUME Init PROVE CallsInv
  OBVIOUS
<1>1. IInv
  BY InitIInv
<1>2. \A h \in Handler : CallerOK(h)
  BY DEF Init, CallerOK, Provisioning
<1> QED
  BY <1>1, <1>2 DEF Init, CallsInv, Rows

\* What a step of h keeps of the others, and of the tables that only the
\* provisioning and the calls of accounts write.
CallerStep(h) ==
    /\ \A g \in Handler \ {h} :
        pc'[g] = pc[g] /\ acc'[g] = acc[g] /\ profile'[g] = profile[g] /\ kind'[g] = kind[g]
    /\ keys' \subseteq keys \union {acc[h]}
    /\ keys' # keys => Provisioning(h)
    /\ Provisioning(h)' => \/ Provisioning(h) /\ acc'[h] = acc[h]
                           \/ acc'[h] \notin Rows
    /\ pc'[h] \in {"did", "key"} => acc'[h] \notin keys'
    /\ pc'[h] \in {"findEmail", "insert", "link"} =>
        /\ profile'[h].email \in Email /\ profile'[h].google \in GoogleId \union {None}
        /\ kind'[h] = "register" <=> profile'[h].google = None
    /\ pc'[h] \in {"findEmail", "link"} => profile'[h].google # None

LEMMA CallersMove ==
    ASSUME CallsInv, NEW h \in Handler, CallerStep(h)
    PROVE  \A g \in Handler : CallerOK(g)'
<1>1. \A g \in Handler : Provisioning(g) => acc[g] \in Rows
  BY DEF CallsInv, IInv, HandlerOK, AtRow, Provisioning
<1>2. ASSUME NEW g \in Handler, NEW k \in Handler, Provisioning(g)', Provisioning(k)', acc'[g] = acc'[k]
      PROVE  g = k
  <2>1. CASE g # h /\ k # h
    BY <1>2, <2>1 DEF CallerStep, CallsInv, CallerOK, Provisioning
  <2>2. CASE g = h /\ k # h
    BY <1>1, <1>2, <2>2 DEF CallerStep, CallsInv, CallerOK, Provisioning
  <2>3. CASE g # h /\ k = h
    BY <1>1, <1>2, <2>3 DEF CallerStep, CallsInv, CallerOK, Provisioning
  <2> QED
    BY <2>1, <2>2, <2>3
<1>3. ASSUME NEW g \in Handler, g # h, pc[g] \in {"did", "key"} PROVE acc[g] \notin keys'
  <2>1. Provisioning(g) /\ acc[g] \notin keys
    BY <1>3 DEF Provisioning, CallsInv, CallerOK
  <2>2. Provisioning(h) => acc[g] # acc[h]
    BY <1>3, <2>1 DEF CallsInv, CallerOK
  <2> QED
    BY <2>1, <2>2 DEF CallerStep
<1>4. ASSUME NEW g \in Handler PROVE CallerOK(g)'
  <2>1. CASE g = h
    BY <1>2, <2>1 DEF CallerStep, CallerOK
  <2>2. CASE g # h
    BY <1>2, <1>3, <2>2 DEF CallerStep, CallerOK, CallsInv
  <2> QED
    BY <2>1, <2>2
<1> QED
  BY <1>4

\* A handler that is at none of those awaits after the step.
LEMMA ElsewhereStep ==
    ASSUME LocalsShaped, NEW h \in Handler, pc'[h] \in {"idle", "session", "token", "mail", "verify"},
           keys' \subseteq keys \union {acc[h]}, keys' # keys => Provisioning(h),
           \A g \in Handler \ {h} :
               pc'[g] = pc[g] /\ acc'[g] = acc[g] /\ profile'[g] = profile[g] /\ kind'[g] = kind[g]
    PROVE  CallerStep(h)
BY DEF CallerStep, Provisioning

LEMMA FinishCaller ==
    ASSUME LocalsShaped, NEW h \in Handler, Finish(h), keys' = keys
    PROVE  CallerStep(h)
BY ElsewhereStep DEF LocalsShaped, Finish, Goto

LEMMA ContinueCaller ==
    ASSUME LocalsShaped, NEW h \in Handler, NEW label \in {"session", "token", "verify"}, Continue(h, label),
           keys' = keys
    PROVE  CallerStep(h)
BY ElsewhereStep DEF LocalsShaped, Continue, Goto

LEMMA AnswerCaller ==
    ASSUME LocalsShaped, NEW h \in Handler, NEW last, AnswerOrSession(h, last), keys' = keys
    PROVE  CallerStep(h)
BY FinishCaller, ContinueCaller DEF AnswerOrSession

LEMMA StartCaller ==
    ASSUME LocalsShaped, NEW h \in Handler, NEW label, NEW request, NEW p, NEW i,
           Start(h, label, request, p, i), keys' = keys,
           label \in {"session", "token", "verify"} \/
               /\ label \in {"insert", "findEmail"}
               /\ p.email \in Email /\ p.google \in GoogleId \union {None}
               /\ request = "register" <=> p.google = None
               /\ label = "findEmail" => p.google # None
    PROVE  CallerStep(h)
<1>1. /\ pc'[h] = label /\ kind'[h] = request /\ profile'[h] = p
      /\ \A g \in Handler \ {h} :
           pc'[g] = pc[g] /\ acc'[g] = acc[g] /\ profile'[g] = profile[g] /\ kind'[g] = kind[g]
  BY DEF LocalsShaped, Start, Goto
<1> QED
  BY <1>1 DEF CallerStep, Provisioning

LEMMA RequestCaller ==
    ASSUME CallsInv, NEW h \in Handler, NEW e, NEW pw, NEW info, NEW m,
           \/ Register(h, e, pw) \/ Login(h, e, pw) \/ ResendVerification(h, e)
           \/ info \in UserInfo /\ GoogleCallback(h, info)
           \/ VerifyEmail(h, m)
    PROVE  CallerStep(h) /\ UNCHANGED <<tables, password>>
<1>1. LocalsShaped
  BY DEF CallsInv, IInv
<1>2. CASE Register(h, e, pw)
  <2>1. e \in Email /\ Start(h, "insert", "register", [NoProfile EXCEPT !.email = e], NoId)
    BY <1>2 DEF Register, requireEmailPassword, ValidEmail
  <2>2. [NoProfile EXCEPT !.email = e].email = e /\ [NoProfile EXCEPT !.email = e].google = None
    BY DEF NoProfile
  <2>3. UNCHANGED <<tables, password, keys>>
    BY <1>2 DEF Register, tables, accounts
  <2> QED
    BY <1>1, <2>1, <2>2, <2>3, StartCaller
<1>3. CASE Login(h, e, pw)
  <2>1. PICK i : Start(h, "session", "login", NoProfile, i)
    BY <1>3 DEF Login
  <2>2. UNCHANGED <<tables, password, keys>>
    BY <1>3 DEF Login, tables, accounts
  <2> QED
    BY <1>1, <2>1, <2>2, StartCaller
<1>4. CASE ResendVerification(h, e)
  <2>1. PICK i : Start(h, "token", "resend", NoProfile, i)
    BY <1>4 DEF ResendVerification
  <2>2. UNCHANGED <<tables, password, keys>>
    BY <1>4 DEF ResendVerification, tables, accounts
  <2> QED
    BY <1>1, <2>1, <2>2, StartCaller
<1>5. CASE info \in UserInfo /\ GoogleCallback(h, info)
  <2> DEFINE p == [email |-> info.email, google |-> info.sub, trusted |-> info.email_verified = TRUE]
  <2>1. p.email \in Email /\ p.google \in GoogleId /\ p.google # None /\ GoogleSignIn(h, p)
    BY <1>5 DEF GoogleCallback, UserInfo
  <2> HIDE DEF p
  <2>2. UNCHANGED <<tables, password, keys>>
    BY <2>1 DEF GoogleSignIn, tables, accounts
  <2>3. CASE \E i \in WithGoogleId(p.google) : Start(h, "session", "login", NoProfile, i)
    <3>1. PICK i : Start(h, "session", "login", NoProfile, i)
      BY <2>3
    <3> QED
      BY <1>1, <2>2, <3>1, StartCaller
  <2>4. CASE Start(h, "findEmail", "google", p, NoId)
    BY <1>1, <2>1, <2>2, <2>4, StartCaller
  <2> QED
    BY <2>1, <2>3, <2>4 DEF GoogleSignIn
<1>6. CASE VerifyEmail(h, m)
  <2>1. PICK i : Start(h, "verify", "verifyEmail", NoProfile, i)
    BY <1>6 DEF VerifyEmail
  <2>2. UNCHANGED <<tables, password, keys>>
    BY <1>6 DEF VerifyEmail, tables, accounts
  <2> QED
    BY <1>1, <2>1, <2>2, StartCaller
<1> QED
  BY <1>2, <1>3, <1>4, <1>5, <1>6

\* The steps that change no table of the accounts, but perhaps that of the keys.
LEMMA QuietCaller ==
    ASSUME CallsInv, NEW h \in Handler,
           \/ InsertRefused(h) \/ LinkRefused(h) \/ IssueSession(h) \/ Abort(h)
           \/ FindByEmail(h) \/ CreateDid(h) \/ CreateKey(h) \/ SendMail(h)
    PROVE  CallerStep(h) /\ UNCHANGED <<accounts, generated>>
<1>1. LocalsShaped /\ keys \subseteq Rows
  BY DEF CallsInv, IInv, TablesOK
<1>2. CASE InsertRefused(h) \/ LinkRefused(h) \/ IssueSession(h) \/ Abort(h)
  BY <1>1, <1>2, FinishCaller DEF InsertRefused, LinkRefused, IssueSession, Abort
<1>3. CASE FindByEmail(h)
  <2>1. keys' = keys /\ UNCHANGED <<accounts, generated>> /\ pc[h] = "findEmail"
    BY <1>3 DEF FindByEmail
  <2>2. CASE Finish(h)
    BY <1>1, <2>1, <2>2, FinishCaller
  <2>3. ASSUME NEW label \in {"insert", "link"}, Goto(h, label), UNCHANGED <<kind, profile>>,
               \A g \in Handler \ {h} : acc'[g] = acc[g]
        PROVE  CallerStep(h)
    BY <1>1, <2>1, <2>3 DEF CallsInv, CallerOK, CallerStep, Goto, LocalsShaped, Provisioning
  <2>4. CASE Continue(h, "insert")
    BY <2>1, <2>3, <2>4 DEF Continue
  <2> DEFINE found(i) == /\ Goto(h, "link") /\ acc' = [acc EXCEPT ![h] = i]
                         /\ UNCHANGED <<kind, profile, raw>>
  <2>5. ASSUME NEW i, found(i) PROVE CallerStep(h)
    <3>1. \A g \in Handler \ {h} : acc'[g] = acc[g]
      BY <1>1, <2>5 DEF LocalsShaped
    <3> QED
      BY <2>3, <2>5, <3>1
  <2>6. Continue(h, "insert") \/ Finish(h) \/ \E i : found(i)
    BY <1>3 DEF FindByEmail
  <2> HIDE DEF found
  <2> QED
    BY <2>1, <2>2, <2>4, <2>5, <2>6
<1>4. CASE CreateDid(h)
  <2>1. pc[h] = "did" /\ keys' = keys /\ UNCHANGED <<accounts, generated, kind, profile, acc>>
        /\ Goto(h, "key")
    BY <1>4 DEF CreateDid, Continue
  <2> QED
    BY <1>1, <2>1 DEF CallsInv, CallerOK, CallerStep, Goto, LocalsShaped, Provisioning
<1>5. CASE CreateKey(h)
  <2>1. pc[h] = "key" /\ keys' = keys \union {acc[h]} /\ UNCHANGED <<accounts, generated, kind, profile, acc>>
        /\ Goto(h, "setDid")
    BY <1>5 DEF CreateKey, Continue
  <2> QED
    BY <1>1, <2>1 DEF CallerStep, Goto, LocalsShaped, Provisioning
<1>6. CASE SendMail(h)
  BY <1>1, <1>6, AnswerCaller DEF SendMail
<1> QED
  BY <1>2, <1>3, <1>4, <1>5, <1>6

LEMMA InsertCaller ==
    ASSUME CallsInv, NEW h \in Handler, InsertAccount(h)
    PROVE  /\ CallerStep(h) /\ generated' = generated
           /\ (password \subseteq Rows)'
           /\ (\A i \in Rows : email[i] \in Email /\ google[i] \in GoogleId \union {None})'
<1> DEFINE i == created + 1
<1>1. /\ created' = i /\ i \in Id /\ i \in Nat
      /\ email' = [email EXCEPT ![i] = profile[h].email]
      /\ google' = [google EXCEPT ![i] = profile[h].google]
      /\ password' \subseteq password \union {i}
      /\ UNCHANGED <<keys, generated, kind, profile>>
      /\ pc[h] = "insert" /\ acc' = [acc EXCEPT ![h] = i] /\ Goto(h, "did")
  BY DEF InsertAccount, CallsInv, IInv, TablesShaped
<1>2. Rows' = Rows \union {i} /\ i \notin Rows /\ Rows \subseteq Id
  BY <1>1 DEF Rows, CallsInv, IInv, TablesShaped
<1>3. DOMAIN email = Id /\ DOMAIN google = Id /\ keys \subseteq Rows /\ LocalsShaped
  BY DEF CallsInv, IInv, TablesShaped, TablesOK
<1>4. profile[h].email \in Email /\ profile[h].google \in GoogleId \union {None}
  BY <1>1 DEF CallsInv, CallerOK
<1> HIDE DEF i
<1>5. CallerStep(h)
  BY <1>1, <1>2, <1>3 DEF CallerStep, Goto, LocalsShaped, Provisioning
<1>6. (password \subseteq Rows)'
  BY <1>1, <1>2 DEF CallsInv
<1>7. (\A j \in Rows : email[j] \in Email /\ google[j] \in GoogleId \union {None})'
  BY <1>1, <1>2, <1>3, <1>4 DEF CallsInv
<1> QED
  BY <1>1, <1>5, <1>6, <1>7

LEMMA UpdateCaller ==
    ASSUME CallsInv, NEW h \in Handler,
           SetIssuerDid(h) \/ LinkGoogleId(h) \/ MarkEmailVerified(h) \/ SetVerificationToken(h)
    PROVE  /\ CallerStep(h) /\ UNCHANGED <<created, email, password>> /\ generated' <= MaxMails
           /\ \A i \in Rows : google'[i] \in GoogleId \union {None}
<1>1. LocalsShaped /\ DOMAIN google = Id /\ generated \in Nat /\ generated <= MaxMails
      /\ \A i \in Rows : google[i] \in GoogleId \union {None}
  BY DEF CallsInv, IInv, TablesShaped
<1>2. CASE SetIssuerDid(h)
  <2>1. PICK label \in {"session", "token", "verify"} : Continue(h, label)
    BY <1>2 DEF SetIssuerDid, AfterSetDid
  <2>2. UNCHANGED <<created, email, google, password, keys, generated>>
    BY <1>2 DEF SetIssuerDid
  <2> QED
    BY <1>1, <2>1, <2>2, ContinueCaller
<1>3. CASE LinkGoogleId(h)
  <2>1. PICK label \in {"session", "verify"} : Continue(h, label)
    BY <1>3 DEF LinkGoogleId
  <2>2. /\ UNCHANGED <<created, email, password, keys, generated>>
        /\ google' = [google EXCEPT ![acc[h]] = profile[h].google] /\ pc[h] = "link"
    BY <1>3 DEF LinkGoogleId
  <2>3. profile[h].google \in GoogleId \union {None}
    BY <2>2 DEF CallsInv, CallerOK
  <2>4. \A i \in Rows : google'[i] \in GoogleId \union {None}
    BY <1>1, <2>2, <2>3
  <2> QED
    BY <1>1, <2>1, <2>2, <2>4, ContinueCaller
<1>4. CASE MarkEmailVerified(h)
  BY <1>1, <1>4, AnswerCaller DEF MarkEmailVerified
<1>5. CASE SetVerificationToken(h)
  <2>1. /\ Goto(h, "mail") /\ generated < MaxMails /\ generated' = generated + 1
        /\ UNCHANGED <<created, email, google, password, keys, kind, profile, acc>>
    BY <1>5 DEF SetVerificationToken
  <2>2. CallerStep(h)
    BY <1>1, <2>1, ElsewhereStep DEF Goto, LocalsShaped
  <2> QED
    BY <1>1, <2>1, <2>2
<1> QED
  BY <1>2, <1>3, <1>4, <1>5

LEMMA NextCallsInv ==
    CallsInv /\ [Next]_vars => CallsInv'
<1> SUFFICES ASSUME CallsInv, [Next]_vars PROVE CallsInv'
  OBVIOUS
<1>1. IInv'
  BY NextIInv DEF CallsInv
<1>2. ASSUME NEW h \in Handler, CallerStep(h), UNCHANGED <<accounts, generated>>
      PROVE  CallsInv'
  BY <1>1, <1>2, CallersMove DEF CallsInv, accounts, Rows
<1>3. ASSUME NEW h \in Handler, InsertAccount(h) PROVE CallsInv'
  BY <1>1, <1>3, InsertCaller, CallersMove DEF CallsInv
<1>4. ASSUME NEW h \in Handler,
             SetIssuerDid(h) \/ LinkGoogleId(h) \/ MarkEmailVerified(h) \/ SetVerificationToken(h)
      PROVE  CallsInv'
  BY <1>1, <1>4, UpdateCaller, CallersMove DEF CallsInv, Rows
<1>5. ASSUME NEW h \in Handler, HandlerStep(h) \/ Abort(h) PROVE CallsInv'
  BY <1>2, <1>3, <1>4, <1>5, QuietCaller DEF HandlerStep
<1>6. ASSUME NEW h \in Handler, NEW e, NEW pw, NEW info, NEW m,
             \/ Register(h, e, pw) \/ Login(h, e, pw) \/ ResendVerification(h, e)
             \/ info \in UserInfo /\ GoogleCallback(h, info)
             \/ VerifyEmail(h, m)
      PROVE  CallsInv'
  <2>1. CallerStep(h) /\ UNCHANGED <<accounts, generated>>
    BY <1>6, RequestCaller DEF tables
  <2> QED
    BY <1>2, <2>1
<1>7. CASE UNCHANGED vars
  BY <1>1, <1>7 DEF CallsInv, CallerOK, Provisioning, Rows, vars, accounts, locals
<1> QED
  BY <1>5, <1>6, <1>7 DEF Next

LEMMA StoredRows ==
    ASSUME NullIsNoValue, CallsInv
    PROVE  /\ \A i \in Rows : StoredRow(i) # None
           /\ Rows \subseteq Id /\ None \notin Id
           /\ Calls!Account = Rows
<1>1. Rows \subseteq Id /\ None \notin Id
  BY DEF NullIsNoValue, CallsInv, IInv, TablesShaped, Rows
<1>2. ASSUME NEW i \in Rows PROVE StoredRow(i) # None
  <2>1. email[i] \in Email /\ google[i] \in GoogleId \union {None}
    BY DEF CallsInv
  <2>2. vtoken[i] \in VerificationToken \union {NoToken}
    BY <1>1 DEF CallsInv, IInv, TablesShaped, TablesOK, VerificationToken
  <2>3. StoredRow(i) \in Calls!AccountRow
    BY <1>1, <2>1, <2>2 DEF StoredRow, Calls!AccountRow
  <2> QED
    BY <2>3 DEF NullIsNoValue
<1>3. Calls!Account = Rows
  BY <1>1, <1>2 DEF Calls!Account, Calls!Existing, AccountTable
<1> QED
  BY <1>1, <1>2, <1>3

\* A call that is done stores the row, whose e-mail and Google identity no other has.
LEMMA StoredUnique ==
    ASSUME NullIsNoValue, CallsInv, CallsInv', NEW i \in Rows',
           Rows' \subseteq Rows \union {i}, Rows \subseteq Rows',
           \A j \in Rows \ {i} : StoredRow(j)' = StoredRow(j), NEW row, row = StoredRow(i)'
    PROVE  /\ AccountTable' = [AccountTable EXCEPT ![i] = row]
           /\ Calls!Pg!Unique(i, row) /\ Calls!Sq!Unique(i, row)
<1>1. Rows' \subseteq Id /\ None \notin Id
  BY StoredRows DEF NullIsNoValue, CallsInv, IInv, TablesShaped, Rows
<1>2. AccountTable' = [AccountTable EXCEPT ![i] = row]
  BY <1>1 DEF AccountTable
<1>3. ASSUME NEW j \in Rows \ {i}
      PROVE  /\ AccountTable[j].email # row.email
             /\ row.google # None => AccountTable[j].google # row.google
             /\ row.did # None => AccountTable[j].did # row.did
  <2>1. AccountTable[j] = StoredRow(j)'
    BY <1>1 DEF AccountTable
  <2>2. email'[j] # email'[i] /\ (google'[i] # None => google'[j] # google'[i])
    BY DEF CallsInv, IInv, TablesOK, OneAccountPerIdentity
  <2>3. row.did \in {i, None} /\ StoredRow(j)'.did \in {j, None}
    BY DEF StoredRow
  <2>4. /\ StoredRow(j)'.email = email'[j] /\ StoredRow(j)'.google = google'[j]
        /\ row.email = email'[i] /\ row.google = google'[i]
    BY DEF StoredRow
  <2> QED
    BY <1>1, <2>1, <2>2, <2>3, <2>4
<1>4. \A j \in Calls!Pg!Existing(AccountTable) : j \in Rows
  BY DEF Calls!Pg!Existing, AccountTable
<1>5. \A j \in Calls!Sq!Existing(AccountTable) : j \in Rows
  BY DEF Calls!Sq!Existing, AccountTable
<1> QED
  BY <1>2, <1>3, <1>4, <1>5 DEF Calls!Pg!Unique, Calls!Sq!Unique

LEMMA UpdateCall ==
    ASSUME NullIsNoValue, CallsInv, CallsInv', NEW i \in Rows, NEW patch,
           UNCHANGED <<created, keys>>, \A j \in Rows \ {i} : StoredRow(j)' = StoredRow(j),
           DOMAIN patch \subseteq Calls!Sq!UpdatableColumns,
           StoredRow(i)' = Calls!Patched(StoredRow(i), patch)
    PROVE  Calls!Update(i, patch)
<1> DEFINE row == Calls!Patched(StoredRow(i), patch)
<1>1. Rows' = Rows /\ Rows \subseteq Id
  BY StoredRows DEF Rows
<1>2. AccountTable' = [AccountTable EXCEPT ![i] = row] /\ Calls!Pg!Unique(i, row) /\ Calls!Sq!Unique(i, row)
  BY <1>1, StoredUnique
<1>3. AccountTable[i] = StoredRow(i) /\ i \in Calls!Account
  BY <1>1, StoredRows DEF AccountTable
<1>4. KeyTable' = KeyTable /\ RowsByAccount' = RowsByAccount
  BY DEF KeyTable, RowsByAccount
<1>5. [c \in DOMAIN patch \intersect Calls!Sq!UpdatableColumns |-> patch[c]]
      = [c \in DOMAIN patch |-> patch[c]]
  OBVIOUS
<1>6. Calls!Patched(AccountTable[i], [c \in DOMAIN patch |-> patch[c]]) = row
  BY <1>3 DEF Calls!Patched
<1>7. Calls!Patched(AccountTable[i], patch) = row
  BY <1>3
<1> HIDE DEF row
<1>8. Calls!Pg!Update(i, patch)
  BY <1>2, <1>3, <1>4, <1>7
     DEF Calls!Pg!Update, Calls!Pg!Store, Calls!Pg!Patched, Calls!Patched, Calls!Pg!Existing,
         Calls!Account, Calls!Existing, NoSessions, NoLinks
<1>9. Calls!Sq!Update(i, patch)
  BY <1>2, <1>3, <1>4, <1>5, <1>6
     DEF Calls!Sq!Update, Calls!Sq!Patched, Calls!Patched, Calls!Sq!Existing,
         Calls!Account, Calls!Existing, NoSessions, NoLinks
<1>10. Calls!Mem!Update(i, patch)
  BY <1>2, <1>3, <1>4, <1>7
     DEF Calls!Mem!Update, Calls!Mem!Patched, Calls!Patched, Calls!Mem!Existing,
         Calls!Account, Calls!Existing, NoSessions, NoLinks
<1> QED
  BY <1>8, <1>9, <1>10 DEF Calls!Update

\* Each step that writes a table of the accounts is a call.
LEMMA InsertCall ==
    ASSUME NullIsNoValue, CallsInv, CallsInv', NEW h \in Handler, InsertAccount(h)
    PROVE  Calls!CreateAccount(profile[h].email, profile[h].google)
<1> DEFINE row == Calls!NewAccount(profile[h].email, profile[h].google)
<1> created + 1 \in Id
  BY DEF InsertAccount, CallsInv, IInv, TablesShaped
<1>1. PICK i \in Id :
      /\ i = created + 1 /\ created' = i /\ created < MaxAccounts
      /\ email' = [email EXCEPT ![i] = profile[h].email]
      /\ google' = [google EXCEPT ![i] = profile[h].google]
      /\ password' = IF kind[h] = "register" THEN password \union {i} ELSE password
      /\ UNCHANGED <<hasDid, verified, vtoken, keys, generated>> /\ pc[h] = "insert"
  BY DEF InsertAccount, CallsInv, IInv, TablesShaped
<1>2. Rows' = Rows \union {i} /\ i \notin Rows /\ Rows \subseteq Id
  BY <1>1 DEF Rows, CallsInv, IInv, TablesShaped
<1>3. DOMAIN email = Id /\ DOMAIN google = Id
  BY DEF CallsInv, IInv, TablesShaped
<1>4. ASSUME NEW j \in Rows \ {i} PROVE StoredRow(j)' = StoredRow(j)
  <2>1. email'[j] = email[j] /\ google'[j] = google[j] /\ (j \in password' <=> j \in password)
    BY <1>1, <1>2, <1>3
  <2> QED
    BY <1>1, <2>1 DEF StoredRow
<1>5. row = StoredRow(i)'
  <2>1. email'[i] = profile[h].email /\ google'[i] = profile[h].google
    BY <1>1, <1>3
  <2>2. (i \in password') = (profile[h].google = None)
    BY <1>1, <1>2 DEF CallsInv, CallerOK
  <2>3. /\ vtoken'[i] = NoToken /\ (vtoken'[i] # NoToken) = FALSE
        /\ i \notin hasDid' /\ (i \in verified') = FALSE
    BY <1>1, <1>2 DEF CallsInv, IInv, TablesOK
  <2> QED
    BY <2>1, <2>2, <2>3 DEF StoredRow, Calls!NewAccount
<1> HIDE DEF row
<1>6. AccountTable' = [AccountTable EXCEPT ![i] = row] /\ Calls!Pg!Unique(i, row) /\ Calls!Sq!Unique(i, row)
  BY <1>2, <1>4, <1>5, StoredUnique
<1>7. KeyTable' = KeyTable /\ RowsByAccount' = RowsByAccount
  BY <1>1 DEF KeyTable, RowsByAccount
<1>8. /\ Calls!Pg!CreateAccount(i, row) /\ Calls!Sq!CreateAccount(i, row)
      /\ Calls!Mem!CreateAccount(i, row)
  BY <1>6, <1>7
     DEF Calls!Pg!CreateAccount, Calls!Pg!Store, Calls!Sq!CreateAccount, Calls!Mem!CreateAccount,
         NoSessions, NoLinks
<1> QED
  BY <1>1, <1>8 DEF Calls!CreateAccount, row

LEMMA KeyCall ==
    ASSUME NullIsNoValue, CallsInv, NEW h \in Handler, CreateKey(h)
    PROVE  acc[h] \in Rows /\ Calls!CreateKey(acc[h])
<1> DEFINE a == acc[h]
<1>1. a \in Rows /\ a \notin keys /\ keys' = keys \union {a} /\ UNCHANGED <<accounts, generated>>
  BY DEF CreateKey, CallsInv, CallerOK, IInv, HandlerOK, AtRow
<1> HIDE DEF a
<1>2. AccountTable' = AccountTable
  BY <1>1 DEF AccountTable, StoredRow, Rows, accounts
<1>3. KeyTable' = KeyTable \union {<<a, a>>} /\ RowsByAccount' = [RowsByAccount EXCEPT ![a] = a]
  BY <1>1, StoredRows DEF KeyTable, RowsByAccount
<1>4. \A k \in KeyTable : k = <<k[1], k[1]>> /\ k[1] # a /\ k[2] # a
  BY <1>1 DEF KeyTable
<1>5. Calls!Pg!FindKey(a) = None
  BY <1>4 DEF Calls!Pg!FindKey
<1>6. a \in Calls!Pg!Existing(AccountTable)
  BY <1>1, StoredRows DEF Calls!Account, Calls!Existing, Calls!Pg!Existing
<1>7. Calls!Pg!CreateKey(a, a) /\ Calls!Sq!CreateKey(a, a) /\ Calls!Mem!CreateKey(a, a)
  BY <1>2, <1>3, <1>4, <1>6
     DEF Calls!Pg!CreateKey, Calls!Sq!CreateKey, Calls!Mem!CreateKey, NoSessions, NoLinks
<1>8. created' = created /\ generated' = generated
  BY <1>1 DEF accounts
<1> QED
  BY <1>1, <1>5, <1>7, <1>8 DEF Calls!CreateKey, a

LEMMA SetIssuerDidCall ==
    ASSUME NullIsNoValue, CallsInv, CallsInv', NEW h \in Handler, SetIssuerDid(h)
    PROVE  acc[h] \in Rows /\ Calls!RecordDid(acc[h])
<1>1. PICK i \in Rows : i = acc[h] /\ hasDid' = hasDid \union {i}
      /\ UNCHANGED <<created, email, google, password, verified, vtoken, keys, generated>>
  BY DEF SetIssuerDid, CallsInv, IInv, HandlerOK, AtRow
<1>2. \A j \in Rows \ {i} : StoredRow(j)' = StoredRow(j)
  BY <1>1 DEF StoredRow
<1>3. StoredRow(i)' = Calls!Patched(StoredRow(i), Calls!SetIssuerDid(i))
  BY <1>1 DEF StoredRow, Calls!Patched, Calls!SetIssuerDid
<1>4. DOMAIN Calls!SetIssuerDid(i) \subseteq Calls!Sq!UpdatableColumns
  BY DEF Calls!SetIssuerDid, Calls!Sq!UpdatableColumns
<1>5. Calls!Update(i, Calls!SetIssuerDid(i))
  BY <1>1, <1>2, <1>3, <1>4, UpdateCall
<1> QED
  BY <1>1, <1>5 DEF Calls!RecordDid

LEMMA LinkGoogleIdCall ==
    ASSUME NullIsNoValue, CallsInv, CallsInv', NEW h \in Handler, LinkGoogleId(h)
    PROVE  /\ acc[h] \in Rows /\ profile[h].google \in GoogleId
           /\ Calls!LinkGoogle(acc[h], profile[h].google)
<1>1. PICK i \in Rows, g \in GoogleId :
      /\ i = acc[h] /\ g = profile[h].google /\ google' = [google EXCEPT ![i] = g]
      /\ UNCHANGED <<created, email, password, hasDid, verified, vtoken, keys, generated>>
  BY DEF LinkGoogleId, CallsInv, CallerOK, IInv, HandlerOK, AtRow
<1>2. DOMAIN google = Id /\ Rows \subseteq Id
  BY StoredRows DEF CallsInv, IInv, TablesShaped
<1>3. \A j \in Rows \ {i} : StoredRow(j)' = StoredRow(j)
  BY <1>1, <1>2 DEF StoredRow
<1>4. google'[i] = g
  BY <1>1, <1>2
<1>5. StoredRow(i)' = Calls!Patched(StoredRow(i), Calls!LinkGoogleId(g))
  BY <1>1, <1>4 DEF StoredRow, Calls!Patched, Calls!LinkGoogleId
<1>6. DOMAIN Calls!LinkGoogleId(g) \subseteq Calls!Sq!UpdatableColumns
  BY DEF Calls!LinkGoogleId, Calls!Sq!UpdatableColumns
<1>7. Calls!Update(i, Calls!LinkGoogleId(g))
  BY <1>1, <1>3, <1>5, <1>6, UpdateCall
<1> QED
  BY <1>1, <1>7 DEF Calls!LinkGoogle

LEMMA MarkEmailVerifiedCall ==
    ASSUME NullIsNoValue, CallsInv, CallsInv', NEW h \in Handler, MarkEmailVerified(h)
    PROVE  acc[h] \in Rows /\ Calls!Verify(acc[h])
<1>1. PICK i \in Rows :
      /\ i = acc[h] /\ verified' = verified \union {i} /\ vtoken' = [vtoken EXCEPT ![i] = NoToken]
      /\ UNCHANGED <<created, email, google, password, hasDid, keys, generated>>
  BY DEF MarkEmailVerified, Marked, CallsInv, IInv, HandlerOK, AtRow
<1>2. DOMAIN vtoken = Id /\ Rows \subseteq Id
  BY StoredRows DEF CallsInv, IInv, TablesShaped
<1>3. \A j \in Rows \ {i} : StoredRow(j)' = StoredRow(j)
  BY <1>1, <1>2 DEF StoredRow
<1>4. vtoken'[i] = NoToken
  BY <1>1, <1>2
<1>5. StoredRow(i)' = Calls!Patched(StoredRow(i), Calls!MarkEmailVerified)
  <2> DEFINE patch(v, x) == [verified |-> v, hash |-> None, expires |-> x]
             row(v, x) == [email |-> email[i], password |-> i \in password, google |-> google[i],
                           did |-> IF i \in hasDid THEN i ELSE None, verified |-> v,
                           hash |-> None, expires |-> x]
  <2>1. PICK yes, no : yes = TRUE /\ no = FALSE
    OBVIOUS
  <2>2. StoredRow(i)' = row(yes, no)
    <3>1. (vtoken'[i] # NoToken) = FALSE /\ (i \in verified') = TRUE
      BY <1>1, <1>4
    <3> QED
      BY <1>1, <1>4, <2>1, <3>1 DEF StoredRow
  <2>3. Calls!MarkEmailVerified = patch(yes, no)
    BY <2>1 DEF Calls!MarkEmailVerified
  <2>4. Calls!Patched(StoredRow(i), patch(yes, no)) = row(yes, no)
    BY DEF StoredRow, Calls!Patched
  <2> QED
    BY <2>2, <2>3, <2>4
<1>6. DOMAIN Calls!MarkEmailVerified \subseteq Calls!Sq!UpdatableColumns
  BY DEF Calls!MarkEmailVerified, Calls!Sq!UpdatableColumns
<1>7. Calls!Update(i, Calls!MarkEmailVerified)
  BY <1>1, <1>3, <1>5, <1>6, UpdateCall
<1> QED
  BY <1>1, <1>7 DEF Calls!Verify

LEMMA SetVerificationTokenCall ==
    ASSUME NullIsNoValue, CallsInv, CallsInv', NEW h \in Handler, SetVerificationToken(h)
    PROVE  \E i \in Rows, n \in VerificationToken : Calls!SendToken(i, n)
<1> acc[h] \in Rows /\ generated + 1 \in VerificationToken
  BY DEF SetVerificationToken, CallsInv, IInv, HandlerOK, AtRow, TablesShaped, VerificationToken
<1>1. PICK i \in Rows, n \in VerificationToken :
      /\ i = acc[h] /\ n = generated + 1 /\ generated' = n /\ vtoken' = [vtoken EXCEPT ![i] = n]
      /\ UNCHANGED <<created, email, google, password, hasDid, verified, keys>>
  BY DEF SetVerificationToken
<1>2. DOMAIN vtoken = Id /\ Rows \subseteq Id
  BY StoredRows DEF CallsInv, IInv, TablesShaped
<1>3. /\ n \notin 1 .. generated /\ n # NoToken
      /\ 1 .. n = 1 .. generated \union {n}
  BY <1>1 DEF CallsInv, IInv, TablesShaped, VerificationToken
<1>4. \A j \in Rows \ {i} : StoredRow(j)' = StoredRow(j)
  BY <1>1, <1>2 DEF StoredRow
<1>5. vtoken'[i] = n
  BY <1>1, <1>2
<1>6. StoredRow(i)' = Calls!Patched(StoredRow(i), Calls!SetEmailVerificationToken(n))
  <2> DEFINE patch(x) == [hash |-> n, expires |-> x]
             row(x) == [email |-> email[i], password |-> i \in password, google |-> google[i],
                        did |-> IF i \in hasDid THEN i ELSE None, verified |-> i \in verified,
                        hash |-> n, expires |-> x]
  <2>1. PICK yes : yes = TRUE
    OBVIOUS
  <2>2. StoredRow(i)' = row(yes)
    <3>1. vtoken'[i] # NoToken /\ (vtoken'[i] # NoToken) = TRUE
      BY <1>3, <1>5
    <3> QED
      BY <1>1, <1>5, <2>1, <3>1 DEF StoredRow
  <2>3. Calls!SetEmailVerificationToken(n) = patch(yes)
    BY <2>1 DEF Calls!SetEmailVerificationToken
  <2>4. Calls!Patched(StoredRow(i), patch(yes)) = row(yes)
    BY DEF StoredRow, Calls!Patched
  <2> QED
    BY <2>2, <2>3, <2>4
<1>7. DOMAIN Calls!SetEmailVerificationToken(n) \subseteq Calls!Sq!UpdatableColumns
  BY DEF Calls!SetEmailVerificationToken, Calls!Sq!UpdatableColumns
<1>8. Calls!Update(i, Calls!SetEmailVerificationToken(n))
  BY <1>1, <1>4, <1>6, <1>7, UpdateCall
<1>9. Calls!SendToken(i, n)
  BY <1>1, <1>3, <1>8 DEF Calls!SendToken
<1> QED
  BY <1>1, <1>3, <1>9

\* The other steps leave the tables as they are.
LEMMA NoCall ==
    ASSUME UNCHANGED <<accounts, keys, generated>>
    PROVE  UNCHANGED Calls!vars
BY DEF Calls!vars, Calls!pg, Calls!sq, Calls!mem, AccountTable, StoredRow, KeyTable, RowsByAccount,
       NoSessions, NoLinks, Rows, accounts

LEMMA NextCall ==
    ASSUME NullIsNoValue, CallsInv, CallsInv', [Next]_vars
    PROVE  [Calls!Next]_(Calls!vars)
<1>1. ASSUME NEW h \in Handler, InsertAccount(h) PROVE Calls!Next
  <2>1. profile[h].email \in Email /\ profile[h].google \in GoogleId \union {None}
    BY <1>1 DEF InsertAccount, CallsInv, CallerOK
  <2> QED
    BY <1>1, <2>1, InsertCall DEF Calls!Next
<1>2. ASSUME NEW h \in Handler, CreateKey(h) PROVE Calls!Next
  BY <1>2, KeyCall, StoredRows DEF Calls!Next
<1>3. ASSUME NEW h \in Handler, SetIssuerDid(h) PROVE Calls!Next
  BY <1>3, SetIssuerDidCall, StoredRows DEF Calls!Next
<1>4. ASSUME NEW h \in Handler, LinkGoogleId(h) PROVE Calls!Next
  BY <1>4, LinkGoogleIdCall, StoredRows DEF Calls!Next
<1>5. ASSUME NEW h \in Handler, MarkEmailVerified(h) PROVE Calls!Next
  BY <1>5, MarkEmailVerifiedCall, StoredRows DEF Calls!Next
<1>6. ASSUME NEW h \in Handler, SetVerificationToken(h) PROVE Calls!Next
  BY <1>6, SetVerificationTokenCall, StoredRows DEF Calls!Next
<1>7. ASSUME NEW h \in Handler,
             \/ InsertRefused(h) \/ LinkRefused(h) \/ IssueSession(h) \/ Abort(h)
             \/ FindByEmail(h) \/ CreateDid(h) \/ SendMail(h)
      PROVE  UNCHANGED Calls!vars
  <2>1. UNCHANGED <<accounts, keys, generated>>
    BY <1>7 DEF InsertRefused, LinkRefused, IssueSession, Abort, FindByEmail, CreateDid, SendMail
  <2> QED
    BY <2>1, NoCall
<1>8. ASSUME NEW h \in Handler, NEW e, NEW pw, NEW info, NEW m,
             \/ Register(h, e, pw) \/ Login(h, e, pw) \/ ResendVerification(h, e)
             \/ info \in UserInfo /\ GoogleCallback(h, info)
             \/ VerifyEmail(h, m)
      PROVE  UNCHANGED Calls!vars
  BY <1>8, RequestCaller, NoCall DEF tables
<1>9. CASE UNCHANGED vars
  BY <1>9, NoCall DEF vars
<1> QED
  BY <1>1, <1>2, <1>3, <1>4, <1>5, <1>6, <1>7, <1>8, <1>9 DEF Next, HandlerStep

LEMMA InitCall ==
    Init => Calls!Init
<1> SUFFICES ASSUME Init PROVE Calls!Init
  OBVIOUS
<1>1. Rows = {}
  BY DEF Init, Rows
<1>2. AccountTable = Calls!NoRows /\ RowsByAccount = Calls!NoRows /\ KeyTable = {}
  BY <1>1 DEF Init, AccountTable, RowsByAccount, KeyTable, Calls!NoRows
<1>3. created = 0 /\ 1 .. generated = {}
  BY DEF Init
<1> QED
  BY <1>2, <1>3 DEF Calls!Init, Calls!NoLinks, NoLinks, NoSessions, Calls!NoRows

\* However register, Google sign-in, linking and verification interleave and stop,
\* the writes they complete are the calls Drivers makes of a tier, and Postgres,
\* SQLite and memory would each do them: a request updates only a row that exists,
\* sends no verification hash twice and stores one key for an account.
THEOREM AccountsMakeTheseCalls ==
    ASSUME NullIsNoValue
    PROVE  Spec => Calls!Spec
<1>1. CallsInv /\ CallsInv' /\ [Next]_vars => [Calls!Next]_(Calls!vars)
  BY NextCall
<1> QED
  BY <1>1, InitCallsInv, NextCallsInv, InitCall, PTL DEF Spec, Calls!Spec

=============================================================================
