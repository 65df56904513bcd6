---------------------------- MODULE VerifierProofs ----------------------------
(***************************************************************************)
(* Theorems about the server processes that share a database, and about the *)
(* verifier that keeps their answers, for any number of processes, keys,     *)
(* crashes, restarts and changes of configuration.                          *)
(***************************************************************************)
EXTENDS VerifierCache, TLAPS

USE ServerAssumption, ClockAssumption

-----------------------------------------------------------------------------
(* The issuer DID.                                                          *)

\* A process that got past the look-up holds the key of the stored document,
\* which never changes once it is there.
Settled == \A p \in Process : proc[p].pc \in {"listen", "up"} =>
                proc[p].key = issuer /\ issuer # None

\* A process between the start and the look-up's answer holds a key.
Keyed == \A p \in Process : proc[p].pc # "down" => proc[p].key \in Key

ServerShaped ==
    /\ DOMAIN proc = Process
    /\ \A p \in Process : DOMAIN proc[p] = DOMAIN Down
    /\ container \in [Process -> Environment]
    /\ DOMAIN sealed = Account

\* What credentials were signed with is the key of the stored document.
Signed == signers \subseteq {issuer} \intersect Key

ServerInv ==
    /\ ServerShaped
    /\ Keyed
    /\ Settled
    /\ Signed

LEMMA InitServerInv ==
    ServerInit => ServerInv
BY DEF ServerInit, ServerInv, ServerShaped, Keyed, Settled, Signed, Up, Down

LEMMA UnchangedServerInv ==
    ServerInv /\ UNCHANGED serverVars => ServerInv'
BY DEF ServerInv, ServerShaped, Keyed, Settled, Signed, Up, Down, serverVars, made

\* One process moves on to the record r.
LEMMA ProcStep ==
    ASSUME ServerInv, NEW p \in Process, NEW r,
           DOMAIN r = DOMAIN Down,
           r.pc # "down" => r.key \in Key,
           r.pc \in {"listen", "up"} => r.key = issuer' /\ issuer' # None,
           proc' = [proc EXCEPT ![p] = r],
           issuer' = issuer \/ issuer = None,
           container' \in [Process -> Environment],
           UNCHANGED made
    PROVE  ServerInv'
<1>1. proc'[p] = r /\ \A q \in Process : q # p => proc'[q] = proc[q]
  BY DEF ServerInv, ServerShaped
<1>2. ServerShaped'
  BY <1>1 DEF ServerInv, ServerShaped, made
<1>3. Keyed'
  BY <1>1 DEF ServerInv, Keyed
<1>4. Settled'
  BY <1>1 DEF ServerInv, Settled
<1>5. Signed'
  BY DEF ServerInv, Signed, made
<1> QED
  BY <1>2, <1>3, <1>4, <1>5 DEF ServerInv

\* A process ends.
LEMMA DieStep ==
    ASSUME ServerInv, NEW p \in Process, Die(p),
           container' \in [Process -> Environment],
           UNCHANGED <<issuer, made>>
    PROVE  ServerInv'
BY ProcStep DEF Die, Down

\* A process goes on to another part of its start.
LEMMA GotoStep ==
    ASSUME ServerInv, NEW p \in Process, proc[p].pc # "down",
           NEW label \in {"create", "listen"}, Goto(p, label),
           label = "listen" => proc[p].key = issuer' /\ issuer' # None,
           issuer' = issuer \/ issuer = None,
           UNCHANGED <<container, made>>
    PROVE  ServerInv'
<1> DEFINE r == [proc[p] EXCEPT !.pc = label]
<1>1. DOMAIN r = DOMAIN Down /\ r.pc = label /\ r.key = proc[p].key
  BY DEF ServerInv, ServerShaped, Down
<1>2. proc' = [proc EXCEPT ![p] = r]
  BY DEF Goto
<1>3. r.key \in Key
  BY <1>1 DEF ServerInv, Keyed
<1> HIDE DEF r
<1> QED
  BY <1>1, <1>2, <1>3, ProcStep DEF ServerInv, ServerShaped

LEMMA StartStep ==
    ASSUME ServerInv, NEW p \in Process, Start(p)
    PROVE  ServerInv'
<1> DEFINE r == [Down EXCEPT !.pc = "find", !.key = container[p].key]
<1>1. DOMAIN r = DOMAIN Down /\ r.pc = "find" /\ r.key \in Key
  BY DEF ServerInv, ServerShaped, Environment, Down
<1>2. proc' = [proc EXCEPT ![p] = r]
  BY DEF Start
<1> HIDE DEF r
<1> QED
  BY <1>1, <1>2, ProcStep DEF Start, ServerInv, ServerShaped

LEMMA FindIssuerStep ==
    ASSUME ServerInv, NEW p \in Process, FindIssuer(p)
    PROVE  ServerInv'
BY GotoStep, DieStep DEF FindIssuer, IssuerMatches, ServerInv, ServerShaped

LEMMA CreateIssuerStep ==
    ASSUME ServerInv, NEW p \in Process, CreateIssuer(p)
    PROVE  ServerInv'
<1>1. proc[p].key \in Key
  BY DEF CreateIssuer, ServerInv, Keyed
<1> QED
  BY <1>1, GotoStep, DieStep DEF CreateIssuer, CreateOnce, ServerInv, ServerShaped

LEMMA ListenStep ==
    ASSUME ServerInv, NEW p \in Process, Listen(p)
    PROVE  ServerInv'
<1> DEFINE drawn == CHOOSE x \in Random : x \notin InUse
           r == [proc[p] EXCEPT !.pc = "up", !.master = Drawn(p, drawn), !.access = Drawn(p, drawn)]
<1>1. DOMAIN r = DOMAIN Down /\ r.pc = "up" /\ r.key = proc[p].key
      /\ r.master = Drawn(p, drawn) /\ r.access = Drawn(p, drawn)
  BY DEF ServerInv, ServerShaped, Down
<1>2. proc' = [proc EXCEPT ![p] = r]
  <2>1. proc' = [proc EXCEPT ![p].pc = "up", ![p].master = Drawn(p, drawn), ![p].access = Drawn(p, drawn)]
    BY DEF Listen
  <2> HIDE DEF drawn
  <2> QED
    BY <2>1 DEF ServerInv, ServerShaped, Down
<1>3. r.key \in Key /\ r.key = issuer /\ issuer # None
  BY <1>1 DEF Listen, ServerInv, Keyed, Settled
<1> HIDE DEF drawn, r
<1> QED
  BY <1>1, <1>2, <1>3, ProcStep DEF Listen, ServerInv, ServerShaped

LEMMA StopStep ==
    ASSUME ServerInv, NEW p \in Process, Stop(p)
    PROVE  ServerInv'
BY DieStep DEF Stop, ServerInv, ServerShaped

LEMMA ReconfigureStep ==
    ASSUME ServerInv, NEW p \in Process, Reconfigure(p)
    PROVE  ServerInv'
BY DieStep DEF Reconfigure, ServerInv, ServerShaped

\* What a running process makes, with its key or with its secrets.
LEMMA MakeStep ==
    ASSUME ServerInv, NEW p \in Process,
           IssueVC(p) \/ IssueAccess(p) \/ \E a \in Account : Provision(p, a)
    PROVE  ServerInv'
<1>1. p \in Up /\ UNCHANGED <<container, proc, issuer>>
  BY DEF IssueVC, IssueAccess, Provision
<1>2. ServerShaped'
  BY <1>1 DEF IssueVC, IssueAccess, Provision, ServerInv, ServerShaped
<1>3. Signed'
  BY <1>1 DEF IssueVC, IssueAccess, Provision, ServerInv, Signed, Settled, Keyed, Up
<1> QED
  BY <1>1, <1>2, <1>3 DEF ServerInv, Keyed, Settled

LEMMA ExpireAccessStep ==
    ASSUME ServerInv, NEW s \in SecretValue, ExpireAccess(s)
    PROVE  ServerInv'
BY DEF ExpireAccess, ServerInv, ServerShaped, Keyed, Settled, Signed, Up

LEMMA ServerNextInv ==
    ServerInv /\ ServerNext => ServerInv'
BY StartStep, FindIssuerStep, CreateIssuerStep, ListenStep, StopStep, ReconfigureStep, MakeStep,
   ExpireAccessStep DEF ServerNext, Boot

-----------------------------------------------------------------------------
(* The verifier.                                                            *)

\* The list names whatever was revoked more than lag before it was made.
Names(entry, lag) ==
    entry.at \in Nat /\ entry.at =< now
    /\ \A v \in Revoked : revokedAt[v] + lag < entry.at => v \in entry.list

\* The lists that are kept: a process's own, and the verifier's, which may have
\* been kept at the process for as long as it keeps one.
ListsOK ==
    /\ now \in Nat
    /\ DOMAIN revokedAt = Vp
    /\ \A v \in Revoked : revokedAt[v] \in Nat /\ revokedAt[v] =< now
    /\ DOMAIN held = Process
    /\ \A p \in Process : held[p] # None => Names(held[p], 0)
    /\ copy # None => Names(copy, ServerTtl)

\* A request that came in late stays late, and verification does not let it
\* through.
RequestsOK ==
    /\ DOMAIN handling = Request
    /\ \A r \in Request :
        /\ DOMAIN handling[r] = DOMAIN NoRequest
        /\ handling[r].late => Outlived(handling[r].vp)
        /\ handling[r].pc = "store" => ~handling[r].late

VerifierInv == ListsOK /\ RequestsOK /\ LateIsCached

IInv == ServerInv /\ VerifierInv

LEMMA InitVerifierInv ==
    Init => VerifierInv
BY DEF Init, VerifierInit, VerifierInv, ListsOK, Revoked, RequestsOK, LateIsCached, NoRequest

\* Time passes and revocations are recorded with the time: lists that are left
\* alone name what they should, and what had outlived them still has.
LEMMA NamesStay ==
    ASSUME ListsOK, now' \in Nat, now =< now',
           \/ UNCHANGED revokedAt
           \/ \E v \in Vp : v \notin Revoked /\ revokedAt' = [revokedAt EXCEPT ![v] = now]
    PROVE  /\ DOMAIN revokedAt' = Vp
           /\ \A v \in Revoked' : revokedAt'[v] \in Nat /\ revokedAt'[v] =< now'
           /\ \A p \in Process : held[p] # None => Names(held[p], 0)' \/ held'[p] # held[p]
           /\ copy # None => Names(copy, ServerTtl)' \/ copy' # copy
           /\ \A v : Outlived(v) => Outlived(v)'
<1>1. DOMAIN revokedAt' = Vp
  BY DEF ListsOK
<1>2. \A v \in Revoked' : \/ v \in Revoked /\ revokedAt'[v] = revokedAt[v]
                          \/ revokedAt'[v] = now
  BY DEF ListsOK, Revoked
<1>3. \A v \in Revoked : v \in Revoked' /\ revokedAt'[v] = revokedAt[v]
  BY DEF ListsOK, Revoked
<1>4. \A v \in Revoked' : revokedAt'[v] \in Nat /\ revokedAt'[v] =< now'
  BY <1>2 DEF ListsOK
<1>5. ASSUME NEW p \in Process, held[p] # None, held'[p] = held[p] PROVE Names(held[p], 0)'
  BY <1>2, <1>5 DEF ListsOK, Names
<1>6. ASSUME copy # None, copy' = copy PROVE Names(copy, ServerTtl)'
  BY <1>2, <1>6 DEF ListsOK, Names
<1>7. ASSUME NEW v, Outlived(v) PROVE Outlived(v)'
  <2>1. v \in Revoked /\ revokedAt[v] \in Nat
    BY <1>7 DEF Outlived, ListsOK
  <2> QED
    BY <1>3, <1>7, <2>1 DEF Outlived, ListsOK
<1> QED
  BY <1>1, <1>4, <1>5, <1>6, <1>7

\* A step that asks for no list: those kept are left alone or dropped.
LEMMA ListsStay ==
    ASSUME ListsOK, now' \in Nat, now =< now', UNCHANGED copy, DOMAIN held' = Process,
           \A p \in Process : held'[p] \in {held[p], None},
           \/ UNCHANGED revokedAt
           \/ \E v \in Vp : v \notin Revoked /\ revokedAt' = [revokedAt EXCEPT ![v] = now]
    PROVE  ListsOK'
<1>1. ASSUME NEW p \in Process, held'[p] # None PROVE Names(held[p], 0)'
  BY <1>1, NamesStay
<1>2. copy' # None => Names(copy, ServerTtl)'
  BY NamesStay
<1> QED
  BY <1>1, <1>2, NamesStay DEF ListsOK

\* What a process answers with is no older than it may keep a list.
LEMMA FetchStep ==
    ASSUME ListsOK, NEW r \in Request, Fetch(r)
    PROVE  ListsOK'
<1> PICK p \in Up : /\ held' = [held EXCEPT ![p] = Answer(p)]
                    /\ copy' = [at |-> now, list |-> Answer(p).list]
  BY DEF Fetch
<1>1. UNCHANGED <<now, revokedAt>> /\ p \in Process
  BY DEF Fetch, Up
<1>2. Names(Answer(p), 0) /\ now - Answer(p).at =< ServerTtl
  <2>1. CASE Fresh(held[p], ServerTtl)
    BY <1>1, <2>1 DEF Answer, Fresh, ListsOK
  <2>2. CASE ~Fresh(held[p], ServerTtl)
    BY <2>2 DEF Answer, Names, ListsOK
  <2> QED
    BY <2>1, <2>2
<1>3. Names([at |-> now, list |-> Answer(p).list], ServerTtl)
  <2> DEFINE a == Answer(p)
  <2>1. Names(a, 0) /\ now - a.at =< ServerTtl
    BY <1>2
  <2> HIDE DEF a
  <2>2. \A v \in Revoked : revokedAt[v] + ServerTtl < now => v \in a.list
    BY <2>1 DEF Names, ListsOK
  <2>3. now \in Nat
    BY DEF ListsOK
  <2> QED
    BY <2>2, <2>3 DEF Names, a
<1>4. \A q \in Process : held'[q] # None => Names(held'[q], 0)
  BY <1>1, <1>2 DEF ListsOK
<1>5. Revoked' = Revoked
  BY <1>1 DEF Revoked
<1> QED
  BY <1>1, <1>3, <1>4, <1>5 DEF ListsOK, Names

\* Verification lets through nothing whose revocation has outlived the lists.
LEMMA VerifyRejects ==
    ASSUME ListsOK, NEW v, Outlived(v)
    PROVE  ~VerifyVP(v)
<1>1. v \in Revoked /\ revokedAt[v] \in Nat /\ revokedAt[v] + ServerTtl + ClientTtl < now
  BY DEF Outlived, ListsOK
<1> QED
  BY <1>1 DEF VerifyVP, Fresh, ListsOK, Names

LEMMA PresentStep ==
    ASSUME VerifierInv, NEW r \in Request, NEW v \in Vp, Present(r, v)
    PROVE  RequestsOK' /\ LateIsCached'
<1> USE DEF VerifierInv, RequestsOK, LateIsCached
<1>1. UNCHANGED <<now, revokedAt, expired>>
  BY DEF Present, lists
<1>2. \A u : Outlived(u)' <=> Outlived(u)
  BY <1>1 DEF Outlived, Revoked
<1>3. CASE v \in Pruned
  <2> DEFINE g == [vp |-> v, source |-> "cache", late |-> Outlived(v), past |-> v \in expired]
  <2>1. g.source = "cache" /\ ~g.past
    BY <1>3 DEF Pruned
  <2>2. granted' = g /\ UNCHANGED handling
    BY <1>3 DEF Present, Record
  <2> HIDE DEF g
  <2> QED
    BY <1>2, <2>1, <2>2
<1>4. CASE v \notin Pruned
  <2> DEFINE q == [pc |-> "verify", vp |-> v, late |-> Outlived(v)]
  <2>1. DOMAIN q = DOMAIN NoRequest /\ q.pc = "verify" /\ (q.late => Outlived(q.vp))
    BY DEF NoRequest
  <2>2. handling' = [handling EXCEPT ![r] = q] /\ UNCHANGED granted
    BY <1>4 DEF Present
  <2> HIDE DEF q
  <2> QED
    BY <1>2, <2>1, <2>2
<1> QED
  BY <1>3, <1>4

LEMMA VerifyStep ==
    ASSUME VerifierInv, NEW r \in Request, Verify(r)
    PROVE  RequestsOK' /\ LateIsCached'
<1> USE DEF VerifierInv, RequestsOK, LateIsCached
<1>1. UNCHANGED <<now, revokedAt, granted>>
  BY DEF Verify, lists
<1>2. \A u : Outlived(u)' <=> Outlived(u)
  BY <1>1 DEF Outlived, Revoked
<1>3. CASE VerifyVP(handling[r].vp)
  <2>1. handling' = [handling EXCEPT ![r].pc = "store"]
    BY <1>3 DEF Verify
  <2>2. ~handling[r].late
    BY <1>3, VerifyRejects
  <2> QED
    BY <1>1, <1>2, <2>1, <2>2 DEF NoRequest
<1>4. CASE ~VerifyVP(handling[r].vp)
  <2>1. handling' = [handling EXCEPT ![r] = NoRequest]
    BY <1>4 DEF Verify
  <2> QED
    BY <1>1, <1>2, <2>1 DEF NoRequest
<1> QED
  BY <1>3, <1>4

LEMMA StoreStep ==
    ASSUME VerifierInv, NEW r \in Request, Store(r)
    PROVE  RequestsOK' /\ LateIsCached'
<1> USE DEF VerifierInv, RequestsOK, LateIsCached
<1>1. UNCHANGED <<now, revokedAt>> /\ handling' = [handling EXCEPT ![r] = NoRequest]
  BY DEF Store, lists
<1>2. \A u : Outlived(u)' <=> Outlived(u)
  BY <1>1 DEF Outlived, Revoked
<1>3. RequestsOK'
  BY <1>1, <1>2 DEF NoRequest
<1>4. LateIsCached'
  BY DEF Store, Record
<1> QED
  BY <1>3, <1>4

\* Requests and grants that are left alone.
LEMMA RequestsStay ==
    ASSUME VerifierInv, UNCHANGED <<handling, granted>>,
           \A v : Outlived(v) => Outlived(v)'
    PROVE  RequestsOK' /\ LateIsCached'
BY DEF VerifierInv, RequestsOK, LateIsCached

LEMMA NextVerifierInv ==
    VerifierInv /\ [Next]_vars => VerifierInv'
<1> SUFFICES ASSUME VerifierInv, [Next]_vars PROVE VerifierInv'
  OBVIOUS
<1>1. CASE UNCHANGED verifierVars
  <2>1. UNCHANGED <<now, revokedAt, held, copy, handling, granted>>
    BY <1>1 DEF verifierVars, lists
  <2>2. ListsOK'
    BY <2>1, ListsStay DEF VerifierInv, ListsOK
  <2>3. RequestsOK' /\ LateIsCached'
    BY <2>1, RequestsStay DEF Outlived, Revoked
  <2> QED
    BY <2>2, <2>3 DEF VerifierInv
<1>2. ASSUME NEW r \in Request, NEW v \in Vp, Present(r, v) PROVE VerifierInv'
  <2>1. UNCHANGED <<now, revokedAt, held, copy>>
    BY <1>2 DEF Present, lists
  <2>2. ListsOK'
    BY <2>1, ListsStay DEF VerifierInv, ListsOK
  <2> QED
    BY <1>2, <2>2, PresentStep DEF VerifierInv
<1>3. ASSUME NEW r \in Request, Fetch(r) PROVE VerifierInv'
  <2>1. UNCHANGED <<now, revokedAt, handling, granted>>
    BY <1>3 DEF Fetch
  <2>2. ListsOK'
    BY <1>3, FetchStep DEF VerifierInv
  <2>3. RequestsOK' /\ LateIsCached'
    BY <2>1, RequestsStay DEF Outlived, Revoked
  <2> QED
    BY <2>2, <2>3 DEF VerifierInv
<1>4. ASSUME NEW r \in Request, Verify(r) \/ Store(r) PROVE VerifierInv'
  <2>1. UNCHANGED <<now, revokedAt, held, copy>>
    BY <1>4 DEF Verify, Store, lists
  <2>2. ListsOK'
    BY <2>1, ListsStay DEF VerifierInv, ListsOK
  <2> QED
    BY <1>4, <2>2, VerifyStep, StoreStep DEF VerifierInv
<1>5. ASSUME NEW v \in Vp, Expire(v) PROVE VerifierInv'
  <2>1. UNCHANGED <<now, revokedAt, held, copy, handling, granted>>
    BY <1>5 DEF Expire, lists
  <2>2. ListsOK'
    BY <2>1, ListsStay DEF VerifierInv, ListsOK
  <2>3. RequestsOK' /\ LateIsCached'
    BY <2>1, RequestsStay DEF Outlived, Revoked
  <2> QED
    BY <2>2, <2>3 DEF VerifierInv
<1>6. ASSUME NEW v \in Vp, Revoke(v) PROVE VerifierInv'
  <2>1. /\ UNCHANGED <<now, copy, handling, granted>>
        /\ v \notin Revoked /\ revokedAt' = [revokedAt EXCEPT ![v] = now]
        /\ \E p \in Up : held' \in {held, [held EXCEPT ![p] = None]}
    BY <1>6 DEF Revoke
  <2>2. ListsOK /\ now' \in Nat /\ now =< now'
    BY <2>1 DEF VerifierInv, ListsOK
  <2>3. DOMAIN held' = Process /\ \A p \in Process : held'[p] \in {held[p], None}
    BY <2>1, <2>2 DEF ListsOK
  <2>4. \E u \in Vp : u \notin Revoked /\ revokedAt' = [revokedAt EXCEPT ![u] = now]
    BY <2>1
  <2>5. ListsOK'
    BY <2>1, <2>2, <2>3, <2>4, ListsStay
  <2>6. \A u : Outlived(u) => Outlived(u)'
    BY <2>2, <2>4, NamesStay
  <2>7. RequestsOK' /\ LateIsCached'
    BY <2>1, <2>6, RequestsStay
  <2> QED
    BY <2>5, <2>7 DEF VerifierInv
<1>7. CASE Tick
  <2>1. now' = now + 1 /\ UNCHANGED <<revokedAt, held, copy, handling, granted>>
    BY <1>7 DEF Tick, lists
  <2>2. now' \in Nat /\ now =< now'
    BY <2>1 DEF VerifierInv, ListsOK
  <2>3. ListsOK'
    BY <2>1, <2>2, ListsStay DEF VerifierInv, ListsOK
  <2>4. RequestsOK' /\ LateIsCached'
    BY <2>1, <2>2, RequestsStay, NamesStay DEF VerifierInv
  <2> QED
    BY <2>3, <2>4 DEF VerifierInv
<1>8. CASE Server
  <2>1. /\ UNCHANGED <<now, revokedAt, copy, handling, granted>>
        /\ held' = [p \in Process |-> IF proc'[p].pc = "down" THEN None ELSE held[p]]
    BY <1>8 DEF Server
  <2>2. ListsOK'
    BY <2>1, ListsStay DEF VerifierInv, ListsOK
  <2>3. RequestsOK' /\ LateIsCached'
    BY <2>1, RequestsStay DEF Outlived, Revoked
  <2> QED
    BY <2>2, <2>3 DEF VerifierInv
<1> QED
  BY <1>1, <1>2, <1>3, <1>4, <1>5, <1>6, <1>7, <1>8 DEF Next, vars

LEMMA NextServerInv ==
    ServerInv /\ [Next]_vars => ServerInv'
<1> SUFFICES ASSUME ServerInv, [Next]_vars PROVE ServerInv'
  OBVIOUS
<1>1. ServerNext \/ UNCHANGED serverVars
  BY DEF Next, vars, Server, Present, Fetch, Verify, Store, Expire, Revoke, Tick
<1> QED
  BY <1>1, ServerNextInv, UnchangedServerInv

-----------------------------------------------------------------------------
(* Theorems.                                                                *)

LEMMA Invariance ==
    Spec => []IInv
<1>1. Init => IInv
  BY InitServerInv, InitVerifierInv DEF Init, IInv
<1>2. IInv /\ [Next]_vars => IInv'
  BY NextServerInv, NextVerifierInv DEF IInv
<1> QED
  BY <1>1, <1>2, PTL DEF Spec

\* However many processes start together on an empty database, with whatever
\* keys, and however often they crash: those that listen sign with the key of
\* the one stored issuer DID, and so did whatever was issued.
THEOREM IssuerKeyAgreed ==
    Spec => []OneIssuerKey
<1>1. IInv => OneIssuerKey
  BY DEF IInv, ServerInv, Settled, Signed, OneIssuerKey, Up
<1> QED
  BY <1>1, Invariance, PTL

\* The verifier grants nothing from its cache that has expired; and whichever
\* processes it fetches status lists from, and however they and it keep them, a
\* request that comes in when the revocation is older than the two lifetimes of a
\* status list together is granted from the verifier's own cache or not at all.
THEOREM CacheBoundsRevocation ==
    Spec => []LateIsCached
<1>1. IInv => LateIsCached
  BY DEF IInv, VerifierInv
<1> QED
  BY <1>1, Invariance, PTL

=============================================================================
